------------------------ MODULE WebhookIngest_proofs ------------------------
(***************************************************************************)
(* What is accepted is not lost, and what arrives in order settles.  For   *)
(* any number of changes at GitHub, workers, attempts, crashes and syncs:  *)
(* a stored delivery has a job until it is processed or given up           *)
(* (JobForEachDelivery), its follow-ups are recorded before it counts as   *)
(* processed (FollowUpsRecorded), and the rows that keep the newer version *)
(* never fall behind it (NeverBehind).  The invariant, IInv, says what a   *)
(* job may be while it is queued or worked on (QueueOK, WorkersOK), and    *)
(* that what a worker has left to do and what it has recorded together are *)
(* what its delivery asks for (TodoOK).                                    *)
(*                                                                         *)
(* Of one worker, a second invariant, OInv: while the deliveries come in   *)
(* order and no job fails, they are done in order (Line), and a row that   *)
(* is not as GitHub is will be written again (Covered).  It proves         *)
(* InOrderSettles.                                                         *)
(***************************************************************************)
EXTENDS WebhookIngest, SequenceTheorems, TLAPS

(* The payloads GitHub sends, and the statements they are projected by.    *)
Payloads ==
    [kind : EventKinds, action : {"changed", "touched", "deleted"}, v : Versions, parent : Versions]
Meaningful(p) == p.action = "deleted" => p.kind \in Deletable
FollowUpNames == {"note", "enqueue", "dirty", "stale"}

Upserts == {"upsert"} \X Rows \X Versions
Deletes == {"delete"} \X Deletable \X Versions
ObjectSet == Upserts \cup Deletes
EffectSet == {"effect"} \X FollowUpNames \X {Absent}
StatementSet == ObjectSet \cup EffectSet \cup {Repository, Mark}

WorkerRecords == [id : 0 .. MaxEvents, todo : Seq(StatementSet), fallback : BOOLEAN]
JobRecords == [state : JobStates, attempts : 0 .. MaxAttempts]

(* TypeOK, and the types of what it does not mention.                      *)
Types ==
    /\ github \in [Kinds -> Versions] /\ rows \in [Rows -> Versions]
    /\ payloads \in Seq(Payloads) /\ Len(payloads) <= MaxEvents
    /\ \A d \in DOMAIN payloads : Meaningful(payloads[d])
    /\ projecting \in BOOLEAN
    /\ delivery \in [Ids -> {"none", "stored", "processed"}]
    /\ cleaned \subseteq Ids
    /\ job \in [Ids -> JobRecords]
    /\ queue \in Seq(Ids)
    /\ worker \in [Workers -> WorkerRecords]
    /\ sync = NoRead \/ sync \in [kind : Kinds, v : Versions]

(* Only what GitHub sent is accepted, and only what was accepted has a     *)
(* job; a job that will be run has an attempt left.                        *)
JobsOK ==
    \A d \in Ids :
        /\ Accepted(d) => d \in DOMAIN payloads
        /\ job[d].state # "none" => Accepted(d)
        /\ job[d].state \in {"available", "retryable"} => job[d].attempts < MaxAttempts

(* A queued job is available, and queued once.                             *)
QueueOK ==
    \A i \in DOMAIN queue :
        /\ job[queue[i]].state = "available"
        /\ \A j \in DOMAIN queue : queue[j] = queue[i] => j = i

(* What a worker has left to do ends with the mark, deletes nothing but    *)
(* what its delivery deletes, and contains the follow-ups that are not yet *)
(* recorded (of a repository whose projection is on, unless a push fell    *)
(* back).                                                                  *)
TodoOK(w) ==
    LET p == payloads[worker[w].id]
        todo == worker[w].todo
    IN  /\ todo # <<>>
        /\ \A i \in DOMAIN todo : todo[i] = Mark <=> i = Len(todo)
        /\ \A i \in DOMAIN todo :
               todo[i][1] = "delete" => p.action = "deleted" /\ p.kind = todo[i][2]
        /\ projecting /\ ~worker[w].fallback =>
               \A j \in DOMAIN FollowUps(p) :
                   \/ <<worker[w].id, FollowUps(p)[j]>> \in effects
                   \/ \E i \in DOMAIN todo : todo[i] = Effect(FollowUps(p)[j])

(* A job that is worked on is running, on one worker.                      *)
WorkersOK ==
    \A w \in Workers : worker[w] # Idle =>
        /\ worker[w].id \in Ids /\ job[worker[w].id].state = "running"
        /\ \A v \in Workers : worker[v].id = worker[w].id => v = w
        /\ TodoOK(w)

IInv ==
    /\ Types /\ JobsOK /\ QueueOK /\ WorkersOK
    /\ JobForEachDelivery /\ FollowUpsRecorded /\ NeverBehind
-----------------------------------------------------------------------------
(* The kinds of objects: children of issues and pull requests are not      *)
(* gated.                                                                  *)
LEMMA KindFacts ==
  /\ Kinds \subseteq Rows /\ Gated \subseteq Rows /\ Deletable \subseteq Kinds
  /\ Parent \in [Kinds -> Kinds]
  /\ \A k \in Kinds : Parent[k] # k => Parent[k] \in {"issue", "pull_request"} /\ k \notin Gated
  /\ Parent["issue"] = "issue" /\ Parent["pull_request"] = "pull_request"
<1>1. Kinds \subseteq Rows /\ Gated \subseteq Rows /\ Deletable \subseteq Kinds
  BY DEF Kinds, Rows, Gated, Deletable
<1>2. /\ Parent["issue"] = "issue" /\ Parent["pull_request"] = "pull_request"
      /\ Parent["issue_comment"] = "issue" /\ Parent["pull_request_review"] = "pull_request"
      /\ Parent["pull_request_review_comment"] = "pull_request"
  BY DEF Parent, Kinds
<1>3. Parent \in [Kinds -> Kinds]
  BY DEF Parent, Kinds
<1>4. \A k \in Kinds : Parent[k] # k => Parent[k] \in {"issue", "pull_request"} /\ k \notin Gated
  BY <1>2 DEF Kinds, Gated
<1> QED
  BY <1>1, <1>2, <1>3, <1>4

LEMMA VersionFacts ==
  /\ First \in Versions /\ Absent \in Versions
  /\ \A v \in Versions : v.at \in Nat /\ v.at >= Absent.at
BY ConstantsAssumption DEF First, Absent, Versions

(* The upserts of an object: one or two rows, in versions that exist.      *)
LEMMA UpsertsShape ==
  ASSUME NEW k \in Kinds, NEW v \in Versions
  PROVE  /\ ObjectUpserts(k, v) \in Seq(Upserts)
         /\ Len(ObjectUpserts(k, v)) \in 1 .. 2
<1>1. /\ <<"upsert", k, v>> \in Upserts
      /\ <<"upsert", "pull_request_issue", v>> \in Upserts
  BY KindFacts DEF Upserts, Rows
<1>2. CASE k = "pull_request"
  BY <1>1, <1>2 DEF ObjectUpserts
<1>3. CASE k # "pull_request"
  BY <1>1, <1>3 DEF ObjectUpserts
<1> QED
  BY <1>2, <1>3

(* What an object event is projected by: at most three statements, of      *)
(* which only that of a deletion deletes, and only the deleted object.     *)
LEMMA ObjectStatementsShape ==
  ASSUME NEW p \in Payloads, p.kind \in Kinds, Meaningful(p)
  PROVE  /\ ObjectStatements(p) \in Seq(ObjectSet)
         /\ Len(ObjectStatements(p)) \in 1 .. 3
         /\ \A i \in DOMAIN ObjectStatements(p) :
                ObjectStatements(p)[i][1] = "delete" =>
                    p.action = "deleted" /\ p.kind = ObjectStatements(p)[i][2]
<1> DEFINE up == ParentUpserts(p)
           own == IF p.action = "deleted" THEN << <<"delete", p.kind, p.v>> >>
                                          ELSE ObjectUpserts(p.kind, p.v)
<1>1. p.v \in Versions /\ p.parent \in Versions /\ Parent[p.kind] \in Kinds
  BY KindFacts DEF Payloads
<1>2. /\ up \in Seq(Upserts) /\ Len(up) \in 0 .. 2
      /\ Parent[p.kind] = p.kind => Len(up) = 0
      /\ Parent[p.kind] # p.kind => up = ObjectUpserts(Parent[p.kind], p.parent)
  <2>1. CASE Parent[p.kind] = p.kind
    BY <2>1 DEF ParentUpserts
  <2>2. CASE Parent[p.kind] # p.kind
    BY <1>1, <2>2, UpsertsShape DEF ParentUpserts
  <2> QED
    BY <2>1, <2>2
<1>3. /\ own \in Seq(ObjectSet) /\ Len(own) \in 1 .. 2
      /\ Parent[p.kind] # p.kind => Len(own) = 1
      /\ \A i \in DOMAIN own : own[i][1] = "delete" => p.action = "deleted" /\ p.kind = own[i][2]
  <2>1. CASE p.action = "deleted"
    <3>1. own = << <<"delete", p.kind, p.v>> >>
      BY <2>1
    <3>2. <<"delete", p.kind, p.v>> \in ObjectSet
      BY <1>1, <2>1 DEF ObjectSet, Deletes, Meaningful
    <3>3. DOMAIN own = {1} /\ own[1][1] = "delete" /\ own[1][2] = p.kind
      BY <3>1
    <3> QED
      BY <2>1, <3>1, <3>2, <3>3
  <2>2. CASE p.action # "deleted"
    <3>1. own = ObjectUpserts(p.kind, p.v)
      BY <2>2
    <3>2. own \in Seq(Upserts) /\ Len(own) \in 1 .. 2
      BY <1>1, <3>1, UpsertsShape
    <3>3. own \in Seq(ObjectSet)
      BY <3>2, SeqMonotonic DEF ObjectSet
    <3>4. Parent[p.kind] # p.kind => Len(own) = 1
      BY <3>1, KindFacts DEF ObjectUpserts
    <3>5. \A i \in DOMAIN own : own[i][1] = "upsert"
      <4> SUFFICES ASSUME NEW i \in 1 .. Len(own) PROVE own[i][1] = "upsert"
        BY <3>1, <3>2
      <4>1. own[i] \in Upserts
        BY <3>1, <3>2, ElementOfSeq
      <4> QED
        BY <4>1 DEF Upserts
    <3> QED
      BY <3>2, <3>3, <3>4, <3>5
  <2> QED
    BY <2>1, <2>2
<1>4. up \in Seq(ObjectSet)
  BY <1>2, SeqMonotonic DEF ObjectSet
<1>5. ObjectStatements(p) = up \o own
  BY DEF ObjectStatements
<1>6. \A i \in DOMAIN up : up[i][1] = "upsert"
  BY <1>2 DEF Upserts
<1> HIDE DEF up, own
<1>7. /\ up \o own \in Seq(ObjectSet) /\ Len(up \o own) = Len(up) + Len(own)
      /\ \A i \in 1 .. Len(up) + Len(own) :
             (up \o own)[i] = IF i <= Len(up) THEN up[i] ELSE own[i - Len(up)]
  BY <1>3, <1>4, ConcatProperties
<1>8. Len(up) + Len(own) \in 1 .. 3
  <2>1. CASE Parent[p.kind] = p.kind
    BY <2>1, <1>2, <1>3
  <2>2. CASE Parent[p.kind] # p.kind
    <3>1. Len(up) \in 0 .. 2 /\ Len(own) = 1
      BY <2>2, <1>2, <1>3
    <3>2. \A n \in 0 .. 2 : n + 1 \in 1 .. 3
      OBVIOUS
    <3> QED
      BY <3>1, <3>2
  <2> QED
    BY <2>1, <2>2
<1>9. \A i \in DOMAIN (up \o own) :
         (up \o own)[i][1] = "delete" => p.action = "deleted" /\ p.kind = (up \o own)[i][2]
  <2> SUFFICES ASSUME NEW i \in 1 .. Len(up) + Len(own), (up \o own)[i][1] = "delete"
               PROVE  p.action = "deleted" /\ p.kind = (up \o own)[i][2]
    BY <1>7
  <2>1. CASE i <= Len(up)
    <3>1. i \in DOMAIN up
      BY <2>1, <1>2
    <3> QED
      BY <2>1, <3>1, <1>6, <1>7
  <2>2. CASE ~(i <= Len(up))
    <3>1. i - Len(up) \in DOMAIN own
      BY <2>2, <1>2, <1>3
    <3>2. (up \o own)[i] = own[i - Len(up)]
      BY <2>2, <1>7
    <3> QED
      BY <3>1, <3>2, <1>3
  <2> QED
    BY <2>1, <2>2
<1> QED
  BY <1>5, <1>7, <1>8, <1>9

LEMMA FollowUpsShape ==
  ASSUME NEW p
  PROVE  /\ FollowUps(p) \in Seq(FollowUpNames)
         /\ DOMAIN FollowUps(p) = 1 .. Len(FollowUps(p)) /\ Len(FollowUps(p)) \in Nat
<1> DEFINE noted == <<"note", "enqueue">>
<1>0. "note" \in FollowUpNames /\ "enqueue" \in FollowUpNames /\ "dirty" \in FollowUpNames
      /\ "stale" \in FollowUpNames
  BY DEF FollowUpNames
<1>1. noted \in Seq(FollowUpNames) /\ <<"dirty">> \in Seq(FollowUpNames)
      /\ <<"note">> \in Seq(FollowUpNames) /\ <<"stale", "dirty">> \in Seq(FollowUpNames)
      /\ <<>> \in Seq(FollowUpNames)
  BY <1>0
<1> HIDE DEF noted
<1>2. noted \o <<"dirty">> \in Seq(FollowUpNames) /\ noted \o <<>> \in Seq(FollowUpNames)
  BY <1>1, ConcatProperties
<1>3. \/ FollowUps(p) \in {noted \o <<"dirty">>, noted \o <<>>, <<"stale", "dirty">>, <<"note">>, <<>>}
  <2>1. CASE p.kind = "pull_request"
    BY <2>1 DEF FollowUps, noted
  <2>2. CASE p.kind = "push"
    BY <2>2 DEF FollowUps
  <2>3. CASE p.kind \in {"repository", "ping"}
    BY <2>3 DEF FollowUps
  <2>4. CASE p.kind \notin {"pull_request", "push", "repository", "ping"}
    BY <2>4 DEF FollowUps
  <2> QED
    BY <2>1, <2>2, <2>3, <2>4
<1>4. FollowUps(p) \in Seq(FollowUpNames)
  BY <1>1, <1>2, <1>3
<1> QED
  BY <1>4, LenProperties

(* What a job does for its delivery, without the mark: the object, then    *)
(* every follow-up.                                                        *)
LEMMA StatementsShape ==
  ASSUME NEW p \in Payloads, Meaningful(p)
  PROVE  /\ Statements(p) \in Seq(StatementSet \ {Mark})
         /\ \A i \in DOMAIN Statements(p) :
                Statements(p)[i][1] = "delete" =>
                    p.action = "deleted" /\ p.kind = Statements(p)[i][2]
         /\ \A j \in DOMAIN FollowUps(p) :
                \E i \in DOMAIN Statements(p) : Statements(p)[i] = Effect(FollowUps(p)[j])
<1> DEFINE own == CASE p.kind \in Kinds -> ObjectStatements(p)
                    [] p.kind \in {"push", "repository"} -> <<Repository>>
                    [] OTHER -> <<>>
           asked == [i \in DOMAIN FollowUps(p) |-> Effect(FollowUps(p)[i])]
           Unmarked == StatementSet \ {Mark}
<1>1. Statements(p) = own \o asked
  BY DEF Statements
<1>2. ObjectSet \subseteq Unmarked /\ EffectSet \subseteq Unmarked /\ Repository \in Unmarked
  BY DEF StatementSet, ObjectSet, Upserts, Deletes, EffectSet, Mark, Repository
<1>3. /\ own \in Seq(Unmarked)
      /\ \A i \in DOMAIN own : own[i][1] = "delete" => p.action = "deleted" /\ p.kind = own[i][2]
  <2>1. CASE p.kind \in Kinds
    <3>1. own = ObjectStatements(p)
      BY <2>1 DEF Kinds
    <3>2. ObjectStatements(p) \in Seq(Unmarked)
      BY <2>1, <1>2, ObjectStatementsShape, SeqMonotonic
    <3> QED
      BY <2>1, <3>1, <3>2, ObjectStatementsShape
  <2>2. CASE p.kind \in {"push", "repository"}
    <3>1. own = <<Repository>>
      BY <2>2 DEF Kinds
    <3>2. Repository \in Unmarked
      BY <1>2
    <3> HIDE DEF own, Unmarked
    <3>2a. own[1] = Repository /\ DOMAIN own = {1} /\ own \in Seq(Unmarked)
      BY <3>1, <3>2
    <3>3. own[1][1] # "delete"
      BY <3>2a DEF Repository
    <3> QED
      BY <3>2a, <3>3
  <2>3. CASE p.kind \notin Kinds \cup {"push", "repository"}
    <3>1. own = <<>>
      BY <2>3
    <3> HIDE DEF own, Unmarked
    <3> QED
      BY <3>1
  <2> QED
    BY <2>1, <2>2, <2>3
<1>4. /\ asked \in Seq(Unmarked) /\ Len(asked) = Len(FollowUps(p))
      /\ \A i \in DOMAIN FollowUps(p) : asked[i] = Effect(FollowUps(p)[i])
      /\ \A i \in DOMAIN asked : asked[i][1] = "effect"
  <2>1. \A i \in DOMAIN FollowUps(p) : Effect(FollowUps(p)[i]) \in Unmarked
    <3> SUFFICES ASSUME NEW i \in DOMAIN FollowUps(p) PROVE Effect(FollowUps(p)[i]) \in EffectSet
      BY <1>2
    <3>1. FollowUps(p)[i] \in FollowUpNames
      BY FollowUpsShape, ElementOfSeq
    <3> QED
      BY <3>1 DEF Effect, EffectSet
  <2>2. /\ asked \in [1 .. Len(FollowUps(p)) -> Unmarked]
        /\ \A i \in DOMAIN FollowUps(p) : asked[i] = Effect(FollowUps(p)[i])
    BY <2>1, FollowUpsShape
  <2>3. asked \in Seq(Unmarked) /\ Len(asked) = Len(FollowUps(p)) /\ DOMAIN asked = DOMAIN FollowUps(p)
    BY <2>2, FollowUpsShape
  <2>4. \A f : Effect(f)[1] = "effect"
    BY DEF Effect
  <2> QED
    BY <2>2, <2>3, <2>4
<1> HIDE DEF own, asked, Unmarked
<1>4a. /\ Len(own) \in Nat /\ Len(asked) \in Nat
       /\ own \in Seq(Unmarked) /\ asked \in Seq(Unmarked)
  BY <1>3, <1>4, LenProperties
<1>5. /\ own \o asked \in Seq(Unmarked) /\ Len(own \o asked) = Len(own) + Len(asked)
      /\ Len(own) \in Nat /\ Len(asked) \in Nat
      /\ \A i \in 1 .. Len(own) + Len(asked) :
             (own \o asked)[i] = IF i <= Len(own) THEN own[i] ELSE asked[i - Len(own)]
  BY <1>4a, ConcatProperties
<1>6. \A i \in DOMAIN (own \o asked) :
         (own \o asked)[i][1] = "delete" => p.action = "deleted" /\ p.kind = (own \o asked)[i][2]
  <2> SUFFICES ASSUME NEW i \in 1 .. Len(own) + Len(asked), (own \o asked)[i][1] = "delete"
               PROVE  p.action = "deleted" /\ p.kind = (own \o asked)[i][2]
    BY <1>5
  <2>1. CASE i <= Len(own)
    <3>1. i \in DOMAIN own
      BY <2>1, <1>3, LenProperties
    <3> QED
      BY <2>1, <3>1, <1>3, <1>5
  <2>2. CASE ~(i <= Len(own))
    <3>1. i - Len(own) \in 1 .. Len(asked)
      BY <2>2, <1>5
    <3>2. i - Len(own) \in DOMAIN asked
      BY <3>1, <1>4, LenProperties
    <3>3. (own \o asked)[i] = asked[i - Len(own)]
      BY <2>2, <1>5
    <3> QED
      BY <3>2, <3>3, <1>4
  <2> QED
    BY <2>1, <2>2
<1>7. \A j \in DOMAIN FollowUps(p) :
         \E i \in DOMAIN (own \o asked) : (own \o asked)[i] = Effect(FollowUps(p)[j])
  <2> SUFFICES ASSUME NEW j \in 1 .. Len(asked)
               PROVE  \E i \in DOMAIN (own \o asked) : (own \o asked)[i] = Effect(FollowUps(p)[j])
    BY <1>4, FollowUpsShape
  <2>1. Len(own) + j \in 1 .. Len(own) + Len(asked) /\ ~(Len(own) + j <= Len(own))
        /\ Len(own) + j - Len(own) = j
    BY <1>5
  <2>2. (own \o asked)[Len(own) + j] = asked[j]
    BY <2>1, <1>5
  <2>3. Len(own) + j \in DOMAIN (own \o asked)
    BY <2>1, <1>5
  <2>4. asked[j] = Effect(FollowUps(p)[j])
    BY <1>4, FollowUpsShape
  <2> QED
    BY <2>2, <2>3, <2>4
<1> QED
  BY <1>1, <1>5, <1>6, <1>7 DEF Unmarked

(* A list of at most three statements is applied one after the other.      *)
LEMMA AppliedAllSteps ==
  ASSUME NEW rs, NEW stmts, Len(stmts) \in 0 .. 3
  PROVE  \E a1, a2, a3 :
             /\ a1 = Applied(rs, stmts[1]) /\ a2 = Applied(a1, stmts[2]) /\ a3 = Applied(a2, stmts[3])
             /\ Len(stmts) = 0 => AppliedAll(rs, stmts) = rs
             /\ Len(stmts) = 1 => AppliedAll(rs, stmts) = a1
             /\ Len(stmts) = 2 => AppliedAll(rs, stmts) = a2
             /\ Len(stmts) = 3 => AppliedAll(rs, stmts) = a3
<1> DEFINE a1 == Applied(rs, stmts[1])
           a2 == Applied(a1, stmts[2])
           a3 == Applied(a2, stmts[3])
           g == [i \in 0 .. Len(stmts) |-> IF i = 0 THEN rs ELSE IF i = 1 THEN a1 ELSE IF i = 2 THEN a2 ELSE a3]
           Steps(f) == [i \in 0 .. Len(stmts) |-> IF i = 0 THEN rs ELSE Applied(f[i - 1], stmts[i])]
           After == CHOOSE f : f = Steps(f)
<1>1. AppliedAll(rs, stmts) = After[Len(stmts)]
  BY DEF AppliedAll
<1>2. g = Steps(g)
  <2>1. ASSUME NEW i \in 0 .. Len(stmts)
        PROVE  g[i] = IF i = 0 THEN rs ELSE Applied(g[i - 1], stmts[i])
    <3>1. i \in {0, 1, 2, 3}
      <4>1. \A m \in 0 .. 3 : \A j \in 0 .. m : j \in {0, 1, 2, 3}
        OBVIOUS
      <4> QED
        BY <4>1
    <3>2. CASE i = 0
      BY <3>2
    <3>3. CASE i = 1
      <4>1. g[0] = rs
        OBVIOUS
      <4> QED
        BY <3>3, <4>1
    <3>4. CASE i = 2
      <4>1. g[1] = a1
        BY <3>4
      <4> QED
        BY <3>4, <4>1
    <3>5. CASE i = 3
      <4>1. g[2] = a2
        BY <3>5
      <4> QED
        BY <3>5, <4>1
    <3> QED
      BY <3>1, <3>2, <3>3, <3>4, <3>5
  <2> QED
    BY <2>1
<1>3. After = Steps(After)
  <2> HIDE DEF g, Steps
  <2> QED
    BY <1>2
<1> HIDE DEF After
<1>4. /\ After[0] = rs
      /\ \A i \in 1 .. Len(stmts) : After[i] = Applied(After[i - 1], stmts[i])
  <2>1. \A i \in 0 .. Len(stmts) : After[i] = IF i = 0 THEN rs ELSE Applied(After[i - 1], stmts[i])
    BY <1>3
  <2> QED
    BY <2>1
<1>5. Len(stmts) >= 1 => After[1] = a1
  BY <1>4
<1>6. Len(stmts) >= 2 => After[2] = a2
  BY <1>4, <1>5
<1>7. Len(stmts) >= 3 => After[3] = a3
  BY <1>4, <1>6
<1> HIDE DEF a1, a2, a3
<1>8. /\ Len(stmts) = 0 => AppliedAll(rs, stmts) = rs
      /\ Len(stmts) = 1 => AppliedAll(rs, stmts) = a1
      /\ Len(stmts) = 2 => AppliedAll(rs, stmts) = a2
      /\ Len(stmts) = 3 => AppliedAll(rs, stmts) = a3
  BY <1>1, <1>4, <1>5, <1>6, <1>7
<1> QED
  BY <1>8 DEF a1, a2, a3

(* A statement on an object keeps every row of a version that exists; a    *)
(* gated row only goes back when it is deleted, and does not stay behind   *)
(* what is upserted.                                                       *)
DeletesRow(s, r) == s[1] = "delete" /\ s[2] = r

LEMMA AppliedFacts ==
  ASSUME NEW rs \in [Rows -> Versions], NEW s \in ObjectSet
  PROVE  /\ Applied(rs, s) \in [Rows -> Versions]
         /\ \A r \in Gated : ~DeletesRow(s, r) =>
                /\ Applied(rs, s)[r].at >= rs[r].at
                /\ s[1] = "upsert" /\ s[2] = r => Applied(rs, s)[r].at >= s[3].at
<1>1. \A r \in Gated : r \in Rows /\ rs[r] \in Versions /\ rs[r].at \in Nat
  BY KindFacts, VersionFacts
<1>2. CASE s \in Upserts
  <2>1. s[1] = "upsert" /\ s[2] \in Rows /\ s[3] \in Versions /\ s[3].at \in Nat
    BY <1>2, VersionFacts DEF Upserts
  <2>2. Applied(rs, s) = Upserted(rs, s[2], s[3])
    BY <2>1 DEF Applied
  <2>3. CASE KeepsStored(rs, s[2], s[3])
    <3>1. Applied(rs, s) = rs
      BY <2>2, <2>3 DEF Upserted
    <3>2. s[3].at <= rs[s[2]].at
      BY <2>3 DEF KeepsStored
    <3> QED
      BY <1>1, <2>1, <3>1, <3>2
  <2>4. CASE ~KeepsStored(rs, s[2], s[3])
    <3>1. Applied(rs, s) = [rs EXCEPT ![s[2]] = s[3]]
      BY <2>2, <2>4 DEF Upserted
    <3>2. s[2] \in Gated => s[3].at >= rs[s[2]].at
      <4> SUFFICES ASSUME s[2] \in Gated PROVE s[3].at >= rs[s[2]].at
        OBVIOUS
      <4>1. CASE rs[s[2]] = Absent
        BY <4>1, <2>1, VersionFacts
      <4>2. CASE rs[s[2]] # Absent
        <5>1. ~(s[3].at <= rs[s[2]].at)
          BY <4>2, <2>4 DEF KeepsStored, Exists
        <5> QED
          BY <5>1, <1>1, <2>1
      <4> QED
        BY <4>1, <4>2
    <3>3. Applied(rs, s) \in [Rows -> Versions]
      BY <3>1, <2>1
    <3>4. ASSUME NEW r \in Gated
          PROVE  /\ Applied(rs, s)[r].at >= rs[r].at
                 /\ s[2] = r => Applied(rs, s)[r].at >= s[3].at
      <4>1. CASE s[2] = r
        <5>1. Applied(rs, s)[r] = s[3]
          BY <4>1, <3>1, <1>1
        <5> QED
          BY <5>1, <4>1, <3>2, <2>1
      <4>2. CASE s[2] # r
        <5>1. Applied(rs, s)[r] = rs[r]
          BY <4>2, <3>1, <1>1
        <5> QED
          BY <5>1, <4>2, <1>1
      <4> QED
        BY <4>1, <4>2
    <3> QED
      BY <3>3, <3>4
  <2> QED
    BY <2>3, <2>4
<1>3. CASE s \in Deletes
  <2>1. s[1] = "delete" /\ s[2] \in Deletable
    BY <1>3 DEF Deletes
  <2>2. Applied(rs, s) = [t \in Rows |->
            IF t = s[2] \/ (t \in Kinds /\ Parent[t] = s[2]) THEN Absent ELSE rs[t]]
    BY <2>1 DEF Applied, Deleted
  <2>3. Applied(rs, s) \in [Rows -> Versions]
    BY <2>2, VersionFacts
  <2>4. ASSUME NEW r \in Gated, s[2] # r
        PROVE  Applied(rs, s)[r].at >= rs[r].at
    <3>1. ~(r \in Kinds /\ Parent[r] = s[2])
      BY <2>4, KindFacts
    <3>2. Applied(rs, s)[r] = rs[r]
      BY <2>2, <2>4, <3>1, <1>1
    <3> QED
      BY <3>2, <1>1
  <2> QED
    BY <2>1, <2>3, <2>4 DEF DeletesRow
<1> QED
  BY <1>2, <1>3 DEF ObjectSet

(* The same of the list of an object's statements.                         *)
LEMMA AppliedAllFacts ==
  ASSUME NEW rs \in [Rows -> Versions], NEW stmts \in Seq(ObjectSet), Len(stmts) \in 1 .. 3
  PROVE  /\ AppliedAll(rs, stmts) \in [Rows -> Versions]
         /\ \A r \in Gated : (\A i \in DOMAIN stmts : ~DeletesRow(stmts[i], r)) =>
                /\ AppliedAll(rs, stmts)[r].at >= rs[r].at
                /\ \A i \in DOMAIN stmts : stmts[i][1] = "upsert" /\ stmts[i][2] = r =>
                       AppliedAll(rs, stmts)[r].at >= stmts[i][3].at
<1> DEFINE Up(before, s, after) ==
             \A r \in Gated : ~DeletesRow(s, r) =>
                /\ after[r].at >= before[r].at
                /\ s[1] = "upsert" /\ s[2] = r => after[r].at >= s[3].at
           Made(after) ==
             /\ after \in [Rows -> Versions]
             /\ \A r \in Gated : (\A i \in DOMAIN stmts : ~DeletesRow(stmts[i], r)) =>
                /\ after[r].at >= rs[r].at
                /\ \A i \in DOMAIN stmts : stmts[i][1] = "upsert" /\ stmts[i][2] = r =>
                       after[r].at >= stmts[i][3].at
<1>1. \A i \in DOMAIN stmts : stmts[i] \in ObjectSet
  BY ElementOfSeq, LenProperties
<1>2. DOMAIN stmts = 1 .. Len(stmts)
  BY LenProperties
<1>3. PICK a1, a2, a3 :
         /\ a1 = Applied(rs, stmts[1]) /\ a2 = Applied(a1, stmts[2]) /\ a3 = Applied(a2, stmts[3])
         /\ Len(stmts) = 1 => AppliedAll(rs, stmts) = a1
         /\ Len(stmts) = 2 => AppliedAll(rs, stmts) = a2
         /\ Len(stmts) = 3 => AppliedAll(rs, stmts) = a3
  <2>1. Len(stmts) \in 0 .. 3
    OBVIOUS
  <2> HIDE DEF Up, Made
  <2> QED
    BY <2>1, AppliedAllSteps
<1>4. 1 \in DOMAIN stmts /\ a1 \in [Rows -> Versions] /\ Up(rs, stmts[1], a1)
  <2>1. 1 \in DOMAIN stmts
    BY <1>2
  <2> QED
    BY <2>1, <1>1, <1>3, AppliedFacts
<1>5. 2 \in DOMAIN stmts => a2 \in [Rows -> Versions] /\ Up(a1, stmts[2], a2)
  BY <1>1, <1>3, <1>4, AppliedFacts
<1>6. 3 \in DOMAIN stmts => 2 \in DOMAIN stmts /\ a3 \in [Rows -> Versions] /\ Up(a2, stmts[3], a3)
  <2>1. 3 \in DOMAIN stmts => 2 \in DOMAIN stmts
    BY <1>2
  <2> QED
    BY <2>1, <1>1, <1>3, <1>5, AppliedFacts
<1>7. /\ \A i \in DOMAIN stmts : stmts[i][1] = "upsert" => stmts[i][3].at \in Nat
      /\ \A f \in [Rows -> Versions] : \A r \in Gated : f[r].at \in Nat
  BY <1>1, KindFacts, VersionFacts DEF ObjectSet, Upserts, Deletes
<1> HIDE DEF Up
<1>8. CASE Len(stmts) = 1
  <2>1. DOMAIN stmts = {1}
    BY <1>2, <1>8
  <2>2. Made(a1)
    BY <2>1, <1>4 DEF Up
  <2> QED
    BY <2>2, <1>3, <1>8
<1>9. CASE Len(stmts) = 2
  <2>1. DOMAIN stmts = {1, 2}
    BY <1>2, <1>9
  <2>2. Made(a2)
    <3>1. ASSUME NEW r \in Gated, \A i \in DOMAIN stmts : ~DeletesRow(stmts[i], r)
          PROVE  /\ a2[r].at >= rs[r].at
                 /\ \A i \in DOMAIN stmts : stmts[i][1] = "upsert" /\ stmts[i][2] = r =>
                        a2[r].at >= stmts[i][3].at
      <4>1. a1[r].at >= rs[r].at /\ a2[r].at >= a1[r].at
        BY <2>1, <3>1, <1>4, <1>5 DEF Up
      <4>2. a1[r].at \in Nat /\ a2[r].at \in Nat /\ rs[r].at \in Nat
        BY <2>1, <1>4, <1>5, <1>7
      <4>3. stmts[1][1] = "upsert" /\ stmts[1][2] = r => a1[r].at >= stmts[1][3].at
        BY <2>1, <3>1, <1>4 DEF Up
      <4>4. stmts[2][1] = "upsert" /\ stmts[2][2] = r => a2[r].at >= stmts[2][3].at
        BY <2>1, <3>1, <1>5 DEF Up
      <4>5. stmts[1][1] = "upsert" /\ stmts[1][2] = r => a2[r].at >= stmts[1][3].at
        <5>1. stmts[1][1] = "upsert" => stmts[1][3].at \in Nat
          BY <1>4, <1>7, KindFacts
        <5> QED
          BY <5>1, <4>1, <4>2, <4>3
      <4> QED
        BY <2>1, <4>1, <4>2, <4>4, <4>5
    <3> QED
      BY <2>1, <1>5, <3>1
  <2> QED
    BY <2>2, <1>3, <1>9
<1>10. CASE Len(stmts) = 3
  <2>1. DOMAIN stmts = {1, 2, 3}
    BY <1>2, <1>10
  <2>2. Made(a3)
    <3>1. ASSUME NEW r \in Gated, \A i \in DOMAIN stmts : ~DeletesRow(stmts[i], r)
          PROVE  /\ a3[r].at >= rs[r].at
                 /\ \A i \in DOMAIN stmts : stmts[i][1] = "upsert" /\ stmts[i][2] = r =>
                        a3[r].at >= stmts[i][3].at
      <4>1. a1[r].at >= rs[r].at /\ a2[r].at >= a1[r].at /\ a3[r].at >= a2[r].at
        BY <2>1, <3>1, <1>4, <1>5, <1>6 DEF Up
      <4>2. a1[r].at \in Nat /\ a2[r].at \in Nat /\ a3[r].at \in Nat /\ rs[r].at \in Nat
        BY <2>1, <1>4, <1>5, <1>6, <1>7
      <4>3. stmts[1][1] = "upsert" /\ stmts[1][2] = r => a1[r].at >= stmts[1][3].at
        BY <2>1, <3>1, <1>4 DEF Up
      <4>4. stmts[2][1] = "upsert" /\ stmts[2][2] = r => a2[r].at >= stmts[2][3].at
        BY <2>1, <3>1, <1>5 DEF Up
      <4>5. stmts[3][1] = "upsert" /\ stmts[3][2] = r => a3[r].at >= stmts[3][3].at
        BY <2>1, <3>1, <1>6 DEF Up
      <4>6. /\ stmts[1][1] = "upsert" => stmts[1][3].at \in Nat
            /\ stmts[2][1] = "upsert" => stmts[2][3].at \in Nat
        BY <2>1, <1>7, KindFacts
      <4>7. a3[r].at >= a1[r].at /\ a3[r].at >= a2[r].at
        BY <4>1, <4>2
      <4>8. ASSUME stmts[1][1] = "upsert", stmts[1][2] = r PROVE a3[r].at >= stmts[1][3].at
        <5> DEFINE x == a3[r].at
                   y == a1[r].at
                   z == stmts[1][3].at
        <5>1. x \in Nat /\ y \in Nat /\ z \in Nat
          BY <4>2, <4>6, <4>8
        <5>2. x >= y /\ y >= z
          BY <4>2, <4>7, <4>3, <4>8
        <5> HIDE DEF x, y, z
        <5>3. x >= z
          BY <5>1, <5>2
        <5> QED
          BY <5>3 DEF x, z
      <4>9. ASSUME stmts[2][1] = "upsert", stmts[2][2] = r PROVE a3[r].at >= stmts[2][3].at
        <5> DEFINE x == a3[r].at
                   y == a2[r].at
                   z == stmts[2][3].at
        <5>1. x \in Nat /\ y \in Nat /\ z \in Nat
          BY <4>2, <4>6, <4>9
        <5>2. x >= y /\ y >= z
          BY <4>2, <4>7, <4>4, <4>9
        <5> HIDE DEF x, y, z
        <5>3. x >= z
          BY <5>1, <5>2
        <5> QED
          BY <5>3 DEF x, z
      <4> QED
        BY <2>1, <4>1, <4>2, <4>5, <4>8, <4>9
    <3> QED
      BY <2>1, <1>6, <3>1
  <2> QED
    BY <2>2, <1>3, <1>10
<1> QED
  BY <1>8, <1>9, <1>10

-----------------------------------------------------------------------------
(* What a step keeps that does not touch it.                               *)

PayloadsKept ==
    /\ DOMAIN payloads \subseteq DOMAIN payloads'
    /\ \A d \in DOMAIN payloads : payloads'[d] = payloads[d]

LEMMA PayloadFacts ==
  ASSUME Types
  PROVE  /\ DOMAIN payloads = 1 .. Len(payloads) /\ DOMAIN payloads \subseteq Ids
         /\ Len(payloads) \in Nat
         /\ \A d \in DOMAIN payloads : payloads[d] \in Payloads /\ Meaningful(payloads[d])
<1>1. DOMAIN payloads = 1 .. Len(payloads) /\ Len(payloads) \in Nat
  BY LenProperties DEF Types
<1>2. Len(payloads) <= MaxEvents /\ MaxEvents \in Nat
  BY ConstantsAssumption DEF Types
<1>3. DOMAIN payloads \subseteq Ids
  BY <1>1, <1>2 DEF Ids
<1>4. \A d \in DOMAIN payloads : payloads[d] \in Payloads
  BY <1>1, ElementOfSeq DEF Types
<1> QED
  BY <1>1, <1>3, <1>4 DEF Types

LEMMA JobsKept ==
  ASSUME JobsOK, PayloadsKept, UNCHANGED <<delivery, cleaned, job>>
  PROVE  JobsOK'
BY DEF JobsOK, PayloadsKept, Accepted

LEMMA QueueKept ==
  ASSUME QueueOK, UNCHANGED <<queue, job>>
  PROVE  QueueOK'
BY DEF QueueOK

LEMMA PendingKept ==
  ASSUME JobForEachDelivery, UNCHANGED <<delivery, cleaned, job, queue>>
  PROVE  JobForEachDelivery'
BY DEF JobForEachDelivery, Pending

(* A worker's delivery is known.                                           *)
LEMMA WorkersKnow ==
  ASSUME Types, JobsOK, WorkersOK, NEW w \in Workers, worker[w] # Idle
  PROVE  worker[w].id \in DOMAIN payloads /\ worker[w].id \in Ids /\ Accepted(worker[w].id)
BY DEF JobsOK, WorkersOK

LEMMA TodoKept ==
  ASSUME NEW w \in Workers, TodoOK(w), PayloadsKept, worker[w].id \in DOMAIN payloads,
         worker'[w] = worker[w], effects \subseteq effects', UNCHANGED projecting
  PROVE  TodoOK(w)'
BY DEF TodoOK, PayloadsKept

LEMMA WorkersStay ==
  ASSUME Types, JobsOK, WorkersOK, PayloadsKept,
         effects \subseteq effects', UNCHANGED <<worker, projecting>>,
         \A w \in Workers : worker[w] # Idle => job'[worker[w].id].state = "running"
  PROVE  WorkersOK'
<1> SUFFICES ASSUME NEW w \in Workers, worker[w] # Idle
             PROVE  /\ worker[w].id \in Ids /\ job'[worker[w].id].state = "running"
                    /\ \A v \in Workers : worker[v].id = worker[w].id => v = w
                    /\ TodoOK(w)'
  BY DEF WorkersOK
<1>1. TodoOK(w)'
  BY WorkersKnow, TodoKept DEF WorkersOK
<1> QED
  BY <1>1 DEF WorkersOK

LEMMA WorkersKept ==
  ASSUME Types, JobsOK, WorkersOK, PayloadsKept,
         effects \subseteq effects', UNCHANGED <<worker, job, projecting>>
  PROVE  WorkersOK'
<1>1. \A w \in Workers : worker[w] # Idle => job'[worker[w].id].state = "running"
  BY DEF WorkersOK
<1> QED
  BY <1>1, WorkersStay

LEMMA FollowUpsKept ==
  ASSUME Types, JobsOK, FollowUpsRecorded, PayloadsKept, effects \subseteq effects',
         UNCHANGED projecting,
         \A d \in Ids : delivery'[d] = "processed" => delivery[d] = "processed",
         DOMAIN payloads' \subseteq Ids
  PROVE  FollowUpsRecorded'
<1> SUFFICES ASSUME NEW d \in DOMAIN payloads', projecting, delivery'[d] = "processed",
                    <<d, "degraded">> \notin effects'
             PROVE  \A i \in DOMAIN FollowUps(payloads'[d]) : <<d, FollowUps(payloads'[d])[i]>> \in effects'
  BY DEF FollowUpsRecorded
<1>1. d \in Ids /\ delivery[d] = "processed" /\ <<d, "degraded">> \notin effects
  OBVIOUS
<1>2. d \in DOMAIN payloads
  BY <1>1 DEF JobsOK, Accepted
<1>3. payloads'[d] = payloads[d]
  BY <1>2 DEF PayloadsKept
<1> QED
  BY <1>1, <1>2, <1>3 DEF FollowUpsRecorded

(* What NeverBehind says of one delivery.                                  *)
CoveredBy(d) ==
    \A i \in DOMAIN ObjectStatements(payloads[d]) :
        LET s == ObjectStatements(payloads[d])[i] IN
        s[1] = "upsert" /\ s[2] \in Gated /\ ~DeletionAccepted(s[2]) => rows[s[2]].at >= s[3].at

LEMMA NeverBehindCovers ==
  NeverBehind <=> \A d \in DOMAIN payloads : Accepted(d) /\ Immediate(payloads[d]) => CoveredBy(d)
BY DEF NeverBehind, CoveredBy

(* An upsert of a delivery is of a version.                                *)
LEMMA UpsertVersions ==
  ASSUME Types, NEW d \in DOMAIN payloads, Immediate(payloads[d]),
         NEW i \in DOMAIN ObjectStatements(payloads[d]),
         ObjectStatements(payloads[d])[i][1] = "upsert"
  PROVE  ObjectStatements(payloads[d])[i][3].at \in Nat
<1> DEFINE stmts == ObjectStatements(payloads[d])
<1>1. stmts \in Seq(ObjectSet)
  BY PayloadFacts, ObjectStatementsShape DEF Immediate
<1>2. stmts[i] \in ObjectSet
  BY <1>1, ElementOfSeq, LenProperties
<1> HIDE DEF stmts
<1>3. stmts[i] \in Upserts
  BY <1>2 DEF ObjectSet, Deletes, stmts
<1>4. stmts[i][3] \in Versions
  BY <1>3 DEF Upserts
<1> QED
  BY <1>4, VersionFacts DEF stmts

(* A step after which gated rows are where they were or further covers     *)
(* what was covered.                                                       *)
LEMMA CoveredKept ==
  ASSUME Types, rows' \in [Rows -> Versions], PayloadsKept,
         \A d \in Ids : Accepted(d) => Accepted(d)',
         \A r \in Gated : ~DeletionAccepted(r)' => rows'[r].at >= rows[r].at,
         NEW d \in DOMAIN payloads, Immediate(payloads[d]), CoveredBy(d)
  PROVE  CoveredBy(d)'
<1>1. payloads'[d] = payloads[d]
  BY DEF PayloadsKept
<1>2. \A r : DeletionAccepted(r) => DeletionAccepted(r)'
  BY PayloadFacts DEF DeletionAccepted, PayloadsKept
<1>3. ASSUME NEW i \in DOMAIN ObjectStatements(payloads[d]), NEW s,
             s = ObjectStatements(payloads[d])[i],
             s[1] = "upsert", s[2] \in Gated, ~DeletionAccepted(s[2])'
      PROVE  rows'[s[2]].at >= s[3].at
  <2>1. rows[s[2]].at >= s[3].at
    BY <1>2, <1>3 DEF CoveredBy
  <2>2. rows'[s[2]].at >= rows[s[2]].at
    BY <1>3
  <2>3. s[3].at \in Nat
    BY <1>3, UpsertVersions
  <2>4. rows[s[2]].at \in Nat /\ rows'[s[2]].at \in Nat
    BY <1>3, KindFacts, VersionFacts DEF Types
  <2> QED
    BY <2>1, <2>2, <2>3, <2>4
<1> QED
  BY <1>1, <1>3 DEF CoveredBy

LEMMA NeverBehindKept ==
  ASSUME Types, JobsOK, NeverBehind, rows' \in [Rows -> Versions], PayloadsKept,
         DOMAIN payloads' \subseteq Ids,
         \A d \in Ids : Accepted(d) <=> Accepted(d)',
         \A r \in Gated : ~DeletionAccepted(r)' => rows'[r].at >= rows[r].at
  PROVE  NeverBehind'
<1> SUFFICES ASSUME NEW d \in DOMAIN payloads', Accepted(d)', Immediate(payloads'[d])
             PROVE  CoveredBy(d)'
  BY DEF NeverBehind, CoveredBy
<1>1. d \in DOMAIN payloads /\ Accepted(d)
  BY DEF JobsOK
<1>2. payloads'[d] = payloads[d]
  BY <1>1 DEF PayloadsKept
<1>3. CoveredBy(d)
  BY <1>1, <1>2, NeverBehindCovers
<1> QED
  BY <1>1, <1>2, <1>3, CoveredKept

-----------------------------------------------------------------------------
LEMMA InitIInv == Init => IInv
<1> SUFFICES ASSUME Init PROVE IInv
  OBVIOUS
<1>1. payloads = <<>> /\ queue = <<>> /\ DOMAIN payloads = {} /\ DOMAIN queue = {}
  BY DEF Init
<1>2. \A d \in Ids : delivery[d] = "none" /\ d \notin cleaned /\ job[d].state = "none"
                     /\ job[d] = [state |-> "none", attempts |-> 0]
  BY DEF Init
<1>3. \A w \in Workers : worker[w] = Idle
  BY DEF Init
<1>4. Types
  <2>1. github \in [Kinds -> Versions] /\ rows \in [Rows -> Versions]
    BY VersionFacts DEF Init
  <2>2. payloads \in Seq(Payloads) /\ Len(payloads) <= MaxEvents /\ queue \in Seq(Ids)
    BY <1>1, ConstantsAssumption, EmptySeq
  <2>3. [state |-> "none", attempts |-> 0] \in JobRecords
    BY ConstantsAssumption DEF JobRecords, JobStates
  <2>4. job \in [Ids -> JobRecords] /\ delivery \in [Ids -> {"none", "stored", "processed"}]
    BY <2>3 DEF Init
  <2>5. Idle \in WorkerRecords
    <3>1. <<>> \in Seq(StatementSet)
      BY EmptySeq
    <3> QED
      BY <3>1, ConstantsAssumption DEF Idle, WorkerRecords
  <2>6. worker \in [Workers -> WorkerRecords]
    BY <2>5 DEF Init
  <2>7. projecting \in BOOLEAN /\ cleaned \subseteq Ids /\ sync = NoRead
    BY DEF Init
  <2> QED
    BY <1>1, <2>1, <2>2, <2>4, <2>6, <2>7 DEF Types
<1>5. JobsOK /\ QueueOK /\ WorkersOK
  BY <1>1, <1>2, <1>3 DEF JobsOK, QueueOK, WorkersOK, Accepted
<1>6. JobForEachDelivery /\ FollowUpsRecorded /\ NeverBehind
  BY <1>1, <1>2 DEF JobForEachDelivery, FollowUpsRecorded, NeverBehind
<1> QED
  BY <1>4, <1>5, <1>6 DEF IInv

(* GitHub's steps only add a delivery to come.                             *)
LEMMA Sent ==
  ASSUME IInv, NEW p \in Payloads, Meaningful(p), Len(payloads) < MaxEvents,
         payloads' = Append(payloads, p), github' \in [Kinds -> Versions],
         UNCHANGED <<projecting, delivery, cleaned, rows, effects, jobVars, envVars, syncVars>>
  PROVE  IInv'
<1> USE DEF jobVars, envVars, syncVars
<1>0. Types /\ JobsOK /\ QueueOK /\ WorkersOK
  BY DEF IInv
<1>1. /\ payloads' \in Seq(Payloads) /\ Len(payloads') = Len(payloads) + 1
      /\ DOMAIN payloads' = 1 .. Len(payloads) + 1
      /\ \A d \in 1 .. Len(payloads) : payloads'[d] = payloads[d]
      /\ payloads'[Len(payloads) + 1] = p
  BY <1>0 DEF Types
<1>2. PayloadsKept /\ DOMAIN payloads' \subseteq Ids
      /\ \A d \in DOMAIN payloads' : Meaningful(payloads'[d])
  <2>1. MaxEvents \in Nat /\ Len(payloads) \in Nat
    BY <1>0, ConstantsAssumption, PayloadFacts
  <2>2. PayloadsKept /\ DOMAIN payloads' \subseteq Ids
    BY <1>0, <1>1, <2>1, PayloadFacts DEF PayloadsKept, Ids
  <2>3. ASSUME NEW d \in DOMAIN payloads' PROVE Meaningful(payloads'[d])
    <3>1. CASE d \in 1 .. Len(payloads)
      BY <3>1, <1>0, <1>1, PayloadFacts
    <3>2. CASE d = Len(payloads) + 1
      BY <3>2, <1>1
    <3> QED
      BY <1>1, <2>1, <3>1, <3>2
  <2> QED
    BY <2>2, <2>3
<1>3. Types'
  <2>1. Len(payloads') <= MaxEvents
    BY <1>0, <1>1, ConstantsAssumption, PayloadFacts
  <2> QED
    BY <1>0, <1>1, <1>2, <2>1 DEF Types
<1>4. JobsOK' /\ QueueOK' /\ JobForEachDelivery'
  BY <1>0, <1>2, JobsKept, QueueKept, PendingKept DEF IInv
<1>5. WorkersOK'
  BY <1>0, <1>2, WorkersKept
<1>6. FollowUpsRecorded'
  BY <1>0, <1>2, FollowUpsKept DEF IInv
<1>7. NeverBehind'
  <2>1. \A d \in Ids : Accepted(d) <=> Accepted(d)'
    BY DEF Accepted
  <2>2. \A r \in Gated : rows'[r].at >= rows[r].at
    BY <1>0, KindFacts, VersionFacts DEF Types
  <2>3. rows' \in [Rows -> Versions]
    BY <1>3 DEF Types
  <2> QED
    BY <1>0, <1>2, <2>1, <2>2, <2>3, NeverBehindKept DEF IInv
<1> QED
  BY <1>3, <1>4, <1>5, <1>6, <1>7 DEF IInv

LEMMA SecondIsPast ==
  ASSUME Types
  PROVE  Second \in 0 .. MaxEvents + 1
<1>1. CASE payloads = <<>>
  BY <1>1, ConstantsAssumption DEF Second
<1>2. CASE payloads # <<>>
  <2>1. Len(payloads) \in DOMAIN payloads
    BY <1>2, PayloadFacts, EmptySeq DEF Types
  <2>2. payloads[Len(payloads)].v \in Versions
    BY <2>1, PayloadFacts DEF Payloads
  <2> QED
    BY <1>2, <2>2 DEF Second, Versions
<1> QED
  BY <1>1, <1>2

(* What GitHub sends is a payload.                                         *)
LEMMA PayloadIsPayload ==
  ASSUME Types, Len(payloads) < MaxEvents,
         NEW k \in EventKinds, NEW action \in {"changed", "touched", "deleted"},
         NEW at \in 0 .. MaxEvents + 1, action = "deleted" => k \in Deletable
  PROVE  /\ Payload(k, action, at) \in Payloads /\ Meaningful(Payload(k, action, at))
         /\ [n |-> Len(payloads) + 2, at |-> at] \in Versions
<1> DEFINE v == [n |-> Len(payloads) + 2, at |-> at]
<1>1. v \in Versions
  <2>1. Len(payloads) + 2 \in 0 .. MaxEvents + 1
    BY ConstantsAssumption, PayloadFacts
  <2> QED
    BY <2>1 DEF Versions
<1>2. k \in Kinds => github[Parent[k]] \in Versions
  BY KindFacts DEF Types
<1>3. Payload(k, action, at) =
        [kind |-> k, action |-> action, v |-> v,
         parent |-> IF k \in Kinds /\ Parent[k] # k THEN github[Parent[k]] ELSE v]
  BY DEF Payload
<1> HIDE DEF v
<1>4. Payload(k, action, at) \in Payloads
  BY <1>1, <1>2, <1>3 DEF Payloads
<1> QED
  BY <1>1, <1>3, <1>4 DEF Meaningful, v

LEMMA GitHubKeeps ==
  ASSUME IInv, GitHub
  PROVE  IInv'
<1>0. Types
  BY DEF IInv
<1>1. ASSUME NEW k \in Kinds, NEW action \in {"changed", "touched"}, NEW at \in 1 .. MaxEvents + 1,
             Change(k, action, at)
      PROVE  IInv'
  <2>1. at \in 0 .. MaxEvents + 1 /\ k \in EventKinds
    BY ConstantsAssumption DEF EventKinds
  <2>2. Len(payloads) < MaxEvents /\ payloads' = Append(payloads, Payload(k, action, at))
    BY <1>1 DEF Change
  <2>3. /\ Payload(k, action, at) \in Payloads /\ Meaningful(Payload(k, action, at))
        /\ [n |-> Len(payloads) + 2, at |-> at] \in Versions
    BY <1>0, <2>1, <2>2, PayloadIsPayload
  <2>4. github' \in [Kinds -> Versions]
    BY <1>0, <1>1, <2>3 DEF Change, Types
  <2> QED
    BY <1>1, <2>2, <2>3, <2>4, Sent DEF Change
<1>2. ASSUME NEW k \in Deletable, NEW at \in 1 .. MaxEvents + 1, Remove(k, at)
      PROVE  IInv'
  <2>1. at \in 0 .. MaxEvents + 1 /\ k \in EventKinds
    BY ConstantsAssumption, KindFacts DEF EventKinds
  <2>2. Len(payloads) < MaxEvents /\ payloads' = Append(payloads, Payload(k, "deleted", at))
    BY <1>2 DEF Remove
  <2>3. Payload(k, "deleted", at) \in Payloads /\ Meaningful(Payload(k, "deleted", at))
    BY <1>0, <2>1, <2>2, PayloadIsPayload
  <2>4. github' \in [Kinds -> Versions]
    BY <1>0, <1>2, VersionFacts DEF Remove, Types
  <2> QED
    BY <1>2, <2>2, <2>3, <2>4, Sent DEF Remove
<1>3. ASSUME NEW k \in EventKinds, Announce(k)
      PROVE  IInv'
  <2>1. Len(payloads) < MaxEvents /\ payloads' = Append(payloads, Payload(k, "changed", Second))
    BY <1>3 DEF Announce
  <2>2. Payload(k, "changed", Second) \in Payloads /\ Meaningful(Payload(k, "changed", Second))
    BY <1>0, <2>1, PayloadIsPayload, SecondIsPast
  <2>3. github' \in [Kinds -> Versions]
    BY <1>0, <1>3 DEF Announce, Types
  <2> QED
    BY <1>3, <2>1, <2>2, <2>3, Sent DEF Announce
<1> QED
  BY <1>1, <1>2, <1>3 DEF GitHub

-----------------------------------------------------------------------------
(* The acceptor.                                                           *)

LEMMA RecordFacts ==
  ASSUME Types
  PROVE  /\ \A d \in Ids : job[d] \in JobRecords /\ job[d].attempts \in 0 .. MaxAttempts
         /\ \A w \in Workers : worker[w] \in WorkerRecords
         /\ \A i \in DOMAIN queue : queue[i] \in Ids
         /\ DOMAIN queue = 1 .. Len(queue) /\ Len(queue) \in Nat
<1>1. \A i \in DOMAIN queue : queue[i] \in Ids
  BY ElementOfSeq, LenProperties DEF Types
<1>2. DOMAIN queue = 1 .. Len(queue) /\ Len(queue) \in Nat
  BY LenProperties DEF Types
<1> QED
  BY <1>1, <1>2 DEF Types, JobRecords

(* A job that is enqueued was not in the queue.                            *)
LEMMA Enqueued ==
  ASSUME Types, QueueOK, NEW d \in Ids, job[d].state # "available",
         queue' = Enqueue(d), job'[d].state = "available",
         \A e \in Ids : e # d => job'[e] = job[e]
  PROVE  /\ queue' \in Seq(Ids) /\ QueueOK'
         /\ \E i \in DOMAIN queue' : queue'[i] = d
         /\ \A i \in DOMAIN queue : i \in DOMAIN queue' /\ queue'[i] = queue[i]
<1>1. /\ queue' \in Seq(Ids) /\ Len(queue') = Len(queue) + 1
      /\ DOMAIN queue' = 1 .. Len(queue) + 1
      /\ \A i \in 1 .. Len(queue) : queue'[i] = queue[i]
      /\ queue'[Len(queue) + 1] = d
  BY DEF Enqueue, Types
<1>2. DOMAIN queue = 1 .. Len(queue) /\ Len(queue) \in Nat
  BY RecordFacts
<1>3. \A i \in DOMAIN queue : queue[i] # d /\ queue[i] \in Ids
  BY RecordFacts DEF QueueOK
<1>4. ASSUME NEW i \in DOMAIN queue'
      PROVE  /\ job'[queue'[i]].state = "available"
             /\ \A j \in DOMAIN queue' : queue'[j] = queue'[i] => j = i
  <2>1. CASE i \in DOMAIN queue
    <3>1. queue'[i] = queue[i] /\ queue[i] # d /\ queue[i] \in Ids
      BY <2>1, <1>1, <1>2, <1>3
    <3>2. job'[queue'[i]].state = "available"
      BY <2>1, <3>1 DEF QueueOK
    <3>3. ASSUME NEW j \in DOMAIN queue', queue'[j] = queue'[i] PROVE j = i
      <4>1. j \in DOMAIN queue /\ queue'[j] = queue[j]
        BY <3>1, <3>3, <1>1, <1>2
      <4> QED
        BY <2>1, <3>1, <3>3, <4>1 DEF QueueOK
    <3> QED
      BY <3>2, <3>3
  <2>2. CASE i \notin DOMAIN queue
    <3>1. i = Len(queue) + 1
      BY <2>2, <1>1, <1>2
    <3>2. \A j \in DOMAIN queue' : queue'[j] = d => j = i
      BY <3>1, <1>1, <1>2, <1>3
    <3> QED
      BY <3>1, <3>2, <1>1
  <2> QED
    BY <2>1, <2>2
<1>5. Len(queue) + 1 \in DOMAIN queue'
  BY <1>1, <1>2
<1>6. \A i \in DOMAIN queue : i \in DOMAIN queue' /\ queue'[i] = queue[i]
  BY <1>1, <1>2
<1>7. QueueOK'
  BY <1>4 DEF QueueOK
<1> QED
  BY <1>1, <1>5, <1>6, <1>7

LEMMA HandleWebhookKeeps ==
  ASSUME IInv, NEW d \in Ids, HandleWebhook(d)
  PROVE  IInv'
<1>0. Types /\ JobsOK /\ QueueOK /\ WorkersOK
  BY DEF IInv
<1>1. /\ d \in DOMAIN payloads /\ delivery[d] = "none"
      /\ delivery' = [delivery EXCEPT ![d] = "stored"]
      /\ UNCHANGED <<github, payloads, projecting, cleaned, worker, sync>>
  BY DEF HandleWebhook, ghVars, syncVars
<1>2. payloads[d] \in Payloads /\ Meaningful(payloads[d])
  BY <1>0, <1>1, PayloadFacts
<1>3. /\ effects \subseteq effects'
      /\ ~Immediate(payloads[d]) => rows' = rows
      /\ Immediate(payloads[d]) => rows' = AppliedAll(rows, ObjectStatements(payloads[d]))
  BY DEF HandleWebhook
<1>4. /\ Insertable(d) => /\ job' = [job EXCEPT ![d] = [state |-> "available", attempts |-> 0]]
                          /\ queue' = Enqueue(d)
      /\ ~Insertable(d) => UNCHANGED <<job, queue>>
  BY DEF HandleWebhook
<1>5. PayloadsKept /\ DOMAIN payloads' \subseteq Ids
  BY <1>0, <1>1, PayloadFacts DEF PayloadsKept
<1>6. /\ Accepted(d)' /\ \A e \in Ids : Accepted(e) => Accepted(e)'
      /\ \A e \in Ids : e # d => (Accepted(e)' <=> Accepted(e)) /\ delivery'[e] = delivery[e]
      /\ delivery'[d] = "stored" /\ delivery' \in [Ids -> {"none", "stored", "processed"}]
  <2>1. /\ delivery' \in [Ids -> {"none", "stored", "processed"}] /\ delivery'[d] = "stored"
        /\ \A e \in Ids : e # d => delivery'[e] = delivery[e]
    BY <1>0, <1>1 DEF Types
  <2> QED
    BY <1>1, <2>1 DEF Accepted
<1>7. rows' \in [Rows -> Versions]
  <2>1. CASE ~Immediate(payloads[d])
    BY <2>1, <1>0, <1>3 DEF Types
  <2>2. CASE Immediate(payloads[d])
    <3>1. /\ ObjectStatements(payloads[d]) \in Seq(ObjectSet)
          /\ Len(ObjectStatements(payloads[d])) \in 1 .. 3
      BY <2>2, <1>2, ObjectStatementsShape DEF Immediate
    <3> QED
      BY <2>2, <3>1, <1>0, <1>3, AppliedAllFacts DEF Types
  <2> QED
    BY <2>1, <2>2
<1>8. /\ queue' \in Seq(Ids) /\ QueueOK'
      /\ job' \in [Ids -> JobRecords]
      /\ \A e \in Ids : e # d => job'[e] = job[e]
      /\ Insertable(d) => /\ job'[d] = [state |-> "available", attempts |-> 0]
                          /\ \E i \in DOMAIN queue' : queue'[i] = d
      /\ \A i \in DOMAIN queue : i \in DOMAIN queue' /\ queue'[i] = queue[i]
  <2>1. CASE Insertable(d)
    <3>1. job[d].state # "available"
      BY <2>1 DEF Insertable
    <3>2. [state |-> "available", attempts |-> 0] \in JobRecords
      BY ConstantsAssumption DEF JobRecords, JobStates
    <3>3. /\ job' \in [Ids -> JobRecords] /\ job'[d] = [state |-> "available", attempts |-> 0]
          /\ \A e \in Ids : e # d => job'[e] = job[e]
      BY <2>1, <3>2, <1>0, <1>4 DEF Types
    <3> QED
      BY <2>1, <3>1, <3>3, <1>0, <1>4, Enqueued
  <2>2. CASE ~Insertable(d)
    BY <2>2, <1>0, <1>4, QueueKept DEF Types
  <2> QED
    BY <2>1, <2>2
<1>9. Types'
  BY <1>0, <1>1, <1>6, <1>7, <1>8 DEF Types
<1>10. JobsOK'
  <2> SUFFICES ASSUME NEW e \in Ids
               PROVE  /\ Accepted(e)' => e \in DOMAIN payloads
                      /\ job'[e].state # "none" => Accepted(e)'
                      /\ job'[e].state \in {"available", "retryable"} => job'[e].attempts < MaxAttempts
    BY <1>1 DEF JobsOK
  <2>1. CASE e # d
    BY <2>1, <1>0, <1>6, <1>8 DEF JobsOK
  <2>2. CASE e = d /\ Insertable(d)
    <3>1. job'[e].attempts = 0
      BY <2>2, <1>8
    <3> QED
      BY <2>2, <3>1, <1>1, <1>6, ConstantsAssumption
  <2>3. CASE e = d /\ ~Insertable(d)
    BY <2>3, <1>0, <1>1, <1>4, <1>6 DEF JobsOK
  <2> QED
    BY <2>1, <2>2, <2>3
<1>11. WorkersOK'
  <2>1. \A w \in Workers : worker[w] # Idle => job'[worker[w].id].state = "running"
    <3> SUFFICES ASSUME NEW w \in Workers, worker[w] # Idle
                 PROVE  job'[worker[w].id].state = "running"
      OBVIOUS
    <3>1. worker[w].id \in Ids /\ job[worker[w].id].state = "running"
      BY <1>0 DEF WorkersOK
    <3> QED
      BY <3>1, <1>4, <1>8 DEF Insertable
  <2> QED
    BY <2>1, <1>0, <1>1, <1>3, <1>5, WorkersStay
<1>12. JobForEachDelivery'
  <2> SUFFICES ASSUME NEW e \in Ids, e \notin cleaned, delivery'[e] = "stored"
               PROVE  Pending(e)' \/ job'[e].state = "discarded"
    BY <1>1 DEF JobForEachDelivery
  <2>1. CASE e = d
    <3>1. ~Accepted(d)
      BY <2>1, <1>1 DEF Accepted
    <3>2. Insertable(d)
      BY <3>1, <1>0 DEF JobsOK, Insertable
    <3> QED
      BY <2>1, <3>2, <1>8 DEF Pending
  <2>2. CASE e # d
    <3>1. Pending(e) \/ job[e].state = "discarded"
      BY <2>2, <1>6 DEF JobForEachDelivery, IInv
    <3> QED
      BY <2>2, <3>1, <1>8 DEF Pending
  <2> QED
    BY <2>1, <2>2
<1>13. FollowUpsRecorded'
  <2>1. \A e \in Ids : delivery'[e] = "processed" => delivery[e] = "processed"
    BY <1>6
  <2> QED
    BY <2>1, <1>0, <1>1, <1>3, <1>5, FollowUpsKept DEF IInv
<1>14. /\ \A r \in Gated : ~DeletionAccepted(r)' => rows'[r].at >= rows[r].at
       /\ Immediate(payloads[d]) => CoveredBy(d)'
  <2>1. CASE ~Immediate(payloads[d])
    BY <2>1, <1>0, <1>3, KindFacts, VersionFacts DEF Types
  <2>2. CASE Immediate(payloads[d])
    <3> DEFINE stmts == ObjectStatements(payloads[d])
    <3>1. /\ stmts \in Seq(ObjectSet) /\ Len(stmts) \in 1 .. 3
          /\ \A i \in DOMAIN stmts : stmts[i][1] = "delete" =>
                 payloads[d].action = "deleted" /\ payloads[d].kind = stmts[i][2]
      BY <2>2, <1>2, ObjectStatementsShape DEF Immediate
    <3>2. rows' = AppliedAll(rows, stmts)
      BY <2>2, <1>3
    <3>3. ObjectStatements(payloads'[d]) = stmts
      BY <1>1
    <3> HIDE DEF stmts
    <3>4. \A r \in Gated : ~DeletionAccepted(r)' => \A i \in DOMAIN stmts : ~DeletesRow(stmts[i], r)
      BY <3>1, <1>1, <1>6 DEF DeletesRow, DeletionAccepted
    <3>5. \A r \in Gated : ~DeletionAccepted(r)' =>
             /\ rows'[r].at >= rows[r].at
             /\ \A i \in DOMAIN stmts : stmts[i][1] = "upsert" /\ stmts[i][2] = r =>
                    rows'[r].at >= stmts[i][3].at
      BY <1>0, <3>1, <3>2, <3>4, AppliedAllFacts DEF Types
    <3> QED
      BY <3>3, <3>5 DEF CoveredBy
  <2> QED
    BY <2>1, <2>2
<1>15. NeverBehind'
  <2> SUFFICES ASSUME NEW e \in DOMAIN payloads', Accepted(e)', Immediate(payloads'[e])
               PROVE  CoveredBy(e)'
    BY DEF NeverBehind, CoveredBy
  <2>1. e \in DOMAIN payloads /\ Immediate(payloads[e]) /\ e \in Ids
    BY <1>1, <1>5
  <2>2. CASE e = d
    BY <2>1, <2>2, <1>14
  <2>3. CASE e # d
    <3>1. Accepted(e)
      BY <2>1, <2>3, <1>6
    <3>2. CoveredBy(e)
      BY <2>1, <3>1, NeverBehindCovers DEF IInv
    <3> QED
      BY <2>1, <3>2, <1>0, <1>5, <1>6, <1>7, <1>14, CoveredKept
  <2> QED
    BY <2>2, <2>3
<1> QED
  BY <1>8, <1>9, <1>10, <1>11, <1>12, <1>13, <1>15 DEF IInv

-----------------------------------------------------------------------------
(* River's workers.                                                        *)

LEMMA Dequeued ==
  ASSUME Types, QueueOK, queue # <<>>, queue' = Tail(queue),
         \A e \in Ids : e # Head(queue) => job'[e] = job[e]
  PROVE  /\ Head(queue) \in Ids /\ job[Head(queue)].state = "available"
         /\ queue' \in Seq(Ids) /\ QueueOK'
         /\ \A e \in Ids : e # Head(queue) /\ (\E i \in DOMAIN queue : queue[i] = e)
                => \E i \in DOMAIN queue' : queue'[i] = e
<1>1. /\ Head(queue) \in Ids /\ queue' \in Seq(Ids) /\ Len(queue') = Len(queue) - 1
      /\ \A i \in 1 .. Len(queue') : queue'[i] = queue[i + 1]
  BY HeadTailProperties DEF Types
<1>2. DOMAIN queue = 1 .. Len(queue) /\ Len(queue) \in Nat \ {0} /\ Head(queue) = queue[1]
  BY RecordFacts, EmptySeq DEF Types
<1>3. DOMAIN queue' = 1 .. Len(queue) - 1
  BY <1>1, LenProperties
<1>4. \A i \in DOMAIN queue' : i + 1 \in DOMAIN queue /\ queue'[i] = queue[i + 1] /\ i + 1 # 1
  BY <1>1, <1>2, <1>3
<1>5. 1 \in DOMAIN queue
  BY <1>2
<1>6. job[Head(queue)].state = "available"
  BY <1>2, <1>5 DEF QueueOK
<1>7. ASSUME NEW i \in DOMAIN queue'
      PROVE  /\ job'[queue'[i]].state = "available"
             /\ \A j \in DOMAIN queue' : queue'[j] = queue'[i] => j = i
  <2>1. queue'[i] # Head(queue) /\ queue'[i] \in Ids
    BY <1>2, <1>4, <1>5, RecordFacts DEF QueueOK
  <2>2. job'[queue'[i]].state = "available"
    BY <2>1, <1>4 DEF QueueOK
  <2>3. ASSUME NEW j \in DOMAIN queue', queue'[j] = queue'[i] PROVE j = i
    <3>1. j + 1 = i + 1
      BY <2>3, <1>4 DEF QueueOK
    <3>2. j \in Nat /\ i \in Nat
      BY <1>3
    <3> QED
      BY <3>1, <3>2
  <2> QED
    BY <2>2, <2>3
<1>8. ASSUME NEW e \in Ids, e # Head(queue), NEW i \in DOMAIN queue, queue[i] = e
      PROVE  \E k \in DOMAIN queue' : queue'[k] = e
  <2>1. i # 1 /\ i \in 1 .. Len(queue)
    BY <1>2, <1>8
  <2>2. i - 1 \in 1 .. Len(queue) - 1 /\ (i - 1) + 1 = i
    BY <1>2, <2>1
  <2>3. i - 1 \in DOMAIN queue' /\ queue'[i - 1] = queue[i]
    BY <2>2, <1>3, <1>4
  <2> QED
    BY <2>3, <1>8
<1>9. QueueOK'
  BY <1>7 DEF QueueOK
<1> QED
  BY <1>1, <1>6, <1>8, <1>9

(* A step of one worker.                                                   *)
LEMMA OneWorker ==
  ASSUME Types, JobsOK, WorkersOK, PayloadsKept,
         effects \subseteq effects', UNCHANGED projecting,
         NEW w \in Workers, NEW new \in WorkerRecords, worker' = [worker EXCEPT ![w] = new],
         \A v \in Workers : v # w /\ worker[v] # Idle =>
             job'[worker[v].id].state = "running" /\ new.id # worker[v].id,
         new # Idle => new.id \in Ids /\ job'[new.id].state = "running" /\ TodoOK(w)'
  PROVE  WorkersOK' /\ worker' \in [Workers -> WorkerRecords]
<1>1. /\ worker' \in [Workers -> WorkerRecords] /\ worker'[w] = new
      /\ \A v \in Workers : v # w => worker'[v] = worker[v]
  BY DEF Types
<1>2. \A v \in Workers : worker[v] = Idle => worker[v].id \notin Ids
  BY DEF Idle, Ids
<1>3. ASSUME NEW v \in Workers, worker'[v] # Idle
      PROVE  /\ worker'[v].id \in Ids /\ job'[worker'[v].id].state = "running"
             /\ \A u \in Workers : worker'[u].id = worker'[v].id => u = v
             /\ TodoOK(v)'
  <2>1. CASE v = w
    <3>1. \A u \in Workers : u # w => worker[u].id # new.id
      BY <2>1, <1>1, <1>2, <1>3
    <3> QED
      BY <2>1, <3>1, <1>1, <1>3
  <2>2. CASE v # w
    <3>1. /\ worker[v] # Idle /\ worker'[v] = worker[v] /\ worker[v].id \in Ids
          /\ \A u \in Workers : worker[u].id = worker[v].id => u = v
      BY <2>2, <1>1, <1>3 DEF WorkersOK
    <3>2. job'[worker[v].id].state = "running" /\ new.id # worker[v].id
      BY <2>2, <3>1
    <3>3. TodoOK(v)'
      BY <3>1, WorkersKnow, TodoKept DEF WorkersOK
    <3>4. \A u \in Workers : worker'[u].id = worker[v].id => u = v
      BY <1>1, <3>1, <3>2
    <3> QED
      BY <3>1, <3>2, <3>3, <3>4
  <2> QED
    BY <2>1, <2>2
<1> QED
  BY <1>1, <1>3 DEF WorkersOK

(* A list that will record every follow-up of a payload.                   *)
CoversFollowUps(p, todo) == \A j \in DOMAIN FollowUps(p) : \E i \in DOMAIN todo : todo[i] = Effect(FollowUps(p)[j])

(* What a job begins with.                                                 *)
LEMMA WholeTodo ==
  ASSUME NEW p \in Payloads, Meaningful(p), NEW todo,
         todo = (IF projecting THEN Statements(p) ELSE <<>>) \o <<Mark>>
  PROVE  /\ todo \in Seq(StatementSet) /\ todo # <<>>
         /\ \A i \in DOMAIN todo : todo[i] = Mark <=> i = Len(todo)
         /\ \A i \in DOMAIN todo : todo[i][1] = "delete" => p.action = "deleted" /\ p.kind = todo[i][2]
         /\ projecting => CoversFollowUps(p, todo)
<1> DEFINE own == IF projecting THEN Statements(p) ELSE <<>>
           Unmarked == StatementSet \ {Mark}
           last == <<Mark>>
<1>1. /\ own \in Seq(Unmarked)
      /\ \A i \in DOMAIN own : own[i][1] = "delete" => p.action = "deleted" /\ p.kind = own[i][2]
      /\ projecting => \A j \in DOMAIN FollowUps(p) :
                           \E i \in DOMAIN own : own[i] = Effect(FollowUps(p)[j])
  <2>1. CASE projecting
    BY <2>1, StatementsShape
  <2>2. CASE ~projecting
    <3>1. own = <<>>
      BY <2>2
    <3> QED
      BY <2>2, <3>1, EmptySeq
  <2> QED
    BY <2>1, <2>2
<1>2. own \in Seq(StatementSet) /\ DOMAIN own = 1 .. Len(own) /\ Len(own) \in Nat
      /\ \A i \in DOMAIN own : own[i] # Mark
  <2>1. \A i \in DOMAIN own : own[i] \in Unmarked
    BY <1>1, ElementOfSeq, LenProperties
  <2>2. own \in Seq(StatementSet)
    BY <1>1, SeqMonotonic
  <2> QED
    BY <1>1, <2>1, <2>2, LenProperties
<1>3. Mark \in StatementSet /\ Mark[1] # "delete"
  BY DEF StatementSet, Mark
<1>3a. todo = own \o <<Mark>>
  OBVIOUS
<1> HIDE DEF own, Unmarked
<1>4. last \in Seq(StatementSet) /\ Len(last) = 1 /\ last[1] = Mark
  BY <1>3
<1> HIDE DEF last
<1>5. /\ own \o last \in Seq(StatementSet) /\ Len(own \o last) = Len(own) + Len(last)
      /\ \A i \in 1 .. Len(own) + Len(last) :
             (own \o last)[i] = IF i <= Len(own) THEN own[i] ELSE last[i - Len(own)]
  <2>1. own \in Seq(StatementSet) /\ last \in Seq(StatementSet)
    BY <1>2, <1>4
  <2> QED
    BY <2>1, ConcatProperties
<1> DEFINE n == Len(own)
<1>6. n \in Nat /\ Len(own \o last) = n + 1 /\ DOMAIN (own \o last) = 1 .. n + 1
  BY <1>2, <1>4, <1>5, LenProperties
<1>7. /\ \A i \in 1 .. n : (own \o last)[i] = own[i] /\ i \in DOMAIN own
      /\ (own \o last)[n + 1] = Mark
  <2>1. \A i \in 1 .. n : (own \o last)[i] = own[i] /\ i \in DOMAIN own
    BY <1>2, <1>4, <1>5
  <2>2. n + 1 \in 1 .. Len(own) + Len(last) /\ ~(n + 1 <= Len(own)) /\ n + 1 - Len(own) = 1
    BY <1>4, <1>6
  <2>3. (own \o last)[n + 1] = last[1]
    BY <2>2, <1>5
  <2> QED
    BY <2>1, <2>3, <1>4
<1>8. todo = own \o last
  BY <1>3a DEF last
<1>9. DOMAIN own = 1 .. n
  BY <1>2
<1> HIDE DEF n
<1>10. Len(todo) = n + 1 /\ DOMAIN todo = 1 .. n + 1 /\ todo \in Seq(StatementSet)
  BY <1>5, <1>6, <1>8
<1>11. \A i \in 1 .. n + 1 : i \in 1 .. n \/ i = n + 1
  BY <1>6
<1>12. \A i \in 1 .. n : todo[i] = own[i] /\ i \in DOMAIN own /\ i # n + 1 /\ i \in 1 .. n + 1
  BY <1>6, <1>7, <1>8
<1>13. todo[n + 1] = Mark /\ n + 1 \in DOMAIN todo
  BY <1>6, <1>7, <1>8
<1>14. todo # <<>>
  BY <1>13
<1>15. \A i \in DOMAIN todo : todo[i] = Mark <=> i = Len(todo)
  BY <1>2, <1>10, <1>11, <1>12, <1>13
<1>16. \A i \in DOMAIN todo : todo[i][1] = "delete" => p.action = "deleted" /\ p.kind = todo[i][2]
  BY <1>1, <1>3, <1>10, <1>11, <1>12, <1>13
<1>17. projecting => \A j \in DOMAIN FollowUps(p) :
                        \E i \in DOMAIN todo : todo[i] = Effect(FollowUps(p)[j])
  BY <1>1, <1>9, <1>10, <1>12
<1> QED
  BY <1>10, <1>14, <1>15, <1>16, <1>17 DEF CoversFollowUps

LEMMA StartJobKeeps ==
  ASSUME IInv, NEW w \in Workers, StartJob(w)
  PROVE  IInv'
<1>0. Types /\ JobsOK /\ QueueOK /\ WorkersOK
  BY DEF IInv
<1> DEFINE d == Head(queue)
           own == IF projecting THEN Statements(payloads[d]) ELSE <<>>
           new == [id |-> d, fallback |-> FALSE, todo |-> own \o <<Mark>>]
<1>1. /\ worker[w] = Idle /\ queue # <<>> /\ delivery[d] = "stored" /\ queue' = Tail(queue)
      /\ job' = [job EXCEPT ![d] = [state |-> "running", attempts |-> job[d].attempts + 1]]
      /\ worker' = [worker EXCEPT ![w] = new]
      /\ UNCHANGED <<github, payloads, projecting, delivery, cleaned, rows, effects, sync>>
  BY DEF StartJob, ghVars, syncVars
<1>2. \A e \in Ids : e # d => job'[e] = job[e]
  BY <1>0, <1>1 DEF Types
<1>3. /\ d \in Ids /\ job[d].state = "available"
      /\ queue' \in Seq(Ids) /\ QueueOK'
      /\ \A e \in Ids : e # d /\ (\E i \in DOMAIN queue : queue[i] = e)
                => \E i \in DOMAIN queue' : queue'[i] = e
  <2> HIDE DEF new, own
  <2> QED
    BY <1>0, <1>1, <1>2, Dequeued
<1>4. Accepted(d) /\ d \in DOMAIN payloads /\ job[d].attempts < MaxAttempts
  BY <1>0, <1>3 DEF JobsOK
<1>5. /\ payloads[d] \in Payloads /\ Meaningful(payloads[d])
      /\ job[d].attempts \in 0 .. MaxAttempts
  BY <1>0, <1>3, <1>4, PayloadFacts, RecordFacts
<1>6. job' \in [Ids -> JobRecords] /\ job'[d].state = "running"
  <2>1. job[d].attempts + 1 \in 0 .. MaxAttempts
    BY <1>4, <1>5, ConstantsAssumption
  <2>2. [state |-> "running", attempts |-> job[d].attempts + 1] \in JobRecords
    BY <2>1 DEF JobRecords, JobStates
  <2> QED
    BY <2>2, <1>0, <1>1, <1>3 DEF Types
<1>7. /\ new.id = d /\ ~new.fallback /\ new.todo = own \o <<Mark>>
      /\ new.todo \in Seq(StatementSet) /\ new.todo # <<>>
      /\ \A i \in DOMAIN new.todo : new.todo[i] = Mark <=> i = Len(new.todo)
      /\ \A i \in DOMAIN new.todo : new.todo[i][1] = "delete" =>
             payloads[d].action = "deleted" /\ payloads[d].kind = new.todo[i][2]
      /\ projecting => \A j \in DOMAIN FollowUps(payloads[d]) :
             \E i \in DOMAIN new.todo : new.todo[i] = Effect(FollowUps(payloads[d])[j])
  <2>1. new.id = d /\ ~new.fallback /\ new.todo = own \o <<Mark>>
    OBVIOUS
  <2> HIDE DEF new, d
  <2>2. payloads[d] \in Payloads /\ Meaningful(payloads[d])
    BY <1>5
  <2>3. new.todo \in Seq(StatementSet) /\ new.todo # <<>>
    BY <2>1, <2>2, WholeTodo
  <2>4. \A i \in DOMAIN new.todo : new.todo[i] = Mark <=> i = Len(new.todo)
    BY <2>1, <2>2, WholeTodo
  <2>5. \A i \in DOMAIN new.todo : new.todo[i][1] = "delete" =>
             payloads[d].action = "deleted" /\ payloads[d].kind = new.todo[i][2]
    BY <2>1, <2>2, WholeTodo
  <2>6. projecting => \A j \in DOMAIN FollowUps(payloads[d]) :
             \E i \in DOMAIN new.todo : new.todo[i] = Effect(FollowUps(payloads[d])[j])
    <3>1. projecting => CoversFollowUps(payloads[d], new.todo)
      BY <2>1, <2>2, WholeTodo
    <3> QED
      BY <3>1 DEF CoversFollowUps
  <2> QED
    BY <2>1, <2>3, <2>4, <2>5, <2>6
<1>8. new \in WorkerRecords
  <2>1. d \in 0 .. MaxEvents
    BY <1>3 DEF Ids
  <2>2. \A t \in Seq(StatementSet) : [id |-> d, fallback |-> FALSE, todo |-> t] \in WorkerRecords
    BY <2>1 DEF WorkerRecords
  <2> QED
    BY <2>2, <1>7
<1> HIDE DEF new, own
<1>9. PayloadsKept /\ DOMAIN payloads' \subseteq Ids
  BY <1>0, <1>1, PayloadFacts DEF PayloadsKept
<1>10. TodoOK(w)'
  <2>1. worker'[w] = new
    BY <1>0, <1>1 DEF Types
  <2> QED
    BY <2>1, <1>1, <1>7 DEF TodoOK
<1>11. WorkersOK' /\ worker' \in [Workers -> WorkerRecords]
  <2>1. \A v \in Workers : v # w /\ worker[v] # Idle =>
             job'[worker[v].id].state = "running" /\ new.id # worker[v].id
    BY <1>0, <1>2, <1>3, <1>7 DEF WorkersOK
  <2>2. new.id \in Ids /\ job'[new.id].state = "running"
    BY <1>3, <1>6, <1>7
  <2>3. effects \subseteq effects' /\ projecting' = projecting /\ worker' = [worker EXCEPT ![w] = new]
    BY <1>1
  <2> QED
    BY <2>1, <2>2, <2>3, <1>0, <1>8, <1>9, <1>10, OneWorker
<1>12. Types'
  BY <1>0, <1>1, <1>3, <1>6, <1>11 DEF Types
<1>13. JobsOK'
  <2> SUFFICES ASSUME NEW e \in Ids
               PROVE  /\ Accepted(e) => e \in DOMAIN payloads
                      /\ job'[e].state # "none" => Accepted(e)
                      /\ job'[e].state \in {"available", "retryable"} => job'[e].attempts < MaxAttempts
    BY <1>1 DEF JobsOK, Accepted
  <2>1. CASE e = d
    BY <2>1, <1>0, <1>4, <1>6
  <2>2. CASE e # d
    BY <2>2, <1>0, <1>2 DEF JobsOK
  <2> QED
    BY <2>1, <2>2
<1>14. JobForEachDelivery'
  <2> SUFFICES ASSUME NEW e \in Ids, e \notin cleaned, delivery[e] = "stored"
               PROVE  Pending(e)' \/ job'[e].state = "discarded"
    BY <1>1 DEF JobForEachDelivery
  <2>1. CASE e = d
    BY <2>1, <1>6 DEF Pending
  <2>2. CASE e # d
    <3>1. Pending(e) \/ job[e].state = "discarded"
      BY DEF JobForEachDelivery, IInv
    <3> QED
      BY <2>2, <3>1, <1>2, <1>3 DEF Pending
  <2> QED
    BY <2>1, <2>2
<1>15. FollowUpsRecorded' /\ NeverBehind'
  <2>1. FollowUpsRecorded'
    BY <1>0, <1>1, <1>9, FollowUpsKept DEF IInv
  <2>2. \A e \in Ids : Accepted(e) <=> Accepted(e)'
    BY <1>1 DEF Accepted
  <2>3. \A r \in Gated : rows'[r].at >= rows[r].at
    BY <1>0, <1>1, KindFacts, VersionFacts DEF Types
  <2>4. rows' \in [Rows -> Versions]
    BY <1>12 DEF Types
  <2> QED
    BY <2>1, <2>2, <2>3, <2>4, <1>0, <1>9, NeverBehindKept DEF IInv
<1> QED
  BY <1>3, <1>11, <1>12, <1>13, <1>14, <1>15 DEF IInv

(* Rows and accepted deliveries stay as they are.                          *)
LEMMA RowsStay ==
  ASSUME IInv, UNCHANGED <<payloads, delivery, cleaned, rows>>
  PROVE  NeverBehind'
<1>0. Types /\ JobsOK
  BY DEF IInv
<1>1. PayloadsKept /\ DOMAIN payloads' \subseteq Ids
  BY <1>0, PayloadFacts DEF PayloadsKept
<1>2. \A e \in Ids : Accepted(e) <=> Accepted(e)'
  BY DEF Accepted
<1>3. rows' \in [Rows -> Versions] /\ \A r \in Gated : rows'[r].at >= rows[r].at
  BY <1>0, KindFacts, VersionFacts DEF Types
<1> QED
  BY <1>0, <1>1, <1>2, <1>3, NeverBehindKept DEF IInv

LEMMA SkipJobKeeps ==
  ASSUME IInv, NEW w \in Workers, SkipJob(w)
  PROVE  IInv'
<1>0. Types /\ JobsOK /\ QueueOK /\ WorkersOK
  BY DEF IInv
<1> DEFINE d == Head(queue)
<1>1. /\ queue # <<>> /\ delivery[d] # "stored" /\ queue' = Tail(queue)
      /\ job' = [job EXCEPT ![d] = [state |-> "completed", attempts |-> job[d].attempts + 1]]
      /\ UNCHANGED <<github, payloads, projecting, delivery, cleaned, rows, effects, worker, sync>>
  BY DEF SkipJob, ghVars, syncVars
<1>2. \A e \in Ids : e # d => job'[e] = job[e]
  BY <1>0, <1>1 DEF Types
<1>3. /\ d \in Ids /\ job[d].state = "available"
      /\ queue' \in Seq(Ids) /\ QueueOK'
      /\ \A e \in Ids : e # d /\ (\E i \in DOMAIN queue : queue[i] = e)
                => \E i \in DOMAIN queue' : queue'[i] = e
  BY <1>0, <1>1, <1>2, Dequeued
<1> HIDE DEF d
<1>4. Accepted(d) /\ d \in DOMAIN payloads /\ job[d].attempts < MaxAttempts
      /\ job[d].attempts \in 0 .. MaxAttempts
  BY <1>0, <1>3, RecordFacts DEF JobsOK
<1>5. job' \in [Ids -> JobRecords] /\ job'[d].state = "completed"
  <2>1. job[d].attempts + 1 \in 0 .. MaxAttempts
    BY <1>4, ConstantsAssumption
  <2>2. [state |-> "completed", attempts |-> job[d].attempts + 1] \in JobRecords
    BY <2>1 DEF JobRecords, JobStates
  <2> QED
    BY <2>2, <1>0, <1>1, <1>3 DEF Types
<1>6. PayloadsKept /\ DOMAIN payloads' \subseteq Ids
  BY <1>0, <1>1, PayloadFacts DEF PayloadsKept
<1>7. WorkersOK'
  <2>1. \A v \in Workers : worker[v] # Idle => job'[worker[v].id].state = "running"
    BY <1>0, <1>2, <1>3 DEF WorkersOK
  <2> QED
    BY <2>1, <1>0, <1>1, <1>6, WorkersStay
<1>8. Types'
  BY <1>0, <1>1, <1>3, <1>5 DEF Types
<1>9. JobsOK'
  <2> SUFFICES ASSUME NEW e \in Ids
               PROVE  /\ Accepted(e) => e \in DOMAIN payloads
                      /\ job'[e].state # "none" => Accepted(e)
                      /\ job'[e].state \in {"available", "retryable"} => job'[e].attempts < MaxAttempts
    BY <1>1 DEF JobsOK, Accepted
  <2>1. CASE e = d
    BY <2>1, <1>0, <1>4, <1>5
  <2>2. CASE e # d
    BY <2>2, <1>0, <1>2 DEF JobsOK
  <2> QED
    BY <2>1, <2>2
<1>10. JobForEachDelivery'
  <2> SUFFICES ASSUME NEW e \in Ids, e \notin cleaned, delivery[e] = "stored"
               PROVE  Pending(e)' \/ job'[e].state = "discarded"
    BY <1>1 DEF JobForEachDelivery
  <2>1. e # d
    BY <1>1
  <2>2. Pending(e) \/ job[e].state = "discarded"
    BY DEF JobForEachDelivery, IInv
  <2> QED
    BY <2>1, <2>2, <1>2, <1>3 DEF Pending
<1>11. FollowUpsRecorded' /\ NeverBehind'
  BY <1>0, <1>1, <1>6, FollowUpsKept, RowsStay DEF IInv
<1> QED
  BY <1>3, <1>7, <1>8, <1>9, <1>10, <1>11 DEF IInv

(* What a worker does next.                                                *)
LEMMA StatementFacts ==
  ASSUME Types, WorkersOK, NEW w \in Workers, worker[w] # Idle
  PROVE  /\ worker[w] \in WorkerRecords /\ TodoOK(w) /\ worker[w].todo # <<>>
         /\ Statement(w) = worker[w].todo[1] /\ Statement(w) \in StatementSet
         /\ DOMAIN worker[w].todo = 1 .. Len(worker[w].todo) /\ Len(worker[w].todo) \in Nat \ {0}
         /\ 1 \in DOMAIN worker[w].todo
         /\ Tail(worker[w].todo) \in Seq(StatementSet)
         /\ DOMAIN Tail(worker[w].todo) = 1 .. Len(worker[w].todo) - 1
         /\ Len(Tail(worker[w].todo)) = Len(worker[w].todo) - 1
         /\ \A i \in 1 .. Len(worker[w].todo) - 1 : Tail(worker[w].todo)[i] = worker[w].todo[i + 1]
<1> DEFINE todo == worker[w].todo
<1>1. worker[w] \in WorkerRecords /\ TodoOK(w) /\ todo # <<>> /\ todo \in Seq(StatementSet)
  BY RecordFacts DEF WorkersOK, TodoOK, WorkerRecords
<1>2. Statement(w) = Head(todo)
  BY DEF Statement
<1> HIDE DEF todo
<1>3. DOMAIN todo = 1 .. Len(todo) /\ Len(todo) \in Nat \ {0} /\ Head(todo) = todo[1]
  BY <1>1, EmptySeq, LenProperties
<1>4. /\ Head(todo) \in StatementSet /\ Tail(todo) \in Seq(StatementSet)
      /\ Len(Tail(todo)) = Len(todo) - 1
      /\ \A i \in 1 .. Len(Tail(todo)) : Tail(todo)[i] = todo[i + 1]
  BY <1>1, HeadTailProperties
<1>5. DOMAIN Tail(todo) = 1 .. Len(todo) - 1
  BY <1>4, LenProperties
<1>6. 1 \in DOMAIN todo
  BY <1>3
<1> QED
  BY <1>1, <1>2, <1>3, <1>4, <1>5, <1>6 DEF todo

(* A statement done is off the list; a follow-up done is recorded.         *)
LEMMA Advanced ==
  ASSUME IInv, NEW w \in Workers, worker[w] # Idle, Statement(w) # Mark, Advance(w),
         effects \subseteq effects', UNCHANGED <<job, payloads, projecting>>,
         Statement(w)[1] = "effect" => <<worker[w].id, Statement(w)[2]>> \in effects'
  PROVE  WorkersOK' /\ worker' \in [Workers -> WorkerRecords]
<1>0. Types /\ JobsOK /\ WorkersOK
  BY DEF IInv
<1> DEFINE todo == worker[w].todo
           new == [worker[w] EXCEPT !.todo = Tail(todo)]
           n == Len(todo)
<1>1. /\ worker[w] \in WorkerRecords /\ TodoOK(w) /\ Statement(w) = todo[1]
      /\ DOMAIN todo = 1 .. n /\ n \in Nat \ {0} /\ 1 \in DOMAIN todo
      /\ Tail(todo) \in Seq(StatementSet) /\ DOMAIN Tail(todo) = 1 .. n - 1
      /\ Len(Tail(todo)) = n - 1
      /\ \A i \in 1 .. n - 1 : Tail(todo)[i] = todo[i + 1]
  BY <1>0, StatementFacts
<1>2. worker' = [worker EXCEPT ![w] = new]
  BY <1>0 DEF Advance, Types
<1>3. /\ new \in WorkerRecords /\ new.id = worker[w].id /\ new.fallback = worker[w].fallback
      /\ new.todo = Tail(todo)
  BY <1>1 DEF WorkerRecords
<1>4. worker'[w] = new
  BY <1>0, <1>2 DEF Types
<1> HIDE DEF new
<1>5. /\ \A i \in DOMAIN todo : todo[i] = Mark <=> i = n
      /\ \A i \in DOMAIN todo : todo[i][1] = "delete" =>
             payloads[worker[w].id].action = "deleted" /\ payloads[worker[w].id].kind = todo[i][2]
  BY <1>1 DEF TodoOK
<1> HIDE DEF todo, n
<1>6. \A i \in 1 .. n - 1 : i + 1 \in 1 .. n /\ (i + 1 = n <=> i = n - 1)
  BY <1>1
<1>7. \A i \in 1 .. n : i # 1 => i - 1 \in 1 .. n - 1 /\ (i - 1) + 1 = i
  BY <1>1
<1>8. n # 1 /\ n - 1 \in 1 .. n - 1
  BY <1>1, <1>5
<1>9. Tail(todo) # <<>>
  <2>1. n - 1 \in DOMAIN Tail(todo)
    BY <1>1, <1>8
  <2> QED
    BY <2>1
<1>10. \A i \in DOMAIN Tail(todo) : Tail(todo)[i] = Mark <=> i = Len(Tail(todo))
  <2> SUFFICES ASSUME NEW i \in 1 .. n - 1 PROVE Tail(todo)[i] = Mark <=> i = n - 1
    BY <1>1
  <2>1. Tail(todo)[i] = todo[i + 1]
    BY <1>1
  <2>2. i + 1 \in DOMAIN todo /\ (i + 1 = n <=> i = n - 1)
    BY <1>1, <1>6
  <2>3. todo[i + 1] = Mark <=> i + 1 = n
    BY <2>2, <1>5
  <2> QED
    BY <2>1, <2>2, <2>3
<1>11. \A i \in DOMAIN Tail(todo) : Tail(todo)[i][1] = "delete" =>
          payloads[worker[w].id].action = "deleted" /\ payloads[worker[w].id].kind = Tail(todo)[i][2]
  <2> SUFFICES ASSUME NEW i \in 1 .. n - 1, Tail(todo)[i][1] = "delete"
               PROVE  payloads[worker[w].id].action = "deleted" /\ payloads[worker[w].id].kind = Tail(todo)[i][2]
    BY <1>1
  <2>1. Tail(todo)[i] = todo[i + 1] /\ i + 1 \in DOMAIN todo
    BY <1>1, <1>6
  <2> QED
    BY <2>1, <1>5
<1>12. ASSUME projecting, ~worker[w].fallback, NEW j \in DOMAIN FollowUps(payloads[worker[w].id]), NEW f,
              f = FollowUps(payloads[worker[w].id])[j]
       PROVE  \/ <<worker[w].id, f>> \in effects'
              \/ \E i \in DOMAIN Tail(todo) : Tail(todo)[i] = Effect(f)
  <2>1. CASE <<worker[w].id, f>> \in effects
    BY <2>1
  <2>2. CASE <<worker[w].id, f>> \notin effects
    <3>1. PICK i \in DOMAIN todo : todo[i] = Effect(f)
      BY <2>2, <1>1, <1>12 DEF TodoOK, todo
    <3>2. CASE i = 1
      <4>1. Statement(w)[1] = "effect" /\ Statement(w)[2] = f
        BY <3>1, <3>2, <1>1 DEF Effect
      <4> QED
        BY <4>1
    <3>3. CASE i # 1
      <4>1. i - 1 \in DOMAIN Tail(todo) /\ Tail(todo)[i - 1] = todo[i]
        BY <3>1, <3>3, <1>1, <1>7
      <4> QED
        BY <3>1, <4>1
    <3> QED
      BY <3>2, <3>3
  <2> QED
    BY <2>1, <2>2
<1>13. TodoOK(w)'
  <2>1. projecting /\ ~worker[w].fallback =>
           \A j \in DOMAIN FollowUps(payloads[worker[w].id]) :
               \/ <<worker[w].id, FollowUps(payloads[worker[w].id])[j]>> \in effects'
               \/ \E i \in DOMAIN Tail(todo) :
                      Tail(todo)[i] = Effect(FollowUps(payloads[worker[w].id])[j])
    BY <1>12
  <2>2. worker'[w].id = worker[w].id /\ worker'[w].fallback = worker[w].fallback
        /\ worker'[w].todo = Tail(todo) /\ payloads' = payloads /\ projecting' = projecting
    BY <1>3, <1>4
  <2> QED
    BY <2>1, <2>2, <1>9, <1>10, <1>11 DEF TodoOK
<1>14. PayloadsKept
  BY DEF PayloadsKept
<1>15. new.id \in Ids /\ job'[new.id].state = "running"
  BY <1>0, <1>3 DEF WorkersOK
<1>16. \A v \in Workers : v # w /\ worker[v] # Idle =>
             job'[worker[v].id].state = "running" /\ new.id # worker[v].id
  BY <1>0, <1>3 DEF WorkersOK
<1> QED
  BY <1>0, <1>2, <1>3, <1>13, <1>14, <1>15, <1>16, OneWorker

(* What all steps of a job but the last have in common.                    *)
LEMMA WorkKeeps ==
  ASSUME IInv, WorkersOK', worker' \in [Workers -> WorkerRecords], rows' \in [Rows -> Versions],
         effects \subseteq effects',
         \A r \in Gated : ~DeletionAccepted(r)' => rows'[r].at >= rows[r].at,
         UNCHANGED <<ghVars, delivery, cleaned, job, queue, sync>>
  PROVE  IInv'
<1>0. Types /\ JobsOK /\ QueueOK /\ WorkersOK
  BY DEF IInv
<1>1. UNCHANGED <<github, payloads, projecting>>
  BY DEF ghVars
<1>2. PayloadsKept /\ DOMAIN payloads' \subseteq Ids
  BY <1>0, <1>1, PayloadFacts DEF PayloadsKept
<1>3. Types'
  BY <1>0, <1>1 DEF Types
<1>4. JobsOK' /\ QueueOK' /\ JobForEachDelivery'
  BY <1>0, <1>2, JobsKept, QueueKept, PendingKept DEF IInv
<1>5. FollowUpsRecorded'
  BY <1>0, <1>1, <1>2, FollowUpsKept DEF IInv
<1>6. \A e \in Ids : Accepted(e) <=> Accepted(e)'
  BY DEF Accepted
<1>7. NeverBehind'
  BY <1>0, <1>2, <1>6, NeverBehindKept DEF IInv
<1> QED
  BY <1>3, <1>4, <1>5, <1>7 DEF IInv

LEMMA ProjectKeeps ==
  ASSUME IInv, NEW w \in Workers, Project(w)
  PROVE  IInv'
<1>0. Types /\ JobsOK /\ WorkersOK
  BY DEF IInv
<1> DEFINE s == Statement(w)
<1>1. /\ worker[w] # Idle /\ s[1] \in {"upsert", "delete", "repository"}
      /\ rows' = Applied(rows, s) /\ Advance(w)
      /\ UNCHANGED <<ghVars, delivery, cleaned, job, queue, effects, sync>>
  BY DEF Project, syncVars
<1>2. s # Mark /\ s[1] # "effect"
  BY <1>1 DEF Mark
<1>3. WorkersOK' /\ worker' \in [Workers -> WorkerRecords]
  BY <1>1, <1>2, Advanced DEF ghVars
<1>4. s \in StatementSet /\ s = worker[w].todo[1] /\ 1 \in DOMAIN worker[w].todo /\ TodoOK(w)
  BY <1>0, <1>1, StatementFacts
<1> HIDE DEF s
<1>5. CASE s[1] = "repository"
  <2>1. rows' = rows
    BY <1>1, <1>5 DEF Applied
  <2>2. rows' \in [Rows -> Versions] /\ \A r \in Gated : rows'[r].at >= rows[r].at
    BY <2>1, <1>0, KindFacts, VersionFacts DEF Types
  <2> QED
    BY <1>1, <1>3, <2>2, WorkKeeps
<1>6. CASE s[1] # "repository"
  <2>1. s \in ObjectSet
    BY <1>1, <1>4, <1>6 DEF StatementSet, EffectSet, Mark, Repository
  <2>2. /\ rows' \in [Rows -> Versions]
        /\ \A r \in Gated : ~DeletesRow(s, r) => rows'[r].at >= rows[r].at
    BY <2>1, <1>0, <1>1, AppliedFacts DEF Types
  <2>3. \A r : DeletesRow(s, r) => DeletionAccepted(r)'
    <3> SUFFICES ASSUME NEW r, DeletesRow(s, r) PROVE DeletionAccepted(r)'
      OBVIOUS
    <3>1. payloads[worker[w].id].action = "deleted" /\ payloads[worker[w].id].kind = r
      BY <1>4 DEF TodoOK, DeletesRow
    <3>2. worker[w].id \in DOMAIN payloads /\ Accepted(worker[w].id)
      BY <1>0, <1>1, WorkersKnow
    <3> QED
      BY <3>1, <3>2, <1>1 DEF DeletionAccepted, Accepted, ghVars
  <2> QED
    BY <2>2, <2>3, <1>1, <1>3, WorkKeeps
<1> QED
  BY <1>5, <1>6

(* A step that leaves rows and records at most a follow-up.                *)
LEMMA FollowUpKeeps ==
  ASSUME IInv, NEW w \in Workers, FollowUp(w)
  PROVE  IInv'
<1>0. Types
  BY DEF IInv
<1>1. /\ worker[w] # Idle /\ Statement(w)[1] = "effect" /\ Advance(w)
      /\ effects' = effects \cup {<<worker[w].id, Statement(w)[2]>>}
      /\ UNCHANGED <<ghVars, delivery, cleaned, job, queue, rows, sync>>
  BY DEF FollowUp, syncVars
<1>2. Statement(w) # Mark
  BY <1>1 DEF Mark
<1>3. effects \subseteq effects' /\ <<worker[w].id, Statement(w)[2]>> \in effects'
  BY <1>1
<1>4. WorkersOK' /\ worker' \in [Workers -> WorkerRecords]
  BY <1>1, <1>2, <1>3, Advanced DEF ghVars
<1>5. rows' \in [Rows -> Versions] /\ \A r \in Gated : rows'[r].at >= rows[r].at
  BY <1>0, <1>1, KindFacts, VersionFacts DEF Types
<1> QED
  BY <1>1, <1>3, <1>4, <1>5, WorkKeeps

LEMMA PushFallsBackKeeps ==
  ASSUME IInv, NEW w \in Workers, PushFallsBack(w)
  PROVE  IInv'
<1>0. Types /\ JobsOK /\ WorkersOK
  BY DEF IInv
<1> DEFINE rest == << Effect("note"), Mark >>
           new == [worker[w] EXCEPT !.todo = rest, !.fallback = TRUE]
<1>1. /\ worker[w] # Idle /\ worker' = [worker EXCEPT ![w] = new]
      /\ UNCHANGED <<ghVars, delivery, cleaned, job, queue, rows, effects, sync>>
  BY DEF PushFallsBack, syncVars
<1>2. /\ rest \in Seq(StatementSet) /\ Len(rest) = 2 /\ DOMAIN rest = {1, 2}
      /\ rest[1] = Effect("note") /\ rest[2] = Mark
  <2>1. Effect("note") \in StatementSet /\ Mark \in StatementSet
    BY DEF StatementSet, EffectSet, Effect, FollowUpNames
  <2> QED
    BY <2>1
<1> HIDE DEF rest
<1>3. /\ new \in WorkerRecords /\ new.id = worker[w].id /\ new.fallback = TRUE /\ new.todo = rest
  BY <1>0, <1>2, RecordFacts DEF WorkerRecords
<1>4. worker'[w] = new
  BY <1>0, <1>1 DEF Types
<1> HIDE DEF new
<1>5. TodoOK(w)'
  <2>1. /\ Effect("note") # Mark /\ Effect("note")[1] # "delete" /\ Mark[1] # "delete"
    BY DEF Effect, Mark
  <2>2. rest # <<>>
    BY DEF rest
  <2> QED
    BY <2>1, <2>2, <1>2, <1>3, <1>4 DEF TodoOK
<1>6. new.id \in Ids /\ job'[new.id].state = "running"
  BY <1>0, <1>1, <1>3 DEF WorkersOK
<1>7. \A v \in Workers : v # w /\ worker[v] # Idle =>
             job'[worker[v].id].state = "running" /\ new.id # worker[v].id
  BY <1>0, <1>1, <1>3 DEF WorkersOK
<1>8. PayloadsKept /\ projecting' = projecting /\ effects \subseteq effects'
  BY <1>1 DEF PayloadsKept, ghVars
<1>9. WorkersOK' /\ worker' \in [Workers -> WorkerRecords]
  BY <1>0, <1>1, <1>3, <1>5, <1>6, <1>7, <1>8, OneWorker
<1>10. rows' \in [Rows -> Versions] /\ \A r \in Gated : rows'[r].at >= rows[r].at
  BY <1>0, <1>1, KindFacts, VersionFacts DEF Types
<1> QED
  BY <1>1, <1>8, <1>9, <1>10, WorkKeeps

(* A job that ends, in whatever state, frees its worker.                   *)
LEMMA Ended ==
  ASSUME IInv, NEW w \in Workers, worker[w] # Idle, NEW d, d = worker[w].id,
         NEW st, st \in {"completed", AfterFailure(d)},
         job' = [job EXCEPT ![d].state = st], worker' = [worker EXCEPT ![w] = Idle],
         effects \subseteq effects', UNCHANGED <<payloads, projecting, queue>>,
         \A e \in Ids : Accepted(e)' <=> Accepted(e)
  PROVE  /\ d \in Ids /\ st \in {"completed", "retryable", "discarded"}
         /\ job' \in [Ids -> JobRecords] /\ job'[d].state = st
         /\ \A e \in Ids : e # d => job'[e] = job[e]
         /\ worker' \in [Workers -> WorkerRecords]
         /\ WorkersOK' /\ QueueOK' /\ JobsOK'
<1>0. Types /\ JobsOK /\ QueueOK /\ WorkersOK
  BY DEF IInv
<1>1. d \in Ids /\ job[d].state = "running" /\ job[d] \in JobRecords
      /\ job[d].attempts \in 0 .. MaxAttempts
  BY <1>0, RecordFacts DEF WorkersOK
<1>2. /\ st \in {"completed", "retryable", "discarded"}
      /\ st = "retryable" => job[d].attempts < MaxAttempts
  BY DEF AfterFailure
<1>3. /\ job' \in [Ids -> JobRecords] /\ job'[d].state = st /\ job'[d].attempts = job[d].attempts
      /\ \A e \in Ids : e # d => job'[e] = job[e]
  <2>1. [job[d] EXCEPT !.state = st] \in JobRecords
    BY <1>1, <1>2 DEF JobRecords, JobStates
  <2>2. job' = [job EXCEPT ![d] = [job[d] EXCEPT !.state = st]]
    BY <1>0, <1>1 DEF Types
  <2>3. [job[d] EXCEPT !.state = st].state = st /\ [job[d] EXCEPT !.state = st].attempts = job[d].attempts
    BY <1>1 DEF JobRecords
  <2> QED
    BY <2>1, <2>2, <2>3, <1>0, <1>1 DEF Types
<1>4. Idle \in WorkerRecords
  <2>1. <<>> \in Seq(StatementSet)
    BY EmptySeq
  <2> QED
    BY <2>1, ConstantsAssumption DEF Idle, WorkerRecords
<1>5. PayloadsKept
  BY DEF PayloadsKept
<1>6. Idle.id \notin Ids
  BY DEF Idle, Ids
<1>7. \A v \in Workers : v # w /\ worker[v] # Idle =>
             job'[worker[v].id].state = "running" /\ Idle.id # worker[v].id
  BY <1>0, <1>3, <1>6 DEF WorkersOK
<1>8. WorkersOK' /\ worker' \in [Workers -> WorkerRecords]
  BY <1>0, <1>4, <1>5, <1>7, OneWorker
<1>9. QueueOK'
  <2>1. \A i \in DOMAIN queue : queue[i] \in Ids /\ queue[i] # d
    BY <1>0, <1>1, RecordFacts DEF QueueOK
  <2> QED
    BY <2>1, <1>0, <1>3 DEF QueueOK
<1>10. JobsOK'
  <2> SUFFICES ASSUME NEW e \in Ids
               PROVE  /\ Accepted(e)' => e \in DOMAIN payloads
                      /\ job'[e].state # "none" => Accepted(e)'
                      /\ job'[e].state \in {"available", "retryable"} => job'[e].attempts < MaxAttempts
    BY DEF JobsOK
  <2>1. CASE e = d
    BY <2>1, <1>0, <1>1, <1>2, <1>3 DEF JobsOK
  <2>2. CASE e # d
    BY <2>2, <1>0, <1>3 DEF JobsOK
  <2> QED
    BY <2>1, <2>2
<1> QED
  BY <1>1, <1>2, <1>3, <1>8, <1>9, <1>10

LEMMA FailJobKeeps ==
  ASSUME IInv, NEW w \in Workers, FailJob(w)
  PROVE  IInv'
<1>0. Types /\ JobsOK
  BY DEF IInv
<1> DEFINE d == worker[w].id
<1>1. /\ worker[w] # Idle /\ job' = [job EXCEPT ![d].state = AfterFailure(d)]
      /\ worker' = [worker EXCEPT ![w] = Idle]
      /\ UNCHANGED <<github, payloads, projecting, delivery, cleaned, queue, rows, effects, sync>>
  BY DEF FailJob, ghVars, syncVars
<1>2. \A e \in Ids : Accepted(e)' <=> Accepted(e)
  BY <1>1 DEF Accepted
<1>3. /\ d \in Ids /\ job' \in [Ids -> JobRecords] /\ job'[d].state = AfterFailure(d)
      /\ \A e \in Ids : e # d => job'[e] = job[e]
      /\ worker' \in [Workers -> WorkerRecords]
      /\ WorkersOK' /\ QueueOK' /\ JobsOK'
  <2>1. PICK e : e = worker[w].id
    OBVIOUS
  <2>2. PICK st : st = AfterFailure(e)
    OBVIOUS
  <2> QED
    BY <2>1, <2>2, <1>1, <1>2, Ended
<1>4. Types'
  BY <1>0, <1>1, <1>3 DEF Types
<1>5. JobForEachDelivery'
  <2> SUFFICES ASSUME NEW e \in Ids, e \notin cleaned, delivery[e] = "stored"
               PROVE  Pending(e)' \/ job'[e].state = "discarded"
    BY <1>1 DEF JobForEachDelivery
  <2>1. CASE e = d
    BY <2>1, <1>3 DEF AfterFailure, Pending
  <2>2. CASE e # d
    <3>1. Pending(e) \/ job[e].state = "discarded"
      BY DEF JobForEachDelivery, IInv
    <3> QED
      BY <2>2, <3>1, <1>1, <1>3 DEF Pending
  <2> QED
    BY <2>1, <2>2
<1>6. PayloadsKept /\ DOMAIN payloads' \subseteq Ids
  BY <1>0, <1>1, PayloadFacts DEF PayloadsKept
<1>7. FollowUpsRecorded' /\ NeverBehind'
  BY <1>0, <1>1, <1>6, FollowUpsKept, RowsStay DEF IInv
<1> QED
  BY <1>3, <1>4, <1>5, <1>7 DEF IInv

(* The delivery is marked when nothing else is left to do, so all its      *)
(* follow-ups are recorded.                                                *)
LEMMA MarkProcessedKeeps ==
  ASSUME IInv, NEW w \in Workers, MarkProcessed(w)
  PROVE  IInv'
<1>0. Types /\ JobsOK /\ WorkersOK
  BY DEF IInv
<1> DEFINE d == worker[w].id
<1>1. /\ worker[w] # Idle /\ Statement(w) = Mark
      /\ delivery' = [delivery EXCEPT ![d] = IF delivery[d] = "stored" THEN "processed" ELSE delivery[d]]
      /\ effects' = IF worker[w].fallback THEN effects \cup {<<d, "degraded">>} ELSE effects
      /\ worker' = [worker EXCEPT ![w] = Idle]
      /\ UNCHANGED <<github, payloads, projecting, cleaned, queue, rows, sync>>
  BY DEF MarkProcessed, ghVars, syncVars
<1>2. PICK st \in {"completed", AfterFailure(d)} : job' = [job EXCEPT ![d].state = st]
  BY DEF MarkProcessed
<1>3. d \in Ids /\ d \in DOMAIN payloads
  BY <1>0, <1>1, WorkersKnow
<1>4. /\ delivery' \in [Ids -> {"none", "stored", "processed"}]
      /\ \A e \in Ids : e # d => delivery'[e] = delivery[e]
      /\ delivery'[d] # "stored" /\ (delivery'[d] = "none" <=> delivery[d] = "none")
  BY <1>0, <1>1, <1>3 DEF Types
<1>5. effects \subseteq effects' /\ (worker[w].fallback => <<d, "degraded">> \in effects')
  BY <1>1
<1>6. \A e \in Ids : Accepted(e)' <=> Accepted(e)
  BY <1>1, <1>4 DEF Accepted
<1>7. /\ job' \in [Ids -> JobRecords]
      /\ \A e \in Ids : e # d => job'[e] = job[e]
      /\ worker' \in [Workers -> WorkerRecords]
      /\ WorkersOK' /\ QueueOK' /\ JobsOK'
  <2>1. PICK e : e = worker[w].id
    OBVIOUS
  <2> QED
    BY <2>1, <1>1, <1>2, <1>5, <1>6, Ended
<1>8. Types'
  BY <1>0, <1>1, <1>4, <1>7 DEF Types
<1>9. JobForEachDelivery'
  <2> SUFFICES ASSUME NEW e \in Ids, e \notin cleaned, delivery'[e] = "stored"
               PROVE  Pending(e)' \/ job'[e].state = "discarded"
    BY <1>1 DEF JobForEachDelivery
  <2>1. e # d /\ delivery[e] = "stored"
    BY <1>4
  <2>2. Pending(e) \/ job[e].state = "discarded"
    BY <2>1 DEF JobForEachDelivery, IInv
  <2> QED
    BY <2>1, <2>2, <1>1, <1>7 DEF Pending
<1>10. ~worker[w].fallback /\ projecting =>
          \A j \in DOMAIN FollowUps(payloads[d]) : <<d, FollowUps(payloads[d])[j]>> \in effects
  <2> SUFFICES ASSUME ~worker[w].fallback, projecting, NEW j \in DOMAIN FollowUps(payloads[d]),
                      <<d, FollowUps(payloads[d])[j]>> \notin effects
               PROVE  FALSE
    OBVIOUS
  <2>1. PICK i \in DOMAIN worker[w].todo : worker[w].todo[i] = Effect(FollowUps(payloads[d])[j])
    BY <1>0, <1>1 DEF WorkersOK, TodoOK
  <2>2. /\ worker[w].todo[1] = Mark /\ 1 \in DOMAIN worker[w].todo
        /\ DOMAIN worker[w].todo = 1 .. Len(worker[w].todo)
        /\ \A k \in DOMAIN worker[w].todo : worker[w].todo[k] = Mark <=> k = Len(worker[w].todo)
    BY <1>0, <1>1, StatementFacts DEF TodoOK
  <2>3. DOMAIN worker[w].todo = 1 .. 1
    BY <2>2
  <2>4. i = 1
    BY <2>3
  <2>5. \A f : Effect(f) # Mark
    BY DEF Effect, Mark
  <2> QED
    BY <2>1, <2>2, <2>4, <2>5
<1>11. FollowUpsRecorded'
  <2> SUFFICES ASSUME NEW e \in DOMAIN payloads, projecting, delivery'[e] = "processed",
                      <<e, "degraded">> \notin effects'
               PROVE  \A j \in DOMAIN FollowUps(payloads[e]) : <<e, FollowUps(payloads[e])[j]>> \in effects'
    BY <1>1 DEF FollowUpsRecorded
  <2>1. CASE e = d
    BY <2>1, <1>5, <1>10
  <2>2. CASE e # d
    <3>1. e \in Ids
      BY <1>0, PayloadFacts
    <3>2. delivery[e] = "processed" /\ <<e, "degraded">> \notin effects
      BY <2>2, <3>1, <1>4, <1>5
    <3>3. \A j \in DOMAIN FollowUps(payloads[e]) : <<e, FollowUps(payloads[e])[j]>> \in effects
      BY <3>2 DEF FollowUpsRecorded, IInv
    <3> QED
      BY <3>3, <1>5
  <2> QED
    BY <2>1, <2>2
<1>12. NeverBehind'
  <2>1. PayloadsKept /\ DOMAIN payloads' \subseteq Ids
    BY <1>0, <1>1, PayloadFacts DEF PayloadsKept
  <2>2. rows' \in [Rows -> Versions] /\ \A r \in Gated : rows'[r].at >= rows[r].at
    BY <1>0, <1>1, KindFacts, VersionFacts DEF Types
  <2> QED
    BY <2>1, <2>2, <1>0, <1>6, NeverBehindKept DEF IInv
<1> QED
  BY <1>7, <1>8, <1>9, <1>11, <1>12 DEF IInv

LEMMA JobKeeps ==
  ASSUME IInv, Job
  PROVE  IInv'
BY StartJobKeeps, ProjectKeeps, FollowUpKeeps, PushFallsBackKeeps, SkipJobKeeps,
   MarkProcessedKeeps, FailJobKeeps DEF Job

-----------------------------------------------------------------------------
(* River's timers, the cleanup, the server and the syncer.                 *)

LEMMA RetryJobKeeps ==
  ASSUME IInv, NEW d \in Ids, RetryJob(d)
  PROVE  IInv'
<1>0. Types /\ JobsOK /\ QueueOK /\ WorkersOK
  BY DEF IInv
<1>1. /\ job[d].state = "retryable" /\ job' = [job EXCEPT ![d].state = "available"]
      /\ queue' = Enqueue(d)
      /\ UNCHANGED <<github, payloads, projecting, delivery, cleaned, rows, effects, worker, sync>>
  BY DEF RetryJob, ghVars, syncVars
<1>2. /\ job' \in [Ids -> JobRecords] /\ job'[d].state = "available"
      /\ job'[d].attempts = job[d].attempts
      /\ \A e \in Ids : e # d => job'[e] = job[e]
  <2> DEFINE new == [job[d] EXCEPT !.state = "available"]
  <2>1. new \in JobRecords /\ new.state = "available" /\ new.attempts = job[d].attempts
    BY <1>0, RecordFacts DEF JobRecords, JobStates
  <2>2. job' = [job EXCEPT ![d] = new]
    BY <1>0, <1>1 DEF Types
  <2> HIDE DEF new
  <2> QED
    BY <2>1, <2>2, <1>0 DEF Types
<1>3. /\ queue' \in Seq(Ids) /\ QueueOK'
      /\ \E i \in DOMAIN queue' : queue'[i] = d
      /\ \A i \in DOMAIN queue : i \in DOMAIN queue' /\ queue'[i] = queue[i]
  <2>1. job[d].state # "available"
    BY <1>1
  <2> QED
    BY <2>1, <1>0, <1>1, <1>2, Enqueued
<1>4. PayloadsKept /\ DOMAIN payloads' \subseteq Ids
  BY <1>0, <1>1, PayloadFacts DEF PayloadsKept
<1>5. WorkersOK'
  <2>1. \A w \in Workers : worker[w] # Idle => job'[worker[w].id].state = "running"
    BY <1>0, <1>1, <1>2 DEF WorkersOK
  <2> QED
    BY <2>1, <1>0, <1>1, <1>4, WorkersStay
<1>6. Types'
  BY <1>0, <1>1, <1>2, <1>3 DEF Types
<1>7. JobsOK'
  <2> SUFFICES ASSUME NEW e \in Ids
               PROVE  /\ Accepted(e) => e \in DOMAIN payloads
                      /\ job'[e].state # "none" => Accepted(e)
                      /\ job'[e].state \in {"available", "retryable"} => job'[e].attempts < MaxAttempts
    BY <1>1 DEF JobsOK, Accepted
  <2>1. CASE e = d
    BY <2>1, <1>0, <1>1, <1>2 DEF JobsOK
  <2>2. CASE e # d
    BY <2>2, <1>0, <1>2 DEF JobsOK
  <2> QED
    BY <2>1, <2>2
<1>8. JobForEachDelivery'
  <2> SUFFICES ASSUME NEW e \in Ids, e \notin cleaned, delivery[e] = "stored"
               PROVE  Pending(e)' \/ job'[e].state = "discarded"
    BY <1>1 DEF JobForEachDelivery
  <2>1. CASE e = d
    BY <2>1, <1>2, <1>3 DEF Pending
  <2>2. CASE e # d
    <3>1. Pending(e) \/ job[e].state = "discarded"
      BY DEF JobForEachDelivery, IInv
    <3> QED
      BY <2>2, <3>1, <1>2, <1>3 DEF Pending
  <2> QED
    BY <2>1, <2>2
<1>9. FollowUpsRecorded' /\ NeverBehind'
  BY <1>0, <1>1, <1>4, FollowUpsKept, RowsStay DEF IInv
<1> QED
  BY <1>3, <1>5, <1>6, <1>7, <1>8, <1>9 DEF IInv

LEMMA CleanUpKeeps ==
  ASSUME IInv, NEW d \in Ids, CleanUp(d)
  PROVE  IInv'
<1>0. Types /\ JobsOK /\ QueueOK /\ WorkersOK
  BY DEF IInv
<1>1. /\ delivery[d] = "processed" /\ delivery' = [delivery EXCEPT ![d] = "none"]
      /\ cleaned' = cleaned \cup {d}
      /\ UNCHANGED <<github, payloads, projecting, rows, effects, job, queue, worker, sync>>
  BY DEF CleanUp, ghVars, syncVars, jobVars
<1>2. /\ delivery' \in [Ids -> {"none", "stored", "processed"}] /\ delivery'[d] = "none"
      /\ \A e \in Ids : e # d => delivery'[e] = delivery[e]
  BY <1>0, <1>1 DEF Types
<1>3. \A e \in Ids : Accepted(e) <=> Accepted(e)'
  BY <1>1, <1>2 DEF Accepted
<1>4. PayloadsKept /\ DOMAIN payloads' \subseteq Ids
  BY <1>0, <1>1, PayloadFacts DEF PayloadsKept
<1>5. Types'
  BY <1>0, <1>1, <1>2 DEF Types
<1>6. JobsOK' /\ QueueOK' /\ WorkersOK'
  <2>1. JobsOK'
    BY <1>0, <1>1, <1>3 DEF JobsOK
  <2> QED
    BY <2>1, <1>0, <1>1, <1>4, QueueKept, WorkersKept
<1>7. JobForEachDelivery'
  BY <1>1, <1>2 DEF JobForEachDelivery, Pending, IInv
<1>8. FollowUpsRecorded'
  <2>1. \A e \in Ids : delivery'[e] = "processed" => delivery[e] = "processed"
    BY <1>2
  <2> QED
    BY <2>1, <1>0, <1>1, <1>4, FollowUpsKept DEF IInv
<1>9. NeverBehind'
  <2>1. rows' \in [Rows -> Versions] /\ \A r \in Gated : rows'[r].at >= rows[r].at
    BY <1>0, <1>1, KindFacts, VersionFacts DEF Types
  <2> QED
    BY <2>1, <1>0, <1>3, <1>4, NeverBehindKept DEF IInv
<1> QED
  BY <1>5, <1>6, <1>7, <1>8, <1>9 DEF IInv

LEMMA RestartKeeps ==
  ASSUME IInv, Restart
  PROVE  IInv'
<1>0. Types /\ JobsOK /\ QueueOK /\ WorkersOK
  BY DEF IInv
<1>1. /\ worker' = [w \in Workers |-> Idle] /\ sync' = NoRead /\ job' = Rescued
      /\ UNCHANGED <<github, payloads, projecting, delivery, cleaned, queue, rows, effects>>
  BY DEF Restart, ghVars
<1>2. ASSUME NEW e \in Ids
      PROVE  /\ job[e].state # "running" => job'[e] = job[e]
             /\ job[e].state = "running" =>
                    /\ job'[e].state \in {"retryable", "discarded"}
                    /\ job'[e].state = "retryable" => job'[e].attempts < MaxAttempts
             /\ job'[e] \in JobRecords
  <2>1. job'[e] = IF job[e].state = "running" THEN [job[e] EXCEPT !.state = AfterFailure(e)] ELSE job[e]
    BY <1>1 DEF Rescued
  <2>2. job[e] \in JobRecords
    BY <1>0, RecordFacts
  <2>3. CASE job[e].state # "running"
    BY <2>1, <2>2, <2>3
  <2>4. CASE job[e].state = "running"
    <3>1. AfterFailure(e) \in {"retryable", "discarded"}
          /\ (AfterFailure(e) = "retryable" => job[e].attempts < MaxAttempts)
      BY DEF AfterFailure
    <3>2. job'[e] = [job[e] EXCEPT !.state = AfterFailure(e)]
      BY <2>1, <2>4
    <3>3. /\ job'[e] \in JobRecords /\ job'[e].state = AfterFailure(e)
          /\ job'[e].attempts = job[e].attempts
      BY <2>2, <3>1, <3>2 DEF JobRecords, JobStates
    <3> QED
      BY <2>4, <3>1, <3>3
  <2> QED
    BY <2>3, <2>4
<1>3. job' \in [Ids -> JobRecords]
  BY <1>1, <1>2 DEF Rescued
<1>4. PayloadsKept /\ DOMAIN payloads' \subseteq Ids
  BY <1>0, <1>1, PayloadFacts DEF PayloadsKept
<1>5. Types'
  <2>1. <<>> \in Seq(StatementSet)
    BY EmptySeq
  <2>2. Idle \in WorkerRecords
    BY <2>1, ConstantsAssumption DEF Idle, WorkerRecords
  <2> QED
    BY <2>2, <1>0, <1>1, <1>3 DEF Types
<1>6. WorkersOK'
  BY <1>1 DEF WorkersOK
<1>7. QueueOK'
  <2>1. \A i \in DOMAIN queue : queue[i] \in Ids /\ job'[queue[i]] = job[queue[i]]
    BY <1>0, <1>2, RecordFacts DEF QueueOK
  <2> QED
    BY <2>1, <1>0, <1>1 DEF QueueOK
<1>8. JobsOK'
  <2> SUFFICES ASSUME NEW e \in Ids
               PROVE  /\ Accepted(e) => e \in DOMAIN payloads
                      /\ job'[e].state # "none" => Accepted(e)
                      /\ job'[e].state \in {"available", "retryable"} => job'[e].attempts < MaxAttempts
    BY <1>1 DEF JobsOK, Accepted
  <2> QED
    BY <1>0, <1>2 DEF JobsOK
<1>9. JobForEachDelivery'
  <2> SUFFICES ASSUME NEW e \in Ids, e \notin cleaned, delivery[e] = "stored"
               PROVE  Pending(e)' \/ job'[e].state = "discarded"
    BY <1>1 DEF JobForEachDelivery
  <2>1. Pending(e) \/ job[e].state = "discarded"
    BY DEF JobForEachDelivery, IInv
  <2> QED
    BY <2>1, <1>1, <1>2 DEF Pending
<1>10. FollowUpsRecorded' /\ NeverBehind'
  BY <1>0, <1>1, <1>4, FollowUpsKept, RowsStay DEF IInv
<1> QED
  BY <1>5, <1>6, <1>7, <1>8, <1>9, <1>10 DEF IInv

(* The syncer touches nothing but rows, and what it has read.              *)
LEMMA SyncKeeps ==
  ASSUME IInv, rows' \in [Rows -> Versions], \A r \in Gated : rows'[r].at >= rows[r].at,
         sync' = NoRead \/ sync' \in [kind : Kinds, v : Versions],
         UNCHANGED <<ghVars, delivery, cleaned, effects, jobVars>>
  PROVE  IInv'
<1>0. Types /\ JobsOK /\ QueueOK /\ WorkersOK
  BY DEF IInv
<1>1. UNCHANGED <<github, payloads, projecting, delivery, cleaned, effects, job, queue, worker>>
  BY DEF ghVars, jobVars
<1>2. PayloadsKept /\ DOMAIN payloads' \subseteq Ids
  BY <1>0, <1>1, PayloadFacts DEF PayloadsKept
<1>3. Types'
  BY <1>0, <1>1 DEF Types
<1>4. JobsOK' /\ QueueOK' /\ JobForEachDelivery' /\ WorkersOK'
  BY <1>0, <1>1, <1>2, JobsKept, QueueKept, PendingKept, WorkersKept DEF IInv
<1>5. \A e \in Ids : Accepted(e) <=> Accepted(e)'
  BY <1>1 DEF Accepted
<1>6. FollowUpsRecorded' /\ NeverBehind'
  BY <1>0, <1>1, <1>2, <1>5, FollowUpsKept, NeverBehindKept DEF IInv
<1> QED
  BY <1>3, <1>4, <1>6 DEF IInv

LEMMA ReadGitHubKeeps ==
  ASSUME IInv, NEW k \in Kinds, ReadGitHub(k)
  PROVE  IInv'
<1>0. Types
  BY DEF IInv
<1>1. /\ sync' = [kind |-> k, v |-> github[k]]
      /\ UNCHANGED <<ghVars, delivery, cleaned, rows, effects, jobVars>>
  BY DEF ReadGitHub
<1>2. rows' \in [Rows -> Versions] /\ \A r \in Gated : rows'[r].at >= rows[r].at
  BY <1>0, <1>1, KindFacts, VersionFacts DEF Types
<1>3. sync' \in [kind : Kinds, v : Versions]
  BY <1>0, <1>1 DEF Types
<1> QED
  BY <1>1, <1>2, <1>3, SyncKeeps

LEMMA StoreReadKeeps ==
  ASSUME IInv, StoreRead
  PROVE  IInv'
<1>0. Types
  BY DEF IInv
<1>1. /\ sync # NoRead /\ sync' = NoRead
      /\ rows' = IF MissesParent(rows, sync.kind) THEN rows
                 ELSE AppliedAll(rows, ObjectUpserts(sync.kind, sync.v))
      /\ UNCHANGED <<ghVars, delivery, cleaned, effects, jobVars>>
  BY DEF StoreRead
<1>2. rows' \in [Rows -> Versions] /\ \A r \in Gated : rows'[r].at >= rows[r].at
  <2>1. CASE rows' = rows
    BY <2>1, <1>0, KindFacts, VersionFacts DEF Types
  <2>2. CASE rows' = AppliedAll(rows, ObjectUpserts(sync.kind, sync.v))
    <3> DEFINE stmts == ObjectUpserts(sync.kind, sync.v)
    <3>1. sync.kind \in Kinds /\ sync.v \in Versions
      BY <1>0, <1>1 DEF Types
    <3>2. stmts \in Seq(Upserts) /\ Len(stmts) \in 1 .. 2
      BY <3>1, UpsertsShape
    <3> HIDE DEF stmts
    <3>3. stmts \in Seq(ObjectSet) /\ Len(stmts) \in 1 .. 3
      BY <3>2, SeqMonotonic DEF ObjectSet
    <3>4. \A i \in DOMAIN stmts : \A r : ~DeletesRow(stmts[i], r)
      <4> SUFFICES ASSUME NEW i \in 1 .. Len(stmts) PROVE \A r : ~DeletesRow(stmts[i], r)
        BY <3>2, LenProperties
      <4>1. stmts[i] \in Upserts
        BY <3>2, ElementOfSeq
      <4> QED
        BY <4>1 DEF Upserts, DeletesRow
    <3>5. rows' = AppliedAll(rows, stmts)
      BY <2>2 DEF stmts
    <3> QED
      BY <1>0, <3>3, <3>4, <3>5, AppliedAllFacts DEF Types
  <2> QED
    BY <1>1, <2>1, <2>2
<1> QED
  BY <1>1, <1>2, SyncKeeps
-----------------------------------------------------------------------------
LEMMA NextIInv == IInv /\ [Next]_vars => IInv'
<1> SUFFICES ASSUME IInv, [Next]_vars PROVE IInv'
  OBVIOUS
<1>1. CASE GitHub
  BY <1>1, GitHubKeeps
<1>2. CASE Job
  BY <1>2, JobKeeps
<1>3. CASE River
  BY <1>3, RetryJobKeeps, CleanUpKeeps DEF River
<1>4. ASSUME NEW d \in Ids, HandleWebhook(d) PROVE IInv'
  BY <1>4, HandleWebhookKeeps
<1>5. CASE Restart
  BY <1>5, RestartKeeps
<1>6. CASE StoreRead
  BY <1>6, StoreReadKeeps
<1>7. ASSUME NEW k \in Kinds \cap Events, ReadGitHub(k) PROVE IInv'
  BY <1>7, ReadGitHubKeeps
<1>8. CASE UNCHANGED vars
  <2>1. UNCHANGED <<ghVars, delivery, cleaned, effects, jobVars, rows, sync>>
    BY <1>8 DEF vars, ghVars, jobVars
  <2>2. rows' \in [Rows -> Versions] /\ \A r \in Gated : rows'[r].at >= rows[r].at
    BY <2>1, KindFacts, VersionFacts DEF Types, IInv
  <2>3. sync' = NoRead \/ sync' \in [kind : Kinds, v : Versions]
    BY <2>1 DEF Types, IInv
  <2> QED
    BY <2>1, <2>2, <2>3, SyncKeeps
<1> QED
  BY <1>1, <1>2, <1>3, <1>4, <1>5, <1>6, <1>7, <1>8 DEF Next

(* The inductive invariant, for every instance.                            *)
THEOREM Invariant == Spec => []IInv
BY InitIInv, NextIInv, PTL DEF Spec

(* Tables, jobs and queue keep their types; a job is never attempted more  *)
(* often than MaxAttempts, whatever is retried, rescued or sent again.     *)
THEOREM TypeCorrect == Spec => []TypeOK
<1>1. IInv => TypeOK
  <2> SUFFICES ASSUME IInv PROVE TypeOK
    OBVIOUS
  <2>1. Types
    BY DEF IInv
  <2>2. \A w \in Workers : worker[w].id \in 0 .. MaxEvents
    BY <2>1, RecordFacts DEF WorkerRecords
  <2>3. sync.kind \in Kinds \cup {"none"}
    BY <2>1 DEF Types, NoRead
  <2> QED
    BY <2>1, <2>2, <2>3 DEF Types, TypeOK, JobRecords
<1> QED
  BY <1>1, Invariant, PTL

(* A stored delivery has a job that will process it or was given up, for   *)
(* any interleaving of acceptor, workers, retries, crashes and redelivery. *)
THEOREM DeliveriesHaveJobs == Spec => []JobForEachDelivery
<1>1. IInv => JobForEachDelivery
  BY DEF IInv
<1> QED
  BY <1>1, Invariant, PTL

(* Whatever fails or dies on the way, a delivery is not marked before its  *)
(* follow-ups are recorded.                                                *)
THEOREM FollowUpsAreRecorded == Spec => []FollowUpsRecorded
<1>1. IInv => FollowUpsRecorded
  BY DEF IInv
<1> QED
  BY <1>1, Invariant, PTL

(* The rows of issues and pull requests are at least as new as every       *)
(* delivery accepted, in whatever order workers and syncs write them.      *)
THEOREM RowsNeverBehind == Spec => []NeverBehind
<1>1. IInv => NeverBehind
  BY DEF IInv
<1> QED
  BY <1>1, Invariant, PTL
-----------------------------------------------------------------------------
(* What arrives in order settles.  Followed says how GitHub, its payloads  *)
(* and what is left to do agree; InOrder is what holds until a delivery    *)
(* comes late or a job fails: what is stored is done in its order, and a   *)
(* row that is not as GitHub is will be written again (Covered).           *)

(* Object r is changed by a payload, and to what; a statement writes the   *)
(* row of r, and v into it.                                                *)
Touches(p, r) ==
    /\ p.kind \in Kinds
    /\ r = p.kind \/ r = Parent[p.kind] \/ (p.action = "deleted" /\ Parent[r] = p.kind)
Gives(p, r) ==
    IF p.action = "deleted" /\ (r = p.kind \/ Parent[r] = p.kind) THEN Absent
    ELSE IF r = p.kind THEN p.v ELSE p.parent
Hits(s, r) ==
    \/ s[1] = "upsert" /\ s[2] = r
    \/ s[1] = "delete" /\ (s[2] = r \/ Parent[r] = s[2])
Puts(s, v) == IF s[1] = "delete" THEN v = Absent ELSE v = s[3] /\ v # Absent
Sound(p, s) == \A r \in Kinds : Hits(s, r) => Touches(p, r) /\ Puts(s, Gives(p, r))

(* GitHub is as the last payload that changes an object says, and nothing  *)
(* it said is of a later second.                                           *)
LastTold ==
    \A r \in Kinds, d \in DOMAIN payloads :
        Touches(payloads[d], r) =>
            \/ github[r] = Gives(payloads[d], r)
            \/ \E e \in DOMAIN payloads : e > d /\ Touches(payloads[e], r)
Seconds ==
    \A r \in Kinds :
        /\ github[r].at <= Second
        /\ \A d \in DOMAIN payloads : Touches(payloads[d], r) =>
               /\ Gives(payloads[d], r).at <= Second
               /\ github[r] # Absent => Gives(payloads[d], r).at <= github[r].at

(* A child's parent is there, and is told with it.                         *)
Real(p) == p.kind \in Kinds => p.v # Absent /\ p.parent # Absent
Families ==
    /\ \A k \in Kinds : github[k] # Absent => github[Parent[k]] # Absent
    /\ \A d \in DOMAIN payloads : Real(payloads[d])

(* A worker has nothing to write that its payload does not say.            *)
TodoSound ==
    \A w \in Workers : worker[w] # Idle =>
        \A i \in DOMAIN worker[w].todo : Sound(payloads[worker[w].id], worker[w].todo[i])

Followed == LastTold /\ Seconds /\ Families /\ TodoSound

RowsPast ==
    \A r \in Kinds :
        rows[r].at <= Second /\ (github[r] # Absent => rows[r].at <= github[r].at)

(* Deliveries are accepted in order, queued in order, worked on in order,  *)
(* and nothing is left behind.                                             *)
Stored(d) == delivery[d] = "stored"
Queued(d) == \E i \in DOMAIN queue : queue[i] = d
Held(d) == \E w \in Workers : worker[w] # Idle /\ worker[w].id = d
Line ==
    /\ \A d, e \in Ids : d < e /\ Accepted(e) => Accepted(d) /\ (Stored(d) => Stored(e))
    /\ \A i, j \in DOMAIN queue :
           i < j /\ Stored(queue[i]) /\ Stored(queue[j]) => queue[i] < queue[j]
    /\ \A w \in Workers : worker[w] # Idle =>
           /\ Stored(worker[w].id)
           /\ \A d \in Ids : Queued(d) /\ Stored(d) => worker[w].id < d
    /\ \A d \in Ids : Stored(d) => Queued(d) \/ Held(d)

(* A row is as GitHub is, or something that will write it is still to be   *)
(* done.                                                                   *)
Same(r) == IF r \in Gated THEN rows[r].at = github[r].at ELSE rows[r] = github[r]
ToWrite(d, r) ==
    \E w \in Workers : /\ worker[w] # Idle /\ worker[w].id = d
                       /\ \E i \in DOMAIN worker[w].todo : Hits(worker[w].todo[i], r)
Undone(d, r) == ~Accepted(d) \/ (Stored(d) /\ Queued(d)) \/ ToWrite(d, r)
Covered ==
    \A r \in Kinds : Same(r) \/ \E d \in DOMAIN payloads : Touches(payloads[d], r) /\ Undone(d, r)

InOrder == orderly => /\ sync = NoRead /\ RowsPast /\ Line
                      /\ projecting => Covered
OInv == Followed /\ InOrder
-----------------------------------------------------------------------------
(* What the parts of a list of statements write, the list writes.          *)
LEMMA ConcatIndices ==
  ASSUME NEW S, NEW a \in Seq(S), NEW b \in Seq(S)
  PROVE  /\ \A i \in DOMAIN (a \o b) :
                \/ i \in DOMAIN a /\ (a \o b)[i] = a[i]
                \/ i - Len(a) \in DOMAIN b /\ (a \o b)[i] = b[i - Len(a)]
         /\ \A j \in DOMAIN a : j \in DOMAIN (a \o b) /\ (a \o b)[j] = a[j]
         /\ \A j \in DOMAIN b : Len(a) + j \in DOMAIN (a \o b) /\ (a \o b)[Len(a) + j] = b[j]
<1>1. /\ a \o b \in Seq(S) /\ Len(a \o b) = Len(a) + Len(b)
      /\ \A k \in 1 .. Len(a) + Len(b) : (a \o b)[k] = IF k <= Len(a) THEN a[k] ELSE b[k - Len(a)]
  BY ConcatProperties
<1>2. /\ DOMAIN (a \o b) = 1 .. Len(a) + Len(b) /\ DOMAIN a = 1 .. Len(a) /\ DOMAIN b = 1 .. Len(b)
      /\ Len(a) \in Nat /\ Len(b) \in Nat
  BY <1>1, LenProperties
<1>3. ASSUME NEW i \in 1 .. Len(a) + Len(b)
      PROVE  \/ i \in 1 .. Len(a) /\ (a \o b)[i] = a[i]
             \/ i - Len(a) \in 1 .. Len(b) /\ (a \o b)[i] = b[i - Len(a)]
  BY <1>1, <1>2
<1>4. \A j \in 1 .. Len(a) : j \in 1 .. Len(a) + Len(b) /\ (a \o b)[j] = a[j]
  BY <1>1, <1>2
<1>5. ASSUME NEW j \in 1 .. Len(b)
      PROVE  Len(a) + j \in 1 .. Len(a) + Len(b) /\ (a \o b)[Len(a) + j] = b[j]
  <2>1. Len(a) + j \in 1 .. Len(a) + Len(b) /\ ~(Len(a) + j <= Len(a)) /\ Len(a) + j - Len(a) = j
    BY <1>2
  <2> QED
    BY <2>1, <1>1
<1> QED
  BY <1>2, <1>3, <1>4, <1>5

LEMMA ConcatSound ==
  ASSUME NEW S, NEW a, NEW b, a \in Seq(S), b \in Seq(S), NEW p,
         \A i \in DOMAIN a : Sound(p, a[i]), \A i \in DOMAIN b : Sound(p, b[i])
  PROVE  \A i \in DOMAIN (a \o b) : Sound(p, (a \o b)[i])
<1> SUFFICES ASSUME NEW i \in DOMAIN (a \o b) PROVE Sound(p, (a \o b)[i])
  OBVIOUS
<1>1. CASE i \in DOMAIN a /\ (a \o b)[i] = a[i]
  BY <1>1
<1>2. CASE i - Len(a) \in DOMAIN b /\ (a \o b)[i] = b[i - Len(a)]
  BY <1>2
<1> QED
  BY <1>1, <1>2, ConcatIndices

LEMMA ConcatHits ==
  ASSUME NEW S, NEW a, NEW b, a \in Seq(S), b \in Seq(S), NEW r,
         (\E i \in DOMAIN a : Hits(a[i], r)) \/ (\E i \in DOMAIN b : Hits(b[i], r))
  PROVE  \E i \in DOMAIN (a \o b) : Hits((a \o b)[i], r)
<1>1. ASSUME NEW j \in DOMAIN a, Hits(a[j], r)
      PROVE  \E i \in DOMAIN (a \o b) : Hits((a \o b)[i], r)
  <2>1. j \in DOMAIN (a \o b) /\ (a \o b)[j] = a[j]
    BY ConcatIndices
  <2> QED
    BY <1>1, <2>1
<1>2. ASSUME NEW j \in DOMAIN b, Hits(b[j], r)
      PROVE  \E i \in DOMAIN (a \o b) : Hits((a \o b)[i], r)
  <2>1. Len(a) + j \in DOMAIN (a \o b) /\ (a \o b)[Len(a) + j] = b[j]
    BY ConcatIndices
  <2> QED
    BY <1>2, <2>1
<1> QED
  BY <1>1, <1>2

LEMMA KindsMore ==
  /\ "pull_request_issue" \notin Kinds
  /\ \A k \in Kinds : Parent[k] \in Kinds /\ Parent[Parent[k]] = Parent[k]
BY KindFacts DEF Kinds

(* Every statement of an object's payload writes what the payload says,    *)
(* and something is written for every object it changes.                   *)
LEMMA UpsertsHit ==
  ASSUME NEW k \in Kinds, NEW v \in Versions, v # Absent
  PROVE  /\ \A i \in DOMAIN ObjectUpserts(k, v) : \A r \in Kinds :
                Hits(ObjectUpserts(k, v)[i], r) => r = k /\ Puts(ObjectUpserts(k, v)[i], v)
         /\ \E i \in DOMAIN ObjectUpserts(k, v) : Hits(ObjectUpserts(k, v)[i], k)
<1> DEFINE issue == <<"upsert", "pull_request_issue", v>>
           own == <<"upsert", k, v>>
<1>1. \A r \in Kinds : Hits(own, r) => r = k
  BY DEF Hits
<1>2. Hits(own, k) /\ Puts(own, v)
  BY DEF Hits, Puts
<1>3. \A r \in Kinds : ~Hits(issue, r)
  BY KindsMore DEF Hits
<1>4. CASE k = "pull_request"
  <2>1. ObjectUpserts(k, v) = <<issue, own>>
    BY <1>4 DEF ObjectUpserts
  <2> HIDE DEF issue, own
  <2>2. DOMAIN <<issue, own>> = {1, 2} /\ <<issue, own>>[1] = issue /\ <<issue, own>>[2] = own
    OBVIOUS
  <2> QED
    BY <2>1, <2>2, <1>1, <1>2, <1>3
<1>5. CASE k # "pull_request"
  <2>1. ObjectUpserts(k, v) = <<own>>
    BY <1>5 DEF ObjectUpserts
  <2> HIDE DEF issue, own
  <2>2. DOMAIN <<own>> = {1} /\ <<own>>[1] = own
    OBVIOUS
  <2> QED
    BY <2>1, <2>2, <1>1, <1>2
<1> QED
  BY <1>4, <1>5

LEMMA ObjectStatementsSay ==
  ASSUME NEW p \in Payloads, p.kind \in Kinds, Meaningful(p), Real(p)
  PROVE  /\ \A i \in DOMAIN ObjectStatements(p) : Sound(p, ObjectStatements(p)[i])
         /\ \A r \in Kinds : Touches(p, r) =>
                \E i \in DOMAIN ObjectStatements(p) : Hits(ObjectStatements(p)[i], r)
<1> DEFINE k == p.kind
           up == ParentUpserts(p)
           delete == <<"delete", p.kind, p.v>>
           own == IF p.action = "deleted" THEN <<delete>> ELSE ObjectUpserts(p.kind, p.v)
<1>1. /\ p.v \in Versions /\ p.parent \in Versions /\ k \in Kinds /\ Parent[k] \in Kinds
      /\ Parent[Parent[k]] = Parent[k] /\ p.v # Absent /\ p.parent # Absent
  BY KindsMore DEF Payloads, Real
<1>2. /\ up \in Seq(Upserts)
      /\ \A i \in DOMAIN up : Sound(p, up[i])
      /\ Parent[k] # k => \E i \in DOMAIN up : Hits(up[i], Parent[k])
  <2>1. CASE Parent[k] = k
    <3>1. up = <<>>
      BY <2>1 DEF ParentUpserts
    <3> QED
      BY <2>1, <3>1
  <2>2. CASE Parent[k] # k
    <3>1. up = ObjectUpserts(Parent[k], p.parent)
      BY <2>2 DEF ParentUpserts
    <3>2. /\ up \in Seq(Upserts)
          /\ \A i \in DOMAIN up : \A r \in Kinds :
                 Hits(up[i], r) => r = Parent[k] /\ Puts(up[i], p.parent)
          /\ \E i \in DOMAIN up : Hits(up[i], Parent[k])
      BY <1>1, <3>1, UpsertsShape, UpsertsHit
    <3>3. Touches(p, Parent[k]) /\ Gives(p, Parent[k]) = p.parent
      BY <1>1, <2>2 DEF Touches, Gives
    <3> QED
      BY <3>2, <3>3 DEF Sound
  <2> QED
    BY <2>1, <2>2
<1>3. /\ own \in Seq(ObjectSet)
      /\ \A i \in DOMAIN own : Sound(p, own[i])
      /\ \A r \in Kinds : r = k \/ (p.action = "deleted" /\ Parent[r] = k) =>
             \E i \in DOMAIN own : Hits(own[i], r)
  <2>1. CASE p.action = "deleted"
    <3>1. own = <<delete>> /\ DOMAIN own = {1} /\ own[1] = delete
      BY <2>1
    <3>2. delete \in ObjectSet
      BY <1>1, <2>1 DEF ObjectSet, Deletes, Meaningful
    <3>3. \A r \in Kinds : Hits(delete, r) <=> r = k \/ Parent[r] = k
      BY DEF Hits
    <3>4. \A r \in Kinds : Hits(delete, r) => Touches(p, r) /\ Puts(delete, Gives(p, r))
      BY <1>1, <2>1, <3>3 DEF Touches, Puts, Gives
    <3>5. own \in Seq(ObjectSet)
      <4> HIDE DEF delete
      <4>1. <<delete>> \in Seq(ObjectSet)
        BY <3>2
      <4> QED
        BY <4>1, <3>1
    <3> HIDE DEF delete, own
    <3> QED
      BY <2>1, <3>1, <3>3, <3>4, <3>5 DEF Sound
  <2>2. CASE p.action # "deleted"
    <3>1. own = ObjectUpserts(k, p.v)
      BY <2>2
    <3>2. own \in Seq(Upserts)
      BY <1>1, <3>1, UpsertsShape
    <3>3. own \in Seq(ObjectSet)
      BY <3>2, SeqMonotonic DEF ObjectSet
    <3>4. Touches(p, k) /\ Gives(p, k) = p.v
      BY <1>1, <2>2 DEF Touches, Gives
    <3>5. /\ \A i \in DOMAIN own : \A r \in Kinds : Hits(own[i], r) => r = k /\ Puts(own[i], p.v)
          /\ \E i \in DOMAIN own : Hits(own[i], k)
      <4> HIDE DEF own
      <4> QED
        BY <1>1, <3>1, UpsertsHit
    <3> HIDE DEF own
    <3> QED
      BY <2>2, <3>3, <3>4, <3>5 DEF Sound
  <2> QED
    BY <2>1, <2>2
<1>4. ObjectStatements(p) = up \o own
  BY DEF ObjectStatements
<1>5. \A r \in Kinds : Touches(p, r) =>
         \/ r = k \/ (p.action = "deleted" /\ Parent[r] = k)
         \/ Parent[k] # k /\ r = Parent[k]
  BY DEF Touches
<1> HIDE DEF up, own, k
<1>6. up \in Seq(ObjectSet)
  BY <1>2, SeqMonotonic DEF ObjectSet
<1>7. \A i \in DOMAIN (up \o own) : Sound(p, (up \o own)[i])
  BY <1>2, <1>3, <1>6, ConcatSound
<1>8. ASSUME NEW r \in Kinds, Touches(p, r)
      PROVE  \E i \in DOMAIN (up \o own) : Hits((up \o own)[i], r)
  <2>1. (\E i \in DOMAIN up : Hits(up[i], r)) \/ (\E i \in DOMAIN own : Hits(own[i], r))
    BY <1>2, <1>3, <1>5, <1>8
  <2> QED
    BY <2>1, <1>3, <1>6, ConcatHits
<1> QED
  BY <1>4, <1>7, <1>8

(* What a job does is what its object's statements do, and nothing else    *)
(* writes the row of an object.                                            *)
LEMMA StatementsSay ==
  ASSUME NEW p \in Payloads, Meaningful(p), Real(p)
  PROVE  /\ Statements(p) \in Seq(StatementSet)
         /\ \A i \in DOMAIN Statements(p) : Sound(p, Statements(p)[i])
         /\ \A r \in Kinds : Touches(p, r) => \E i \in DOMAIN Statements(p) : Hits(Statements(p)[i], r)
<1> DEFINE own == CASE p.kind \in Kinds -> ObjectStatements(p)
                    [] p.kind \in {"push", "repository"} -> <<Repository>>
                    [] OTHER -> <<>>
           asked == [i \in DOMAIN FollowUps(p) |-> Effect(FollowUps(p)[i])]
<1>1. Statements(p) = own \o asked
  BY DEF Statements
<1>2. \A f : \A r \in Kinds : ~Hits(Effect(f), r)
  BY DEF Hits, Effect
<1>3. \A r \in Kinds : ~Hits(Repository, r) /\ ~Hits(Mark, r)
  BY DEF Hits, Repository, Mark
<1>4. /\ own \in Seq(ObjectSet \cup {Repository})
      /\ \A i \in DOMAIN own : Sound(p, own[i])
      /\ \A r \in Kinds : Touches(p, r) => \E i \in DOMAIN own : Hits(own[i], r)
  <2>1. CASE p.kind \in Kinds
    <3>1. own = ObjectStatements(p)
      BY <2>1 DEF Kinds
    <3>2. ObjectStatements(p) \in Seq(ObjectSet \cup {Repository})
      <4>1. ObjectStatements(p) \in Seq(ObjectSet)
        BY <2>1, ObjectStatementsShape
      <4> QED
        BY <4>1, SeqMonotonic
    <3> QED
      BY <2>1, <3>1, <3>2, ObjectStatementsSay
  <2>2. CASE p.kind \notin Kinds /\ p.kind \in {"push", "repository"}
    <3>1. own = <<Repository>>
      BY <2>2
    <3>2. <<Repository>> \in Seq(ObjectSet \cup {Repository}) /\ DOMAIN <<Repository>> = {1}
          /\ <<Repository>>[1] = Repository
      OBVIOUS
    <3> QED
      BY <2>2, <3>1, <3>2, <1>3 DEF Sound, Touches
  <2>3. CASE p.kind \notin Kinds /\ p.kind \notin {"push", "repository"}
    <3>1. own = <<>>
      BY <2>3
    <3> QED
      BY <2>3, <3>1 DEF Touches
  <2> QED
    BY <2>1, <2>2, <2>3
<1>5. /\ asked \in Seq({Effect(f) : f \in FollowUpNames})
      /\ \A i \in DOMAIN asked : Sound(p, asked[i])
  <2>1. /\ FollowUps(p) \in Seq(FollowUpNames) /\ Len(FollowUps(p)) \in Nat
        /\ DOMAIN FollowUps(p) = 1 .. Len(FollowUps(p))
    BY FollowUpsShape
  <2>2. \A i \in DOMAIN FollowUps(p) : FollowUps(p)[i] \in FollowUpNames
    BY <2>1, ElementOfSeq
  <2> QED
    BY <2>1, <2>2, <1>2 DEF Sound
<1> HIDE DEF own, asked
<1>6. /\ Statements(p) \in Seq(ObjectSet \cup {Repository} \cup {Effect(f) : f \in FollowUpNames})
      /\ \A i \in DOMAIN Statements(p) : Sound(p, Statements(p)[i])
      /\ \A r \in Kinds : Touches(p, r) => \E i \in DOMAIN Statements(p) : Hits(Statements(p)[i], r)
  <2> DEFINE All == ObjectSet \cup {Repository} \cup {Effect(f) : f \in FollowUpNames}
  <2>1. own \in Seq(All) /\ asked \in Seq(All)
    <3>1. ObjectSet \cup {Repository} \subseteq All /\ {Effect(f) : f \in FollowUpNames} \subseteq All
      OBVIOUS
    <3> HIDE DEF All
    <3> QED
      BY <3>1, <1>4, <1>5, SeqMonotonic
  <2> HIDE DEF All
  <2>2. own \o asked \in Seq(All)
    BY <2>1, ConcatProperties
  <2>3. \A i \in DOMAIN (own \o asked) : Sound(p, (own \o asked)[i])
    BY <2>1, <1>4, <1>5, ConcatSound
  <2>4. \A r \in Kinds : Touches(p, r) => \E i \in DOMAIN (own \o asked) : Hits((own \o asked)[i], r)
    <3> SUFFICES ASSUME NEW r \in Kinds, Touches(p, r)
                 PROVE  \E i \in DOMAIN (own \o asked) : Hits((own \o asked)[i], r)
      OBVIOUS
    <3>1. \E i \in DOMAIN own : Hits(own[i], r)
      BY <1>4
    <3> QED
      BY <2>1, <3>1, ConcatHits
  <2> QED
    BY <2>2, <2>3, <2>4, <1>1 DEF All
<1>7. Statements(p) \in Seq(StatementSet)
  <2>1. Statements(p) \in Seq(StatementSet \ {Mark})
    BY StatementsShape
  <2> QED
    BY <2>1, SeqMonotonic
<1> QED
  BY <1>6, <1>7

LEMMA MarkSays ==
  ASSUME NEW p, NEW stmts \in Seq(StatementSet), \A i \in DOMAIN stmts : Sound(p, stmts[i])
  PROVE  /\ \A i \in DOMAIN (stmts \o <<Mark>>) : Sound(p, (stmts \o <<Mark>>)[i])
         /\ \A r : (\E i \in DOMAIN stmts : Hits(stmts[i], r)) =>
                \E i \in DOMAIN (stmts \o <<Mark>>) : Hits((stmts \o <<Mark>>)[i], r)
<1> DEFINE mark == <<Mark>>
<1>1. DOMAIN mark = {1} /\ mark[1] = Mark /\ mark \in Seq({Mark})
  OBVIOUS
<1> HIDE DEF mark
<1>2. mark \in Seq(StatementSet)
  BY <1>1, SeqMonotonic DEF StatementSet
<1>3. \A i \in DOMAIN mark : Sound(p, mark[i])
  BY <1>1 DEF Sound, Hits, Mark
<1>4. \A i \in DOMAIN (stmts \o mark) : Sound(p, (stmts \o mark)[i])
  BY <1>2, <1>3, ConcatSound
<1>5. ASSUME NEW r, \E i \in DOMAIN stmts : Hits(stmts[i], r)
      PROVE  \E i \in DOMAIN (stmts \o mark) : Hits((stmts \o mark)[i], r)
  BY <1>2, <1>5, ConcatHits
<1> QED
  BY <1>4, <1>5 DEF mark

LEMMA TodoSays ==
  ASSUME NEW p \in Payloads, Meaningful(p), Real(p), NEW todo,
         todo = (IF projecting THEN Statements(p) ELSE <<>>) \o <<Mark>>
  PROVE  /\ \A i \in DOMAIN todo : Sound(p, todo[i])
         /\ projecting => \A r \in Kinds : Touches(p, r) => \E i \in DOMAIN todo : Hits(todo[i], r)
<1>1. CASE projecting
  <2>1. todo = Statements(p) \o <<Mark>>
    BY <1>1
  <2>2. /\ Statements(p) \in Seq(StatementSet)
        /\ \A i \in DOMAIN Statements(p) : Sound(p, Statements(p)[i])
    BY StatementsSay
  <2>3. /\ \A i \in DOMAIN todo : Sound(p, todo[i])
        /\ \A r : (\E i \in DOMAIN Statements(p) : Hits(Statements(p)[i], r)) =>
                \E i \in DOMAIN todo : Hits(todo[i], r)
    BY <2>1, <2>2, MarkSays
  <2>4. \A r \in Kinds : Touches(p, r) => \E i \in DOMAIN Statements(p) : Hits(Statements(p)[i], r)
    BY StatementsSay
  <2> QED
    BY <2>3, <2>4, Zenon
<1>2. CASE ~projecting
  <2>1. todo = <<>> \o <<Mark>> /\ <<>> \in Seq(StatementSet)
    BY <1>2
  <2>2. \A i \in DOMAIN <<>> : Sound(p, <<>>[i])
    OBVIOUS
  <2>3. \A i \in DOMAIN todo : Sound(p, todo[i])
    BY <2>1, <2>2, MarkSays
  <2> QED
    BY <1>2, <2>3
<1> QED
  BY <1>1, <1>2

(* A statement leaves the other rows, and writes what it says or, of a row *)
(* that keeps the newer version, nothing.                                  *)
LEMMA AppliedHits ==
  ASSUME NEW rs \in [Rows -> Versions], NEW s \in ObjectSet, NEW r \in Kinds
  PROVE  /\ ~Hits(s, r) => Applied(rs, s)[r] = rs[r]
         /\ \A v : Hits(s, r) /\ Puts(s, v) =>
                \/ Applied(rs, s)[r] = v
                \/ /\ Applied(rs, s)[r] = rs[r] /\ r \in Gated
                   /\ v.at <= rs[r].at /\ v # Absent
<1>0. r \in Rows
  BY KindFacts
<1>1. CASE s \in Upserts
  <2>1. s[1] = "upsert" /\ s[2] \in Rows /\ s[3] \in Versions
    BY <1>1 DEF Upserts
  <2>2. Applied(rs, s) = Upserted(rs, s[2], s[3])
    BY <2>1 DEF Applied
  <2>3. (Hits(s, r) <=> s[2] = r) /\ \A v : Puts(s, v) => v = s[3] /\ v # Absent
    BY <2>1 DEF Hits, Puts
  <2>4. CASE KeepsStored(rs, s[2], s[3])
    BY <2>2, <2>3, <2>4 DEF Upserted, KeepsStored
  <2>5. CASE ~KeepsStored(rs, s[2], s[3])
    BY <1>0, <2>1, <2>2, <2>3, <2>5 DEF Upserted
  <2> QED
    BY <2>4, <2>5
<1>2. CASE s \in Deletes
  <2>1. s[1] = "delete" /\ s[2] \in Deletable
    BY <1>2 DEF Deletes
  <2>2. Applied(rs, s) = Deleted(rs, s[2])
    BY <2>1 DEF Applied
  <2>3. (Hits(s, r) <=> r = s[2] \/ Parent[r] = s[2]) /\ \A v : Puts(s, v) <=> v = Absent
    BY <2>1 DEF Hits, Puts
  <2> QED
    BY <1>0, <2>2, <2>3 DEF Deleted
<1> QED
  BY <1>1, <1>2 DEF ObjectSet

LEMMA AppliedAllHits ==
  ASSUME NEW rs \in [Rows -> Versions], NEW stmts \in Seq(ObjectSet), Len(stmts) \in 1 .. 3,
         NEW p, \A i \in DOMAIN stmts : Sound(p, stmts[i]), NEW r \in Kinds
  PROVE  /\ AppliedAll(rs, stmts)[r] \in {rs[r], Gives(p, r)}
         /\ ~Touches(p, r) => AppliedAll(rs, stmts)[r] = rs[r]
<1>1. \A i \in DOMAIN stmts : stmts[i] \in ObjectSet
  BY ElementOfSeq, LenProperties
<1>2. DOMAIN stmts = 1 .. Len(stmts)
  BY LenProperties
<1>3. PICK a1, a2, a3 :
         /\ a1 = Applied(rs, stmts[1]) /\ a2 = Applied(a1, stmts[2]) /\ a3 = Applied(a2, stmts[3])
         /\ Len(stmts) = 1 => AppliedAll(rs, stmts) = a1
         /\ Len(stmts) = 2 => AppliedAll(rs, stmts) = a2
         /\ Len(stmts) = 3 => AppliedAll(rs, stmts) = a3
  <2>1. Len(stmts) \in 0 .. 3
    OBVIOUS
  <2> QED
    BY <2>1, AppliedAllSteps
<1>4. ASSUME NEW f \in [Rows -> Versions], NEW i \in DOMAIN stmts
      PROVE  /\ Applied(f, stmts[i]) \in [Rows -> Versions]
             /\ Applied(f, stmts[i])[r] \in {f[r], Gives(p, r)}
             /\ ~Touches(p, r) => Applied(f, stmts[i])[r] = f[r]
  <2>1. stmts[i] \in ObjectSet
    BY <1>1
  <2>2. Hits(stmts[i], r) => Touches(p, r) /\ Puts(stmts[i], Gives(p, r))
    BY DEF Sound
  <2> QED
    BY <2>1, <2>2, AppliedHits, AppliedFacts
<1>5. 1 \in DOMAIN stmts
  BY <1>2
<1>6. /\ a1 \in [Rows -> Versions] /\ a1[r] \in {rs[r], Gives(p, r)}
      /\ ~Touches(p, r) => a1[r] = rs[r]
  BY <1>3, <1>4, <1>5
<1>7. CASE Len(stmts) = 1
  BY <1>3, <1>6, <1>7
<1>8. CASE Len(stmts) = 2
  <2>1. 2 \in DOMAIN stmts
    BY <1>2, <1>8
  <2> QED
    BY <1>3, <1>4, <1>6, <1>8, <2>1
<1>9. CASE Len(stmts) = 3
  <2>1. 2 \in DOMAIN stmts /\ 3 \in DOMAIN stmts
    BY <1>2, <1>9
  <2>2. /\ a2 \in [Rows -> Versions] /\ a2[r] \in {rs[r], Gives(p, r)}
        /\ ~Touches(p, r) => a2[r] = rs[r]
    BY <1>3, <1>4, <1>6, <2>1
  <2> QED
    BY <1>3, <1>4, <1>9, <2>1, <2>2
<1> QED
  BY <1>7, <1>8, <1>9

LEMMA InitOInv == Init => OInv
<1> SUFFICES ASSUME Init PROVE OInv
  OBVIOUS
<1>1. DOMAIN payloads = {} /\ DOMAIN queue = {} /\ payloads = <<>>
  BY DEF Init
<1>2. \A w \in Workers : worker[w] = Idle
  BY DEF Init
<1>3. \A r \in Kinds :
         /\ github[r] = IF Parent[r] = r THEN First ELSE Absent
         /\ rows[r] = IF r \in Gated THEN First ELSE Absent
  BY KindFacts DEF Init
<1>4. \A r \in Kinds : Parent[r] = r <=> r \in Gated
  BY KindFacts DEF Kinds, Gated, Parent
<1>5. LastTold /\ Seconds /\ RowsPast
  BY <1>1, <1>3, <1>4 DEF LastTold, Seconds, RowsPast, Second, First, Absent
<1>6. TodoSound /\ Families
  BY <1>1, <1>2, <1>3, KindsMore DEF TodoSound, Families, First, Absent
<1>7. \A d \in Ids : ~Stored(d) /\ ~Accepted(d)
  BY DEF Init, Stored, Accepted
<1>8. Line
  BY <1>1, <1>2, <1>7 DEF Line
<1>9. Covered
  BY <1>3, <1>4 DEF Covered, Same
<1>10. sync = NoRead
  BY DEF Init
<1> QED
  BY <1>5, <1>6, <1>8, <1>9, <1>10 DEF OInv, Followed, InOrder
-----------------------------------------------------------------------------
(* What the steps keep that concern GitHub and the payloads.               *)

(* A step that leaves GitHub and the deliveries it has sent.               *)
LEMMA FollowedKept ==
  ASSUME Followed, UNCHANGED <<github, payloads>>, TodoSound'
  PROVE  Followed'
BY DEF Followed, LastTold, Seconds, Families, Second

(* A worker that had something to do has less, or what a payload says.     *)
LEMMA TodoSoundKept ==
  ASSUME TodoSound, UNCHANGED payloads, NEW w \in Workers, NEW new,
         worker' = [worker EXCEPT ![w] = new], worker \in [Workers -> WorkerRecords],
         new # Idle => \A i \in DOMAIN new.todo : Sound(payloads[new.id], new.todo[i])
  PROVE  TodoSound'
<1> SUFFICES ASSUME NEW v \in Workers, worker'[v] # Idle, NEW i \in DOMAIN worker'[v].todo
             PROVE  Sound(payloads[worker'[v].id], worker'[v].todo[i])
  BY DEF TodoSound
<1>1. CASE v = w
  <2>1. worker'[v] = new
    BY <1>1
  <2> QED
    BY <2>1
<1>2. CASE v # w
  <2>1. worker'[v] = worker[v]
    BY <1>2
  <2> QED
    BY <2>1 DEF TodoSound
<1> QED
  BY <1>1, <1>2

(* GitHub sends a delivery that says what has changed.                     *)
LEMMA Told ==
  ASSUME IInv, Followed, NEW p \in Payloads, Real(p), p.v.at >= Second,
         payloads' = Append(payloads, p), github' \in [Kinds -> Versions],
         \A r \in Kinds : Touches(p, r) => github'[r] = Gives(p, r),
         \A r \in Kinds : ~Touches(p, r) => github'[r] = github[r],
         \A r \in Kinds : github'[r] = github[r] \/ github'[r] = Absent \/ github'[r].at = p.v.at,
         \A r \in Kinds : github'[r] # Absent => github'[Parent[r]] # Absent,
         UNCHANGED worker
  PROVE  /\ Followed'
         /\ RowsPast /\ UNCHANGED rows => RowsPast'
         /\ Second' = p.v.at
<1>0. Types /\ JobsOK /\ WorkersOK
  BY DEF IInv
<1>1. /\ DOMAIN payloads = 1 .. Len(payloads) /\ Len(payloads) \in Nat
      /\ payloads \in Seq(Payloads) /\ \A d \in DOMAIN payloads : payloads[d] \in Payloads
  BY <1>0, PayloadFacts DEF Types
<1>2. /\ Len(payloads') = Len(payloads) + 1 /\ DOMAIN payloads' = 1 .. Len(payloads) + 1
      /\ \A d \in DOMAIN payloads : payloads'[d] = payloads[d]
      /\ payloads'[Len(payloads) + 1] = p /\ payloads' # <<>>
  BY <1>1, AppendProperties
<1>3. Second' = p.v.at
  BY <1>2 DEF Second
<1>4. /\ p.v.at \in Nat /\ Second \in Nat
      /\ \A r \in Kinds : github[r].at \in Nat /\ github'[r].at \in Nat /\ rows[r].at \in Nat
  <2>1. Second \in Nat
    BY <1>0, SecondIsPast, ConstantsAssumption
  <2>2. p.v \in Versions
    BY DEF Payloads
  <2> QED
    BY <2>1, <2>2, <1>0, VersionFacts, KindFacts DEF Types
<1>5. \A d \in DOMAIN payloads, r \in Kinds : Touches(payloads[d], r) => Gives(payloads[d], r).at \in Nat
  <2>1. ASSUME NEW q \in Payloads, NEW r PROVE Gives(q, r) \in Versions
    BY VersionFacts DEF Gives, Payloads
  <2> QED
    BY <2>1, <1>1, VersionFacts
<1>6. Absent.at = 0
  BY DEF Absent
<1>7. LastTold'
  <2> SUFFICES ASSUME NEW r \in Kinds, NEW d \in 1 .. Len(payloads) + 1, Touches(payloads'[d], r),
                      github'[r] # Gives(payloads'[d], r)
               PROVE  \E e \in DOMAIN payloads' : e > d /\ Touches(payloads'[e], r)
    BY <1>2 DEF LastTold
  <2>1. d \in DOMAIN payloads /\ Len(payloads) + 1 > d /\ payloads'[d] = payloads[d]
    BY <1>1, <1>2
  <2>2. CASE Touches(p, r)
    <3>1. Len(payloads) + 1 \in DOMAIN payloads'
      BY <1>1, <1>2
    <3> QED
      BY <3>1, <2>1, <2>2, <1>2
  <2>3. CASE ~Touches(p, r)
    <3>1. github[r] # Gives(payloads[d], r)
      BY <2>1, <2>3
    <3>2. PICK e \in DOMAIN payloads : e > d /\ Touches(payloads[e], r)
      BY <2>1, <3>1 DEF Followed, LastTold
    <3>3. e \in DOMAIN payloads' /\ payloads'[e] = payloads[e]
      BY <1>1, <1>2
    <3> QED
      BY <3>2, <3>3
  <2> QED
    BY <2>2, <2>3
<1>8. \A r \in Kinds : github'[r].at <= Second'
  <2> SUFFICES ASSUME NEW r \in Kinds PROVE github'[r].at <= p.v.at
    BY <1>3
  <2>1. github[r].at <= Second
    BY DEF Followed, Seconds
  <2> QED
    BY <2>1, <1>4, <1>6
<1>9. ASSUME NEW r \in Kinds, NEW x \in Nat, x <= Second, github[r] # Absent => x <= github[r].at
      PROVE  x <= Second' /\ (github'[r] # Absent => x <= github'[r].at)
  <2>1. x <= p.v.at
    BY <1>4, <1>9
  <2> QED
    BY <2>1, <1>3, <1>4, <1>9
<1>10. Seconds'
  <2> SUFFICES ASSUME NEW r \in Kinds, NEW d \in 1 .. Len(payloads) + 1, Touches(payloads'[d], r)
               PROVE  /\ Gives(payloads'[d], r).at <= Second'
                      /\ github'[r] # Absent => Gives(payloads'[d], r).at <= github'[r].at
    BY <1>2, <1>8 DEF Seconds
  <2>1. CASE d \in DOMAIN payloads
    <3>1. payloads'[d] = payloads[d]
      BY <1>2, <2>1
    <3>2. /\ Gives(payloads[d], r).at <= Second
          /\ github[r] # Absent => Gives(payloads[d], r).at <= github[r].at
      BY <2>1, <3>1 DEF Followed, Seconds
    <3> QED
      BY <2>1, <3>1, <3>2, <1>5, <1>9
  <2>2. CASE d = Len(payloads) + 1
    <3>1. Gives(payloads'[d], r) = github'[r]
      BY <1>2, <2>2
    <3> QED
      BY <3>1, <1>4, <1>8
  <2> QED
    BY <1>1, <2>1, <2>2
<1>11. TodoSound'
  <2> SUFFICES ASSUME NEW w \in Workers, worker[w] # Idle
               PROVE  \A i \in DOMAIN worker[w].todo : Sound(payloads'[worker[w].id], worker[w].todo[i])
    BY DEF TodoSound
  <2>1. worker[w].id \in DOMAIN payloads
    BY <1>0, WorkersKnow
  <2> QED
    BY <2>1, <1>2 DEF Followed, TodoSound
<1>12. RowsPast /\ UNCHANGED rows => RowsPast'
  BY <1>4, <1>9 DEF RowsPast
<1>13. Families'
  <2>1. \A d \in DOMAIN payloads' : Real(payloads'[d])
    <3> SUFFICES ASSUME NEW d \in 1 .. Len(payloads) + 1 PROVE Real(payloads'[d])
      BY <1>2
    <3>1. CASE d \in DOMAIN payloads
      BY <3>1, <1>2 DEF Followed, Families
    <3>2. CASE d = Len(payloads) + 1
      BY <3>2, <1>2
    <3> QED
      BY <3>1, <3>2, <1>1
  <2> QED
    BY <2>1 DEF Families
<1> QED
  BY <1>3, <1>7, <1>10, <1>11, <1>12, <1>13 DEF Followed
-----------------------------------------------------------------------------
(* What the steps keep that concern the line: GitHub's steps and the       *)
(* acceptor.                                                               *)

LEMMA Busy ==
  ASSUME WorkersOK, NEW w \in Workers
  PROVE  worker[w] # Idle <=> worker[w].id \in Ids
BY DEF WorkersOK, Idle, Ids

LEMMA LineKept ==
  ASSUME Line, UNCHANGED <<delivery, cleaned, queue>>,
         \A w \in Workers : worker'[w].id = worker[w].id /\ (worker'[w] # Idle <=> worker[w] # Idle)
  PROVE  /\ Line'
         /\ \A d, r : Undone(d, r) /\ (ToWrite(d, r) => ToWrite(d, r)') => Undone(d, r)'
<1>1. \A d : (Accepted(d)' <=> Accepted(d)) /\ (Stored(d)' <=> Stored(d))
             /\ (Queued(d)' <=> Queued(d)) /\ (Held(d)' <=> Held(d))
  BY DEF Accepted, Stored, Queued, Held
<1>2. Line'
  BY <1>1 DEF Line
<1> QED
  BY <1>1, <1>2 DEF Undone

(* A step at GitHub leaves the line; what it changes is to be written.     *)
LEMMA ToldKeeps ==
  ASSUME IInv, OInv, NEW p \in Payloads, Real(p), p.v.at >= Second,
         payloads' = Append(payloads, p), github' \in [Kinds -> Versions],
         \A r \in Kinds : Touches(p, r) => github'[r] = Gives(p, r),
         \A r \in Kinds : ~Touches(p, r) => github'[r] = github[r],
         \A r \in Kinds : github'[r] = github[r] \/ github'[r] = Absent \/ github'[r].at = p.v.at,
         \A r \in Kinds : github'[r] # Absent => github'[Parent[r]] # Absent,
         Len(payloads) < MaxEvents,
         UNCHANGED <<projecting, delivery, cleaned, rows, effects, jobVars, envVars, syncVars>>
  PROVE  OInv'
<1> USE DEF jobVars, envVars, syncVars
<1>0. Types /\ JobsOK /\ Followed
  BY DEF IInv, OInv
<1>1. Followed' /\ (RowsPast => RowsPast')
  BY <1>0, Told
<1> SUFFICES ASSUME orderly PROVE sync = NoRead /\ RowsPast' /\ Line' /\ (projecting => Covered')
  BY <1>1 DEF OInv, InOrder
<1>2. sync = NoRead /\ RowsPast /\ Line /\ (projecting => Covered)
  BY DEF OInv, InOrder
<1>3. Line' /\ \A d, r : Undone(d, r) /\ (ToWrite(d, r) => ToWrite(d, r)') => Undone(d, r)'
  BY <1>2, LineKept
<1>4. \A d, r : ToWrite(d, r)' <=> ToWrite(d, r)
  BY DEF ToWrite
<1>5. /\ DOMAIN payloads = 1 .. Len(payloads) /\ Len(payloads) \in Nat
      /\ payloads \in Seq(Payloads)
  BY <1>0, PayloadFacts DEF Types
<1>6. /\ DOMAIN payloads' = 1 .. Len(payloads) + 1
      /\ \A d \in DOMAIN payloads : d \in DOMAIN payloads' /\ payloads'[d] = payloads[d]
      /\ payloads'[Len(payloads) + 1] = p /\ Len(payloads) + 1 \in DOMAIN payloads'
      /\ Len(payloads) + 1 \in Ids /\ Len(payloads) + 1 \notin DOMAIN payloads
  BY <1>5, AppendProperties, ConstantsAssumption DEF Ids
<1>7. ASSUME projecting, NEW r \in Kinds
      PROVE  Same(r)' \/ \E d \in DOMAIN payloads' : Touches(payloads'[d], r) /\ Undone(d, r)'
  <2>1. CASE Touches(p, r)
    <3>0. PICK n : n = Len(payloads) + 1
      OBVIOUS
    <3>1. ~Accepted(n)'
      BY <3>0, <1>0, <1>6 DEF JobsOK, Accepted
    <3> QED
      BY <3>0, <3>1, <2>1, <1>6 DEF Undone
  <2>2. CASE ~Touches(p, r)
    <3>1. CASE Same(r)
      BY <2>2, <3>1 DEF Same
    <3>2. ASSUME NEW d \in DOMAIN payloads, Touches(payloads[d], r), Undone(d, r)
          PROVE  \E e \in DOMAIN payloads' : Touches(payloads'[e], r) /\ Undone(e, r)'
      BY <3>2, <1>3, <1>4, <1>6
    <3> QED
      BY <1>2, <1>7, <3>1, <3>2 DEF Covered
  <2> QED
    BY <2>1, <2>2
<1> QED
  BY <1>1, <1>2, <1>3, <1>7 DEF Covered

LEMMA GitHubKeepsOrder ==
  ASSUME IInv, OInv, GitHub
  PROVE  OInv'
<1>0. Types /\ Families
  BY DEF IInv, OInv, Followed
<1>1. ASSUME NEW k \in Kinds, NEW action \in {"changed", "touched"}, NEW at \in 1 .. MaxEvents + 1,
             Change(k, action, at)
      PROVE  OInv'
  <2> DEFINE p == Payload(k, action, at)
  <2>1. at \in 0 .. MaxEvents + 1 /\ k \in EventKinds
    BY ConstantsAssumption DEF EventKinds
  <2>2. /\ Len(payloads) < MaxEvents /\ payloads' = Append(payloads, p) /\ at \in NextSeconds
        /\ github' = [github EXCEPT ![k] = [n |-> Len(payloads) + 2, at |-> at]]
        /\ UNCHANGED <<projecting, delivery, cleaned, rows, effects, jobVars, envVars, syncVars>>
    BY <1>1 DEF Change
  <2>3. p \in Payloads /\ [n |-> Len(payloads) + 2, at |-> at] \in Versions
    BY <1>0, <2>1, <2>2, PayloadIsPayload
  <2>4. /\ p.kind = k /\ p.action = action /\ p.v = [n |-> Len(payloads) + 2, at |-> at]
        /\ p.parent = IF Parent[k] # k THEN github[Parent[k]] ELSE p.v
    BY DEF Payload
  <2>4a. Parent[k] = k \/ github[Parent[k]] # Absent
    BY <1>1 DEF Change
  <2>4b. [n |-> Len(payloads) + 2, at |-> at] # Absent
    BY <1>0, PayloadFacts DEF Absent
  <2>5. p.v.at >= Second
    <3>1. Second \in Nat /\ p.v.at = at
      BY <1>0, <2>4, SecondIsPast, ConstantsAssumption
    <3>2. CASE payloads = <<>>
      BY <3>1, <3>2, <2>2 DEF NextSeconds, Second
    <3>3. CASE payloads # <<>>
      BY <3>1, <3>3, <2>2 DEF NextSeconds
    <3> QED
      BY <3>2, <3>3
  <2> HIDE DEF p
  <2>6. /\ github' \in [Kinds -> Versions] /\ github'[k] = p.v
        /\ \A r \in Kinds : r # k => github'[r] = github[r]
    BY <1>0, <2>2, <2>3, <2>4 DEF Types
  <2>7. /\ \A r \in Kinds : Touches(p, r) => github'[r] = Gives(p, r)
        /\ \A r \in Kinds : ~Touches(p, r) => github'[r] = github[r]
        /\ \A r \in Kinds : github'[r] = github[r] \/ github'[r] = Absent \/ github'[r].at = p.v.at
    BY <2>4, <2>6, KindFacts DEF Touches, Gives
  <2>8. Real(p) /\ \A r \in Kinds : github'[r] # Absent => github'[Parent[r]] # Absent
    <3>1. p.v # Absent /\ p.parent # Absent
      BY <2>4, <2>4a, <2>4b
    <3>2. \A r \in Kinds : github'[r] # Absent => github'[Parent[r]] # Absent
      BY <1>0, <2>4a, <2>6, <3>1, KindsMore DEF Families
    <3> QED
      BY <3>1, <3>2 DEF Real
  <2> QED
    BY <2>2, <2>3, <2>5, <2>6, <2>7, <2>8, ToldKeeps
<1>2. ASSUME NEW k \in Deletable, NEW at \in 1 .. MaxEvents + 1, Remove(k, at)
      PROVE  OInv'
  <2> DEFINE p == Payload(k, "deleted", at)
  <2>1. at \in 0 .. MaxEvents + 1 /\ k \in EventKinds /\ k \in Kinds
    BY ConstantsAssumption, KindFacts DEF EventKinds
  <2>2. /\ Len(payloads) < MaxEvents /\ payloads' = Append(payloads, p) /\ at \in NextSeconds
        /\ github' = [g \in Kinds |-> IF g = k \/ Parent[g] = k THEN Absent ELSE github[g]]
        /\ UNCHANGED <<projecting, delivery, cleaned, rows, effects, jobVars, envVars, syncVars>>
    BY <1>2 DEF Remove
  <2>3. p \in Payloads
    BY <1>0, <2>1, <2>2, PayloadIsPayload
  <2>4. /\ p.kind = k /\ p.action = "deleted" /\ p.v = [n |-> Len(payloads) + 2, at |-> at]
        /\ p.parent = IF Parent[k] # k THEN github[Parent[k]] ELSE p.v
    BY <2>1 DEF Payload
  <2>4a. github[Parent[k]] # Absent
    BY <1>0, <1>2, <2>1 DEF Remove, Families
  <2>4b. [n |-> Len(payloads) + 2, at |-> at] # Absent
    BY <1>0, PayloadFacts DEF Absent
  <2>5. p.v.at >= Second
    <3>1. Second \in Nat /\ p.v.at = at
      BY <1>0, <2>4, SecondIsPast, ConstantsAssumption
    <3>2. CASE payloads = <<>>
      BY <3>1, <3>2, <2>2 DEF NextSeconds, Second
    <3>3. CASE payloads # <<>>
      BY <3>1, <3>3, <2>2 DEF NextSeconds
    <3> QED
      BY <3>2, <3>3
  <2> HIDE DEF p
  <2>6. /\ github' \in [Kinds -> Versions]
        /\ \A r \in Kinds : github'[r] = IF r = k \/ Parent[r] = k THEN Absent ELSE github[r]
    BY <1>0, <2>2, VersionFacts DEF Types
  <2>7. /\ \A r \in Kinds : Touches(p, r) => github'[r] = Gives(p, r)
        /\ \A r \in Kinds : ~Touches(p, r) => github'[r] = github[r]
        /\ \A r \in Kinds : github'[r] = github[r] \/ github'[r] = Absent \/ github'[r].at = p.v.at
    BY <2>1, <2>4, <2>6, KindFacts DEF Touches, Gives
  <2>8. Real(p) /\ \A r \in Kinds : github'[r] # Absent => github'[Parent[r]] # Absent
    <3>1. p.v # Absent /\ p.parent # Absent
      BY <2>4, <2>4a, <2>4b
    <3>2. \A r \in Kinds : github'[r] # Absent => github'[Parent[r]] # Absent
      BY <1>0, <2>6, KindsMore DEF Families
    <3> QED
      BY <3>1, <3>2 DEF Real
  <2> QED
    BY <2>2, <2>3, <2>5, <2>6, <2>7, <2>8, ToldKeeps
<1>3. ASSUME NEW k \in EventKinds, Announce(k)
      PROVE  OInv'
  <2> DEFINE p == Payload(k, "changed", Second)
  <2>1. /\ Len(payloads) < MaxEvents /\ payloads' = Append(payloads, p) /\ k \notin Kinds
        /\ UNCHANGED <<github, projecting, delivery, cleaned, rows, effects, jobVars, envVars, syncVars>>
    BY <1>3 DEF Announce
  <2>2. p \in Payloads /\ Second \in Nat
    <3>1. Second \in 0 .. MaxEvents + 1 /\ Second \in Nat
      BY <1>0, SecondIsPast, ConstantsAssumption
    <3>2. p \in Payloads
      BY <1>0, <2>1, <3>1, PayloadIsPayload
    <3> QED
      BY <3>1, <3>2
  <2>3. p.kind = k /\ p.v.at = Second
    BY DEF Payload
  <2> HIDE DEF p
  <2>4. \A r \in Kinds : ~Touches(p, r)
    BY <2>1, <2>3 DEF Touches
  <2>5. github' \in [Kinds -> Versions]
    BY <1>0, <2>1 DEF Types
  <2>6. p.v.at >= Second
    BY <2>2, <2>3
  <2>7. Real(p) /\ \A r \in Kinds : github'[r] # Absent => github'[Parent[r]] # Absent
    BY <1>0, <2>1, <2>3 DEF Real, Families
  <2> QED
    BY <2>1, <2>2, <2>4, <2>5, <2>6, <2>7, ToldKeeps
<1> QED
  BY <1>1, <1>2, <1>3 DEF GitHub

(* A delivery that is put at the end of the queue.                         *)
LEMMA QueuedLast ==
  ASSUME Types, NEW d \in Ids, queue' = Enqueue(d)
  PROVE  /\ \A e : Queued(e)' <=> Queued(e) \/ e = d
         /\ DOMAIN queue' = 1 .. Len(queue) + 1 /\ DOMAIN queue = 1 .. Len(queue)
         /\ \A i \in DOMAIN queue : queue'[i] = queue[i]
         /\ queue'[Len(queue) + 1] = d /\ Len(queue) \in Nat
<1>1. queue \in Seq(Ids) /\ DOMAIN queue = 1 .. Len(queue) /\ Len(queue) \in Nat
  BY RecordFacts DEF Types
<1>2. /\ DOMAIN queue' = 1 .. Len(queue) + 1
      /\ \A i \in DOMAIN queue : i \in DOMAIN queue' /\ queue'[i] = queue[i]
      /\ queue'[Len(queue) + 1] = d /\ Len(queue) + 1 \in DOMAIN queue'
  BY <1>1, AppendProperties DEF Enqueue
<1>3. \A i \in DOMAIN queue' : i \in DOMAIN queue \/ i = Len(queue) + 1
  BY <1>1, <1>2
<1> QED
  BY <1>1, <1>2, <1>3 DEF Queued

(* A delivery in its order is the last of the line, and will write what it *)
(* changes.                                                                *)
LEMMA HandleWebhookKeepsOrder ==
  ASSUME IInv, OInv, NEW d \in Ids, HandleWebhook(d)
  PROVE  OInv'
<1>0. Types /\ JobsOK /\ QueueOK /\ WorkersOK /\ Followed
  BY DEF IInv, OInv
<1> DEFINE p == payloads[d]
<1>1. /\ d \in DOMAIN payloads /\ delivery[d] = "none"
      /\ delivery' = [delivery EXCEPT ![d] = "stored"]
      /\ IF Immediate(p) THEN rows' = AppliedAll(rows, ObjectStatements(p)) ELSE UNCHANGED rows
      /\ Insertable(d) => queue' = Enqueue(d)
      /\ orderly' = (orderly /\ Earliest(d) /\ d \notin cleaned)
      /\ UNCHANGED <<github, payloads, projecting, cleaned, worker, sync>>
  BY DEF HandleWebhook, ghVars, syncVars
<1>2. TodoSound' /\ Followed'
  <2>1. TodoSound'
    BY <1>0, <1>1 DEF Followed, TodoSound
  <2> QED
    BY <2>1, <1>0, <1>1, FollowedKept
<1> SUFFICES ASSUME orderly, Earliest(d), d \notin cleaned
             PROVE sync = NoRead /\ RowsPast' /\ Line' /\ (projecting => Covered')
  BY <1>1, <1>2 DEF OInv, InOrder
<1>3. sync = NoRead /\ RowsPast /\ Line /\ (projecting => Covered)
  BY DEF OInv, InOrder
<1>4. ~Accepted(d) /\ job[d].state = "none"
  BY <1>0, <1>1 DEF Accepted, JobsOK
<1>5. queue' = Enqueue(d)
  BY <1>1, <1>4 DEF Insertable
<1>6. \A e \in Ids : /\ Accepted(e)' <=> Accepted(e) \/ e = d
                     /\ Stored(e)' <=> Stored(e) \/ e = d
                     /\ Stored(e) => Accepted(e)
  BY <1>0, <1>1 DEF Types, Accepted, Stored
<1>7. \A e \in Ids : e < d => Accepted(e)
  BY <1>0 DEF Earliest, Accepted
<1>8. \A e \in Ids : Accepted(e) => e < d
  <2> SUFFICES ASSUME NEW e \in Ids, Accepted(e), ~(e < d) PROVE FALSE
    OBVIOUS
  <2>1. d < e
    BY <1>4 DEF Ids
  <2> QED
    BY <2>1, <1>3, <1>4 DEF Line
<1>9. /\ \A e : Queued(e)' <=> Queued(e) \/ e = d
      /\ DOMAIN queue' = 1 .. Len(queue) + 1 /\ DOMAIN queue = 1 .. Len(queue)
      /\ \A i \in DOMAIN queue : queue'[i] = queue[i]
      /\ queue'[Len(queue) + 1] = d /\ Len(queue) \in Nat
  BY <1>0, <1>5, QueuedLast
<1>10. /\ \A i \in DOMAIN queue : queue[i] \in Ids /\ queue[i] # d
       /\ \A e : Queued(e) => e \in Ids /\ e # d
       /\ \A w \in Workers : worker[w] # Idle => worker[w].id \in Ids /\ worker[w].id # d
  BY <1>0, <1>4, RecordFacts DEF QueueOK, WorkersOK, Queued
<1>11. Line'
  <2>1. ASSUME NEW a \in Ids, NEW e \in Ids, a < e, Accepted(e)'
        PROVE  Accepted(a)' /\ (Stored(a)' => Stored(e)')
    <3>1. CASE e = d
      BY <2>1, <3>1, <1>6, <1>7
    <3>2. CASE e # d
      <4>1. Accepted(e) /\ e < d /\ a # d
        BY <2>1, <3>2, <1>6, <1>8 DEF Ids
      <4> QED
        BY <2>1, <4>1, <1>3, <1>6 DEF Line
    <3> QED
      BY <3>1, <3>2
  <2>2. ASSUME NEW i \in 1 .. Len(queue) + 1, NEW j \in 1 .. Len(queue) + 1, i < j,
               delivery'[queue'[i]] = "stored", delivery'[queue'[j]] = "stored"
        PROVE  queue'[i] < queue'[j]
    <3>1. i \in DOMAIN queue /\ queue'[i] = queue[i]
      BY <2>2, <1>9
    <3>2. Stored(queue[i])
      <4>1. PICK a : a = queue[i]
        OBVIOUS
      <4>2. Stored(a)'
        BY <4>1, <3>1, <2>2 DEF Stored
      <4> QED
        BY <4>1, <4>2, <3>1, <1>6, <1>10
    <3>3. CASE j = Len(queue) + 1
      BY <3>1, <3>2, <3>3, <1>6, <1>8, <1>9, <1>10
    <3>4. CASE j \in DOMAIN queue
      <4>1. PICK b : b = queue[j]
        OBVIOUS
      <4>2. b \in Ids /\ b # d /\ queue'[j] = b
        BY <3>4, <4>1, <1>9, <1>10
      <4>3. Stored(b)'
        BY <4>2, <2>2 DEF Stored
      <4>4. Stored(queue[j])
        BY <4>1, <4>2, <4>3, <1>6
      <4> QED
        BY <2>2, <3>1, <3>2, <3>4, <4>1, <4>2, <4>4, <1>3 DEF Line
    <3> QED
      BY <3>3, <3>4, <1>9
  <2>3. ASSUME NEW w \in Workers, worker[w] # Idle
        PROVE  /\ Stored(worker[w].id)'
               /\ \A e \in Ids : Queued(e)' /\ Stored(e)' => worker[w].id < e
    <3>1. PICK a : a = worker[w].id
      OBVIOUS
    <3>2. a \in Ids /\ Stored(a)
      BY <2>3, <3>1, <1>3, <1>10 DEF Line
    <3>3. Stored(a)'
      BY <3>2, <1>6
    <3>4. ASSUME NEW e \in Ids, Queued(e)', Stored(e)' PROVE a < e
      <4>1. CASE e = d
        BY <4>1, <3>2, <1>6, <1>8
      <4>2. CASE e # d
        BY <4>2, <3>1, <3>4, <2>3, <1>3, <1>6, <1>9 DEF Line
      <4> QED
        BY <4>1, <4>2
    <3> QED
      BY <3>1, <3>3, <3>4, <1>1 DEF Stored
  <2>4. \A e \in Ids : Stored(e)' => Queued(e)' \/ Held(e)'
    BY <1>1, <1>3, <1>6, <1>9 DEF Line, Held
  <2>5. \A i, j \in DOMAIN queue' : i < j /\ Stored(queue[i])' /\ Stored(queue[j])' => queue'[i] < queue'[j]
    BY <2>2, <1>9 DEF Stored
  <2>6. \A w \in Workers : worker'[w] # Idle =>
           /\ Stored(worker[w].id)'
           /\ \A e \in Ids : Queued(e)' /\ Stored(e)' => worker'[w].id < e
    BY <2>3, <1>1
  <2> QED
    BY <2>1, <2>4, <2>5, <2>6 DEF Line
<1>12. ASSUME NEW r \in Kinds
       PROVE  /\ rows'[r] = rows[r] \/ (Touches(p, r) /\ rows'[r] = Gives(p, r))
  <2>1. CASE Immediate(p)
    <3>1. p \in Payloads /\ Meaningful(p) /\ p.kind \in Kinds /\ Real(p)
      BY <1>0, <1>1, <2>1, PayloadFacts DEF Immediate, Followed, Families
    <3>2. /\ ObjectStatements(p) \in Seq(ObjectSet) /\ Len(ObjectStatements(p)) \in 1 .. 3
          /\ \A i \in DOMAIN ObjectStatements(p) : Sound(p, ObjectStatements(p)[i])
      <4> HIDE DEF p
      <4> QED
        BY <3>1, ObjectStatementsShape, ObjectStatementsSay
    <3>3. rows \in [Rows -> Versions] /\ rows' = AppliedAll(rows, ObjectStatements(p))
      BY <1>0, <1>1, <2>1 DEF Types
    <3> HIDE DEF p
    <3> QED
      BY <3>2, <3>3, AppliedAllHits
  <2>2. CASE ~Immediate(p)
    BY <1>1, <2>2
  <2> QED
    BY <2>1, <2>2
<1>13. RowsPast'
  <2> SUFFICES ASSUME NEW r \in Kinds
               PROVE  rows'[r].at <= Second /\ (github[r] # Absent => rows'[r].at <= github[r].at)
    BY <1>1 DEF RowsPast, Second
  <2>1. /\ rows[r].at <= Second /\ (github[r] # Absent => rows[r].at <= github[r].at)
        /\ Touches(p, r) =>
               /\ Gives(p, r).at <= Second
               /\ github[r] # Absent => Gives(p, r).at <= github[r].at
    BY <1>0, <1>1, <1>3 DEF RowsPast, Followed, Seconds
  <2> QED
    BY <2>1, <1>12
<1>14. ASSUME projecting, NEW r \in Kinds
       PROVE  Same(r)' \/ \E e \in DOMAIN payloads : Touches(payloads[e], r) /\ Undone(e, r)'
  <2>1. CASE Touches(p, r)
    <3>1. Stored(d)' /\ Queued(d)'
      BY <1>6, <1>9
    <3> QED
      BY <2>1, <3>1, <1>1 DEF Undone
  <2>2. CASE ~Touches(p, r)
    <3>1. CASE Same(r)
      BY <2>2, <3>1, <1>1, <1>12 DEF Same
    <3>2. ASSUME NEW e \in DOMAIN payloads, Touches(payloads[e], r), Undone(e, r)
          PROVE  \E x \in DOMAIN payloads : Touches(payloads[x], r) /\ Undone(x, r)'
      <4>1. e \in Ids /\ e # d
        BY <2>2, <3>2, <1>0, PayloadFacts
      <4>2. ToWrite(e, r) <=> ToWrite(e, r)'
        BY <1>1 DEF ToWrite
      <4>3. Undone(e, r)'
        BY <3>2, <4>1, <4>2, <1>6, <1>9 DEF Undone
      <4> QED
        BY <3>2, <4>3
    <3> QED
      BY <1>3, <1>14, <3>1, <3>2 DEF Covered
  <2> QED
    BY <2>1, <2>2
<1> QED
  BY <1>1, <1>3, <1>11, <1>13, <1>14 DEF Covered
-----------------------------------------------------------------------------
(* River's timers, and what ends the order.                                *)

LEMMA RetryJobKeepsOrder ==
  ASSUME IInv, OInv, NEW d \in Ids, RetryJob(d)
  PROVE  OInv'
<1>0. Types /\ JobsOK /\ QueueOK /\ WorkersOK /\ Followed
  BY DEF IInv, OInv
<1>1. /\ job[d].state = "retryable" /\ queue' = Enqueue(d)
      /\ UNCHANGED <<github, payloads, projecting, delivery, cleaned, rows, worker, sync, orderly>>
  BY DEF RetryJob, ghVars, envVars, syncVars
<1>2. TodoSound' /\ Followed'
  <2>1. TodoSound'
    BY <1>0, <1>1 DEF Followed, TodoSound
  <2> QED
    BY <2>1, <1>0, <1>1, FollowedKept
<1> SUFFICES ASSUME orderly PROVE sync = NoRead /\ RowsPast' /\ Line' /\ (projecting => Covered')
  BY <1>1, <1>2 DEF OInv, InOrder
<1>3. sync = NoRead /\ RowsPast /\ Line /\ (projecting => Covered)
  BY DEF OInv, InOrder
<1>4. /\ \A e : Queued(e)' <=> Queued(e) \/ e = d
      /\ DOMAIN queue' = 1 .. Len(queue) + 1 /\ DOMAIN queue = 1 .. Len(queue)
      /\ \A i \in DOMAIN queue : queue'[i] = queue[i]
      /\ queue'[Len(queue) + 1] = d /\ Len(queue) \in Nat
  BY <1>0, <1>1, QueuedLast
<1>5. ~Stored(d)
  <2>1. ~Queued(d) /\ ~Held(d)
    BY <1>0, <1>1 DEF QueueOK, WorkersOK, Queued, Held
  <2> QED
    BY <2>1, <1>3 DEF Line
<1>6. \A e : (Accepted(e)' <=> Accepted(e)) /\ (Stored(e)' <=> Stored(e)) /\ (Held(e)' <=> Held(e))
  BY <1>1 DEF Accepted, Stored, Held
<1>7. Line'
  <2>1. ASSUME NEW i \in DOMAIN queue', NEW j \in DOMAIN queue', i < j,
               delivery[queue'[i]] = "stored", delivery[queue'[j]] = "stored"
        PROVE  queue'[i] < queue'[j]
    <3>1. i \in DOMAIN queue /\ j \in DOMAIN queue
      BY <2>1, <1>4, <1>5 DEF Stored
    <3> QED
      BY <2>1, <3>1, <1>3, <1>4 DEF Line, Stored
  <2>2. \A i, j \in DOMAIN queue' : i < j /\ Stored(queue[i])' /\ Stored(queue[j])' => queue'[i] < queue'[j]
    BY <2>1, <1>1 DEF Stored
  <2>3. \A w \in Workers : worker'[w] # Idle =>
           /\ Stored(worker[w].id)'
           /\ \A e \in Ids : Queued(e)' /\ Stored(e)' => worker'[w].id < e
    <3>1. \A w \in Workers : Stored(worker[w].id)' <=> Stored(worker[w].id)
      BY <1>1 DEF Stored
    <3> QED
      BY <3>1, <1>1, <1>3, <1>4, <1>5, <1>6 DEF Line
  <2>4. \A e \in Ids : Stored(e)' => Queued(e)' \/ Held(e)'
    BY <1>3, <1>4, <1>6 DEF Line
  <2>5. \A a, e \in Ids : a < e /\ Accepted(e)' => Accepted(a)' /\ (Stored(a)' => Stored(e)')
    BY <1>3, <1>6 DEF Line
  <2> QED
    BY <2>2, <2>3, <2>4, <2>5 DEF Line
<1>8. projecting => Covered'
  <2>1. \A r : Same(r)' <=> Same(r)
    BY <1>1 DEF Same
  <2>2. \A e, r : ToWrite(e, r)' <=> ToWrite(e, r)
    BY <1>1 DEF ToWrite
  <2>3. \A e, r : Undone(e, r) => Undone(e, r)'
    BY <2>2, <1>4, <1>6 DEF Undone
  <2> QED
    BY <2>1, <2>3, <1>1, <1>3 DEF Covered
<1>9. RowsPast'
  BY <1>1, <1>3 DEF RowsPast, Second
<1> QED
  BY <1>3, <1>7, <1>8, <1>9

LEMMA CleanUpKeepsOrder ==
  ASSUME IInv, OInv, NEW d \in Ids, CleanUp(d)
  PROVE  OInv'
<1>0. Types /\ WorkersOK /\ Followed
  BY DEF IInv, OInv
<1>1. /\ delivery[d] = "processed" /\ delivery' = [delivery EXCEPT ![d] = "none"]
      /\ cleaned' = cleaned \cup {d}
      /\ UNCHANGED <<github, payloads, projecting, rows, queue, worker, sync, orderly>>
  BY DEF CleanUp, ghVars, envVars, syncVars, jobVars
<1>2. TodoSound' /\ Followed'
  <2>1. TodoSound'
    BY <1>0, <1>1 DEF Followed, TodoSound
  <2> QED
    BY <2>1, <1>0, <1>1, FollowedKept
<1> SUFFICES ASSUME orderly PROVE sync = NoRead /\ RowsPast' /\ Line' /\ (projecting => Covered')
  BY <1>1, <1>2 DEF OInv, InOrder
<1>3. sync = NoRead /\ RowsPast /\ Line /\ (projecting => Covered)
  BY DEF OInv, InOrder
<1>4. \A e \in Ids : /\ Accepted(e)' <=> Accepted(e)
                     /\ Stored(e)' <=> Stored(e)
  BY <1>0, <1>1 DEF Types, Accepted, Stored
<1>5. \A e : (Queued(e)' <=> Queued(e)) /\ (Held(e)' <=> Held(e))
  BY <1>1 DEF Queued, Held
<1>6. Line'
  <2>1. \A i \in DOMAIN queue : queue[i] \in Ids /\ (Stored(queue[i])' <=> Stored(queue[i]))
    BY <1>0, <1>1, <1>4, RecordFacts DEF Stored
  <2>2. \A w \in Workers : worker[w] # Idle =>
           worker[w].id \in Ids /\ (Stored(worker[w].id)' <=> Stored(worker[w].id))
    BY <1>0, <1>1, <1>4 DEF Stored, WorkersOK
  <2>3. \A i, j \in DOMAIN queue' : i < j /\ Stored(queue[i])' /\ Stored(queue[j])' => queue'[i] < queue'[j]
    BY <2>1, <1>1, <1>3 DEF Line
  <2>4. \A w \in Workers : worker'[w] # Idle =>
           /\ Stored(worker[w].id)'
           /\ \A e \in Ids : Queued(e)' /\ Stored(e)' => worker'[w].id < e
    BY <2>2, <1>1, <1>3, <1>4, <1>5 DEF Line
  <2>5. \A e \in Ids : Stored(e)' => Queued(e)' \/ Held(e)'
    BY <1>3, <1>4, <1>5 DEF Line
  <2>6. \A a, e \in Ids : a < e /\ Accepted(e)' => Accepted(a)' /\ (Stored(a)' => Stored(e)')
    BY <1>3, <1>4 DEF Line
  <2> QED
    BY <2>3, <2>4, <2>5, <2>6 DEF Line
<1>7. projecting => Covered'
  <2>1. \A r : Same(r)' <=> Same(r)
    BY <1>1 DEF Same
  <2>2. \A e, r : ToWrite(e, r)' <=> ToWrite(e, r)
    BY <1>1 DEF ToWrite
  <2>3. \A e \in Ids : \A r : Undone(e, r) => Undone(e, r)'
    BY <2>2, <1>4, <1>5 DEF Undone
  <2>4. \A e \in DOMAIN payloads : e \in Ids
    BY <1>0, PayloadFacts
  <2> QED
    BY <2>1, <2>3, <2>4, <1>1, <1>3 DEF Covered
<1>8. RowsPast'
  BY <1>1, <1>3 DEF RowsPast, Second
<1> QED
  BY <1>3, <1>6, <1>7, <1>8

(* After a failed job, a restart or a read of the syncer nothing is        *)
(* promised of the rows.                                                   *)
LEMMA DisorderKeeps ==
  ASSUME IInv, OInv, UNCHANGED <<github, payloads>>, ~orderly',
         \/ UNCHANGED worker
         \/ \E w \in Workers : worker' = [worker EXCEPT ![w] = Idle]
         \/ worker' = [w \in Workers |-> Idle]
  PROVE  OInv'
<1>1. TodoSound'
  <2>0. TodoSound /\ worker \in [Workers -> WorkerRecords]
    BY DEF OInv, Followed, IInv, Types
  <2>1. CASE UNCHANGED worker
    BY <2>0, <2>1 DEF TodoSound
  <2>2. ASSUME NEW w \in Workers, worker' = [worker EXCEPT ![w] = Idle] PROVE TodoSound'
    BY <2>0, <2>2, TodoSoundKept
  <2>3. CASE worker' = [w \in Workers |-> Idle]
    BY <2>3 DEF TodoSound
  <2> QED
    BY <2>1, <2>2, <2>3
<1>2. Followed'
  BY <1>1, FollowedKept DEF OInv
<1> QED
  BY <1>2 DEF OInv, InOrder

LEMMA DisorderlyKeep ==
  ASSUME IInv, OInv,
         \/ \E w \in Workers : FailJob(w)
         \/ Restart
         \/ \E k \in Kinds : ReadGitHub(k)
         \/ StoreRead
  PROVE  OInv'
<1>1. ASSUME NEW w \in Workers, FailJob(w) PROVE OInv'
  BY <1>1, DisorderKeeps DEF FailJob, ghVars
<1>2. CASE Restart
  BY <1>2, DisorderKeeps DEF Restart, ghVars
<1>3. ASSUME NEW k \in Kinds, ReadGitHub(k) PROVE OInv'
  BY <1>3, DisorderKeeps DEF ReadGitHub, ghVars, jobVars
<1>4. CASE StoreRead
  <2>1. ~orderly
    BY <1>4 DEF StoreRead, OInv, InOrder
  <2> QED
    BY <2>1, <1>4, DisorderKeeps DEF StoreRead, ghVars, jobVars, envVars
<1> QED
  BY <1>1, <1>2, <1>3, <1>4
-----------------------------------------------------------------------------
(* River works on one job at a time, the default of the code:              *)
(* `WEBHOOK_JOB_QUEUE_CONCURRENCY` is 1 unless it is set (config.go:89).   *)
SingleWorker == \A v, w \in Workers : v = w

(* The delivery that is next in the queue is taken from it.                *)
LEMMA QueuedNext ==
  ASSUME Types, queue # <<>>, queue' = Tail(queue)
  PROVE  /\ 1 \in DOMAIN queue /\ Head(queue) = queue[1] /\ Head(queue) \in Ids
         /\ \A i \in DOMAIN queue' : i + 1 \in DOMAIN queue /\ queue'[i] = queue[i + 1]
         /\ \A i, j \in DOMAIN queue' : i < j => 1 < i + 1 /\ i + 1 < j + 1
         /\ \A i \in DOMAIN queue' : 1 < i + 1
         /\ \A e : Queued(e)' => Queued(e) /\ \E i \in DOMAIN queue : 1 < i /\ queue[i] = e
         /\ \A e : Queued(e) /\ e # Head(queue) => Queued(e)'
<1>1. queue \in Seq(Ids) /\ DOMAIN queue = 1 .. Len(queue) /\ Len(queue) \in Nat
  BY RecordFacts DEF Types
<1>2. Len(queue) # 0
  BY <1>1, EmptySeq
<1>3. 1 \in DOMAIN queue /\ Head(queue) = queue[1] /\ Head(queue) \in Ids
  BY <1>1, <1>2, HeadTailProperties, ElementOfSeq
<1>4. DOMAIN queue' = 1 .. Len(queue) - 1 /\ \A i \in 1 .. Len(queue) - 1 : queue'[i] = queue[i + 1]
  BY <1>1, <1>2, HeadTailProperties
<1>5. \A i \in DOMAIN queue' : i \in Nat /\ 1 < i + 1 /\ i + 1 \in DOMAIN queue /\ queue'[i] = queue[i + 1]
  BY <1>1, <1>2, <1>4
<1>6. \A i, j \in DOMAIN queue' : i < j => i + 1 < j + 1
  BY <1>5
<1>7. \A i \in DOMAIN queue : i # 1 => i - 1 \in DOMAIN queue' /\ queue'[i - 1] = queue[i]
  <2> SUFFICES ASSUME NEW i \in 1 .. Len(queue), i # 1
               PROVE  i - 1 \in DOMAIN queue' /\ queue'[i - 1] = queue[i]
    BY <1>1
  <2>1. i - 1 \in 1 .. Len(queue) - 1 /\ (i - 1) + 1 = i
    BY <1>1
  <2> QED
    BY <2>1, <1>4
<1>8. \A e : Queued(e)' => Queued(e) /\ \E i \in DOMAIN queue : 1 < i /\ queue[i] = e
  BY <1>5 DEF Queued
<1>9. \A e : Queued(e) /\ e # Head(queue) => Queued(e)'
  BY <1>3, <1>7 DEF Queued
<1> QED
  BY <1>3, <1>5, <1>6, <1>8, <1>9

(* What is left of the queue is still in order.                            *)
LEMMA QueueStaysOrdered ==
  ASSUME Types, Line, queue # <<>>, queue' = Tail(queue), UNCHANGED delivery
  PROVE  \A i, j \in DOMAIN queue' : i < j /\ Stored(queue[i])' /\ Stored(queue[j])' => queue'[i] < queue'[j]
<1> SUFFICES ASSUME NEW i \in DOMAIN queue', NEW j \in DOMAIN queue', i < j,
                    delivery[queue'[i]] = "stored", delivery[queue'[j]] = "stored"
             PROVE  queue'[i] < queue'[j]
  BY DEF Stored
<1>1. /\ i + 1 \in DOMAIN queue /\ queue'[i] = queue[i + 1]
      /\ j + 1 \in DOMAIN queue /\ queue'[j] = queue[j + 1] /\ i + 1 < j + 1
  BY QueuedNext
<1> QED
  BY <1>1 DEF Line, Stored

LEMMA SkipJobKeepsOrder ==
  ASSUME IInv, OInv, NEW w \in Workers, SkipJob(w)
  PROVE  OInv'
<1>0. Types /\ Followed
  BY DEF IInv, OInv
<1>1. /\ queue # <<>> /\ delivery[Head(queue)] # "stored" /\ queue' = Tail(queue)
      /\ UNCHANGED <<github, payloads, projecting, delivery, cleaned, rows, worker, sync, orderly>>
  BY DEF SkipJob, ghVars, envVars, syncVars
<1>2. TodoSound' /\ Followed'
  <2>1. TodoSound'
    BY <1>0, <1>1 DEF Followed, TodoSound
  <2> QED
    BY <2>1, <1>0, <1>1, FollowedKept
<1> SUFFICES ASSUME orderly PROVE sync = NoRead /\ RowsPast' /\ Line' /\ (projecting => Covered')
  BY <1>1, <1>2 DEF OInv, InOrder
<1>3. sync = NoRead /\ RowsPast /\ Line /\ (projecting => Covered)
  BY DEF OInv, InOrder
<1>4. \A e : /\ (Accepted(e)' <=> Accepted(e)) /\ (Stored(e)' <=> Stored(e)) /\ (Held(e)' <=> Held(e))
             /\ Queued(e)' => Queued(e)
             /\ Stored(e) /\ Queued(e) => Queued(e)'
  <2>1. \A e : /\ Queued(e)' => Queued(e)
               /\ Queued(e) /\ e # Head(queue) => Queued(e)'
    BY <1>0, <1>1, QueuedNext
  <2> QED
    BY <2>1, <1>1 DEF Accepted, Stored, Held
<1>5. Line'
  <2>1. \A i, j \in DOMAIN queue' : i < j /\ Stored(queue[i])' /\ Stored(queue[j])' => queue'[i] < queue'[j]
    BY <1>0, <1>1, <1>3, QueueStaysOrdered
  <2>2. \A v \in Workers : worker'[v] # Idle =>
           /\ Stored(worker[v].id)'
           /\ \A e \in Ids : Queued(e)' /\ Stored(e)' => worker'[v].id < e
    <3>1. \A v \in Workers : Stored(worker[v].id)' <=> Stored(worker[v].id)
      BY <1>1 DEF Stored
    <3> QED
      BY <3>1, <1>1, <1>3, <1>4 DEF Line
  <2>3. \A e \in Ids : Stored(e)' => Queued(e)' \/ Held(e)'
    BY <1>3, <1>4 DEF Line
  <2>4. \A a, e \in Ids : a < e /\ Accepted(e)' => Accepted(a)' /\ (Stored(a)' => Stored(e)')
    BY <1>3, <1>4 DEF Line
  <2> QED
    BY <2>1, <2>2, <2>3, <2>4 DEF Line
<1>6. projecting => Covered'
  <2>1. \A r : Same(r)' <=> Same(r)
    BY <1>1 DEF Same
  <2>2. \A e, r : ToWrite(e, r)' <=> ToWrite(e, r)
    BY <1>1 DEF ToWrite
  <2>3. \A e, r : Undone(e, r) => Undone(e, r)'
    BY <2>2, <1>4 DEF Undone
  <2> QED
    BY <2>1, <2>3, <1>1, <1>3 DEF Covered
<1>7. RowsPast'
  BY <1>1, <1>3 DEF RowsPast, Second
<1> QED
  BY <1>3, <1>5, <1>6, <1>7

LEMMA StartJobKeepsOrder ==
  ASSUME SingleWorker, IInv, OInv, NEW w \in Workers, StartJob(w)
  PROVE  OInv'
<1>0. Types /\ JobsOK /\ QueueOK /\ WorkersOK /\ Followed /\ TodoSound
  BY DEF IInv, OInv, Followed
<1> DEFINE d == Head(queue)
           todo == (IF projecting THEN Statements(payloads[d]) ELSE <<>>) \o <<Mark>>
           new == [id |-> d, fallback |-> FALSE, todo |-> todo]
<1>1. /\ worker[w] = Idle /\ queue # <<>> /\ delivery[d] = "stored" /\ queue' = Tail(queue)
      /\ worker' = [worker EXCEPT ![w] = new]
      /\ UNCHANGED <<github, payloads, projecting, delivery, cleaned, rows, sync, orderly>>
  BY DEF StartJob, ghVars, envVars, syncVars
<1>2. /\ 1 \in DOMAIN queue /\ d = queue[1] /\ d \in Ids
      /\ \A e : Queued(e)' => Queued(e) /\ \E i \in DOMAIN queue : 1 < i /\ queue[i] = e
      /\ \A e : Queued(e) /\ e # d => Queued(e)'
  <2> HIDE DEF todo, new
  <2> QED
    BY <1>0, <1>1, QueuedNext
<1>3. d \in DOMAIN payloads /\ payloads[d] \in Payloads /\ Meaningful(payloads[d]) /\ Real(payloads[d])
  <2>1. Accepted(d)
    BY <1>1 DEF Accepted
  <2> HIDE DEF d
  <2> QED
    BY <2>1, <1>0, <1>2, PayloadFacts DEF JobsOK, Followed, Families
<1>4. /\ \A i \in DOMAIN todo : Sound(payloads[d], todo[i])
      /\ projecting => \A r \in Kinds : Touches(payloads[d], r) => \E i \in DOMAIN todo : Hits(todo[i], r)
  <2>1. PICK t : t = todo
    OBVIOUS
  <2>2. PICK p : p = payloads[d]
    OBVIOUS
  <2>3. p \in Payloads /\ Meaningful(p) /\ Real(p)
    BY <1>3, <2>2
  <2>4. t = (IF projecting THEN Statements(p) ELSE <<>>) \o <<Mark>>
    BY <2>1, <2>2
  <2>5. /\ \A i \in DOMAIN t : Sound(p, t[i])
        /\ projecting => \A r \in Kinds : Touches(p, r) => \E i \in DOMAIN t : Hits(t[i], r)
    BY <2>3, <2>4, TodoSays
  <2> HIDE DEF todo, d
  <2> QED
    BY <2>1, <2>2, <2>5
<1>5. new.id = d /\ new.todo = todo /\ new # Idle
  <2>1. new.id = d /\ new.todo = todo
    OBVIOUS
  <2>2. d # 0
    BY <1>2 DEF Ids
  <2> QED
    BY <2>1, <2>2 DEF Idle
<1> HIDE DEF todo, new, d
<1>6. worker'[w] = new /\ \A v \in Workers : v = w
  BY <1>0, <1>1 DEF Types, SingleWorker
<1>7. Followed'
  <2>1. TodoSound'
    BY <1>0, <1>1, <1>4, <1>5, <1>6 DEF TodoSound
  <2> QED
    BY <2>1, <1>0, <1>1, FollowedKept
<1> SUFFICES ASSUME orderly PROVE sync = NoRead /\ RowsPast' /\ Line' /\ (projecting => Covered')
  BY <1>1, <1>7 DEF OInv, InOrder
<1>8. sync = NoRead /\ RowsPast /\ Line /\ (projecting => Covered)
  BY DEF OInv, InOrder
<1>9. \A e : (Accepted(e)' <=> Accepted(e)) /\ (Stored(e)' <=> Stored(e)) /\ ~Held(e)
  BY <1>1, <1>6 DEF Accepted, Stored, Held
<1>10. \A e : e = d => Held(e)'
  BY <1>5, <1>6 DEF Held
<1>11. Line'
  <2>1. \A i, j \in DOMAIN queue' : i < j /\ Stored(queue[i])' /\ Stored(queue[j])' => queue'[i] < queue'[j]
    BY <1>0, <1>1, <1>8, QueueStaysOrdered
  <2>2. \A v \in Workers : worker'[v] # Idle =>
           /\ Stored(worker[v].id)'
           /\ \A e \in Ids : Queued(e)' /\ Stored(e)' => worker'[v].id < e
    BY <1>1, <1>2, <1>5, <1>6, <1>8, <1>9 DEF Line, Stored
  <2>3. \A e \in Ids : Stored(e)' => Queued(e)' \/ Held(e)'
    BY <1>2, <1>8, <1>9, <1>10 DEF Line
  <2>4. \A a, e \in Ids : a < e /\ Accepted(e)' => Accepted(a)' /\ (Stored(a)' => Stored(e)')
    BY <1>8, <1>9 DEF Line
  <2> QED
    BY <2>1, <2>2, <2>3, <2>4 DEF Line
<1>12. projecting => Covered'
  <2> SUFFICES ASSUME projecting, NEW r \in Kinds, ~Same(r)'
               PROVE  \E e \in DOMAIN payloads : Touches(payloads[e], r) /\ Undone(e, r)'
    BY <1>1 DEF Covered
  <2>1. ~Same(r)
    BY <1>1 DEF Same
  <2>2. PICK e \in DOMAIN payloads : Touches(payloads[e], r) /\ Undone(e, r)
    BY <2>1, <1>8 DEF Covered
  <2>3. ~ToWrite(e, r)
    BY <1>1, <1>6 DEF ToWrite
  <2>4. CASE ~Accepted(e)
    BY <2>2, <2>4, <1>9 DEF Undone
  <2>5. CASE Stored(e) /\ Queued(e) /\ e # d
    BY <2>2, <2>5, <1>2, <1>9 DEF Undone
  <2>6. CASE e = d
    <3>1. ToWrite(e, r)'
      BY <2>2, <2>6, <1>4, <1>5, <1>6 DEF ToWrite
    <3> QED
      BY <3>1, <2>2 DEF Undone
  <2> QED
    BY <2>2, <2>3, <2>4, <2>5, <2>6 DEF Undone
<1>13. RowsPast'
  BY <1>1, <1>8 DEF RowsPast, Second
<1> QED
  BY <1>8, <1>11, <1>12, <1>13

(* A worker that does a statement has the others left.                     *)
LEMMA WorkLeft ==
  ASSUME Types, WorkersOK, TodoSound, NEW w \in Workers, worker[w] # Idle, Advance(w),
         UNCHANGED payloads
  PROVE  /\ TodoSound'
         /\ \A v \in Workers :
                worker'[v].id = worker[v].id /\ (worker'[v] # Idle <=> worker[v] # Idle)
         /\ \A d : \A r : ~Hits(Statement(w), r) /\ ToWrite(d, r) => ToWrite(d, r)'
<1> DEFINE todo == worker[w].todo
           new == [worker[w] EXCEPT !.todo = Tail(todo)]
           n == Len(todo)
<1>1. /\ worker[w] \in WorkerRecords /\ Statement(w) = todo[1]
      /\ DOMAIN todo = 1 .. n /\ n \in Nat \ {0}
      /\ DOMAIN Tail(todo) = 1 .. n - 1
      /\ \A i \in 1 .. n - 1 : Tail(todo)[i] = todo[i + 1]
  BY StatementFacts
<1>2. worker' = [worker EXCEPT ![w] = new] /\ worker \in [Workers -> WorkerRecords]
  BY DEF Advance, Types
<1>3. new.id = worker[w].id /\ new.todo = Tail(todo)
  BY <1>1 DEF WorkerRecords
<1> HIDE DEF new
<1>4. worker'[w] = new /\ \A v \in Workers : v # w => worker'[v] = worker[v]
  BY <1>2
<1>5. new # Idle
  <2>1. worker[w].id \in Ids
    BY DEF WorkersOK
  <2> QED
    BY <2>1, <1>3 DEF Idle, Ids
<1> HIDE DEF todo, n
<1>6. \A i \in 1 .. n - 1 : i + 1 \in 1 .. n
  BY <1>1
<1>7. \A i \in 1 .. n : i # 1 => i - 1 \in 1 .. n - 1 /\ (i - 1) + 1 = i
  BY <1>1
<1>8. \A i \in DOMAIN new.todo : Sound(payloads[new.id], new.todo[i])
  BY <1>1, <1>3, <1>6 DEF TodoSound, todo
<1>9. TodoSound'
  BY <1>2, <1>8, TodoSoundKept
<1>10. \A v \in Workers : worker'[v].id = worker[v].id /\ (worker'[v] # Idle <=> worker[v] # Idle)
  BY <1>3, <1>4, <1>5
<1>11. ASSUME NEW d, NEW r, ~Hits(Statement(w), r), ToWrite(d, r)
       PROVE  ToWrite(d, r)'
  <2>1. PICK v \in Workers : /\ worker[v] # Idle /\ worker[v].id = d
                             /\ \E i \in DOMAIN worker[v].todo : Hits(worker[v].todo[i], r)
    BY <1>11 DEF ToWrite
  <2>2. CASE v # w
    BY <2>1, <2>2, <1>4 DEF ToWrite
  <2>3. CASE v = w
    <3>1. PICK i \in 1 .. n : Hits(todo[i], r)
      BY <2>1, <2>3, <1>1 DEF todo
    <3>2. i # 1
      BY <3>1, <1>1, <1>11
    <3>3. i - 1 \in DOMAIN new.todo /\ new.todo[i - 1] = todo[i]
      BY <3>2, <1>1, <1>3, <1>7
    <3>4. \E j \in DOMAIN new.todo : Hits(new.todo[j], r)
      BY <3>1, <3>3
    <3> QED
      BY <2>1, <2>3, <3>4, <1>3, <1>4, <1>5 DEF ToWrite
  <2> QED
    BY <2>2, <2>3
<1> QED
  BY <1>9, <1>10, <1>11

(* What a later delivery changes too is written when that one is done; the *)
(* last that changes an object says how GitHub is.                         *)
LEMMA WorkKeepsOrder ==
  ASSUME SingleWorker, IInv, OInv, NEW w \in Workers, worker[w] # Idle, Advance(w),
         \A r \in Kinds : ~Hits(Statement(w), r) => rows'[r] = rows[r],
         \A r \in Kinds : Hits(Statement(w), r) =>
             \/ rows'[r] = Gives(payloads[worker[w].id], r)
             \/ /\ rows'[r] = rows[r] /\ r \in Gated
                /\ Gives(payloads[worker[w].id], r).at <= rows[r].at
                /\ Gives(payloads[worker[w].id], r) # Absent,
         UNCHANGED <<github, payloads, projecting, delivery, cleaned, queue, sync, orderly>>
  PROVE  OInv'
<1>0. Types /\ JobsOK /\ WorkersOK /\ Followed /\ TodoSound
  BY DEF IInv, OInv, Followed
<1>1. /\ TodoSound'
      /\ \A v \in Workers :
             worker'[v].id = worker[v].id /\ (worker'[v] # Idle <=> worker[v] # Idle)
      /\ \A d : \A r : ~Hits(Statement(w), r) /\ ToWrite(d, r) => ToWrite(d, r)'
  BY <1>0, WorkLeft
<1>2. Followed'
  BY <1>0, <1>1, FollowedKept
<1> SUFFICES ASSUME orderly PROVE sync = NoRead /\ RowsPast' /\ Line' /\ (projecting => Covered')
  BY <1>2 DEF OInv, InOrder
<1>3. sync = NoRead /\ RowsPast /\ Line /\ (projecting => Covered)
  BY DEF OInv, InOrder
<1>4. PICK d : d = worker[w].id
  OBVIOUS
<1>5. d \in DOMAIN payloads /\ d \in Ids
  BY <1>0, <1>4, WorkersKnow
<1>6. \A r \in Kinds : Hits(Statement(w), r) => Touches(payloads[d], r)
  <2>1. Statement(w) = worker[w].todo[1] /\ 1 \in DOMAIN worker[w].todo
    BY <1>0, StatementFacts
  <2> QED
    BY <2>1, <1>0, <1>4 DEF TodoSound, Sound
<1>7. Line' /\ \A e, r : Undone(e, r) /\ (ToWrite(e, r) => ToWrite(e, r)') => Undone(e, r)'
  BY <1>1, <1>3, LineKept
<1>8. RowsPast'
  <2> SUFFICES ASSUME NEW r \in Kinds
               PROVE  rows'[r].at <= Second /\ (github[r] # Absent => rows'[r].at <= github[r].at)
    BY DEF RowsPast, Second
  <2>1. rows[r].at <= Second /\ (github[r] # Absent => rows[r].at <= github[r].at)
    BY <1>3 DEF RowsPast
  <2>2. CASE rows'[r] = rows[r]
    BY <2>1, <2>2
  <2>3. CASE rows'[r] # rows[r]
    <3>1. Hits(Statement(w), r) /\ rows'[r] = Gives(payloads[d], r) /\ Touches(payloads[d], r)
      BY <2>3, <1>4, <1>6
    <3>2. /\ Gives(payloads[d], r).at <= Second
          /\ github[r] # Absent => Gives(payloads[d], r).at <= github[r].at
      BY <3>1, <1>0, <1>5 DEF Followed, Seconds
    <3> QED
      BY <3>1, <3>2
  <2> QED
    BY <2>2, <2>3
<1>9. ASSUME NEW e \in DOMAIN payloads, e > d, NEW r
      PROVE  Undone(e, r)'
  <2>1. e \in Ids
    BY <1>0, PayloadFacts
  <2>2. CASE ~Accepted(e)
    BY <2>2, <1>7 DEF Undone, Accepted
  <2>3. CASE Accepted(e)
    <3>1. Stored(d)
      BY <1>3, <1>4 DEF Line
    <3>2. d < e
      BY <1>5, <1>9, <2>1 DEF Ids
    <3>3. Stored(e)
      BY <2>1, <2>3, <3>1, <3>2, <1>3, <1>5 DEF Line
    <3>4. ~Held(e)
      BY <1>4, <3>2, <1>5 DEF Held, SingleWorker, Ids
    <3>5. Queued(e)
      BY <2>1, <3>3, <3>4, <1>3 DEF Line
    <3> QED
      BY <3>3, <3>5 DEF Undone, Stored, Queued
  <2> QED
    BY <2>2, <2>3
<1>10. ASSUME projecting, NEW r \in Kinds, ~Same(r)'
       PROVE  \E e \in DOMAIN payloads : Touches(payloads[e], r) /\ Undone(e, r)'
  <2>1. CASE ~Hits(Statement(w), r)
    <3>1. ~Same(r)
      BY <2>1, <1>10 DEF Same
    <3>2. PICK e \in DOMAIN payloads : Touches(payloads[e], r) /\ Undone(e, r)
      BY <3>1, <1>3, <1>10 DEF Covered
    <3>3. ToWrite(e, r) => ToWrite(e, r)'
      BY <2>1, <1>1
    <3> QED
      BY <3>2, <3>3, <1>7
  <2>2. CASE Hits(Statement(w), r)
    <3>1. CASE \E e \in DOMAIN payloads : e > d /\ Touches(payloads[e], r)
      BY <3>1, <1>9
    <3>2. CASE ~\E e \in DOMAIN payloads : e > d /\ Touches(payloads[e], r)
      <4>1. Touches(payloads[d], r) /\ github[r] = Gives(payloads[d], r)
        BY <2>2, <3>2, <1>0, <1>5, <1>6 DEF Followed, LastTold
      <4>2. CASE rows'[r] = Gives(payloads[d], r)
        BY <4>1, <4>2, <1>10 DEF Same
      <4>3. CASE /\ rows'[r] = rows[r] /\ r \in Gated
                 /\ Gives(payloads[d], r).at <= rows[r].at /\ Gives(payloads[d], r) # Absent
        <5>1. github[r].at <= rows[r].at /\ rows[r].at <= github[r].at
          BY <4>1, <4>3, <1>3 DEF RowsPast
        <5>2. github[r].at \in Nat /\ rows[r].at \in Nat
          BY <1>0, VersionFacts, KindFacts DEF Types
        <5>3. rows[r].at = github[r].at
          BY <5>1, <5>2
        <5> QED
          BY <4>3, <5>3, <1>10 DEF Same
      <4> QED
        BY <2>2, <4>2, <4>3, <1>4
    <3> QED
      BY <3>1, <3>2
  <2> QED
    BY <2>1, <2>2
<1> QED
  BY <1>3, <1>7, <1>8, <1>10 DEF Covered

LEMMA ProjectKeepsOrder ==
  ASSUME SingleWorker, IInv, OInv, NEW w \in Workers, Project(w)
  PROVE  OInv'
<1>0. Types /\ JobsOK /\ WorkersOK /\ TodoSound
  BY DEF IInv, OInv, Followed
<1> DEFINE s == Statement(w)
<1>1. /\ worker[w] # Idle /\ s[1] \in {"upsert", "delete", "repository"}
      /\ rows' = Applied(rows, s) /\ Advance(w)
      /\ UNCHANGED <<github, payloads, projecting, delivery, cleaned, queue, sync, orderly>>
  BY DEF Project, ghVars, envVars, syncVars
<1>2. s \in StatementSet /\ s = worker[w].todo[1] /\ 1 \in DOMAIN worker[w].todo
  BY <1>0, <1>1, StatementFacts
<1>3. \A r \in Kinds : Hits(s, r) => Puts(s, Gives(payloads[worker[w].id], r))
  BY <1>0, <1>1, <1>2 DEF TodoSound, Sound
<1> DEFINE Writes(r) ==
             /\ ~Hits(s, r) => rows'[r] = rows[r]
             /\ Hits(s, r) =>
                  \/ rows'[r] = Gives(payloads[worker[w].id], r)
                  \/ /\ rows'[r] = rows[r] /\ r \in Gated
                     /\ Gives(payloads[worker[w].id], r).at <= rows[r].at
                     /\ Gives(payloads[worker[w].id], r) # Absent
<1> HIDE DEF s
<1>4. ASSUME NEW r \in Kinds PROVE Writes(r)
  <2>1. CASE s[1] = "repository"
    <3>1. rows' = rows
      BY <1>1, <2>1 DEF Applied
    <3>2. ~Hits(s, r)
      BY <2>1 DEF Hits
    <3> QED
      BY <3>1, <3>2
  <2>2. CASE s[1] # "repository"
    <3>1. s \in ObjectSet /\ rows \in [Rows -> Versions]
      BY <1>0, <1>1, <1>2, <2>2 DEF StatementSet, EffectSet, Mark, Repository, Types
    <3>2. PICK v : v = Gives(payloads[worker[w].id], r)
      OBVIOUS
    <3>3. /\ ~Hits(s, r) => rows'[r] = rows[r]
          /\ Hits(s, r) => \/ rows'[r] = v
                           \/ /\ rows'[r] = rows[r] /\ r \in Gated
                              /\ v.at <= rows[r].at /\ v # Absent
      BY <3>1, <3>2, <1>1, <1>3, AppliedHits
    <3> QED
      BY <3>2, <3>3
  <2> QED
    BY <2>1, <2>2
<1> QED
  BY <1>1, <1>4, WorkKeepsOrder DEF s

LEMMA FollowUpKeepsOrder ==
  ASSUME SingleWorker, IInv, OInv, NEW w \in Workers, FollowUp(w)
  PROVE  OInv'
<1>1. /\ worker[w] # Idle /\ Statement(w)[1] = "effect" /\ Advance(w)
      /\ UNCHANGED <<github, payloads, projecting, delivery, cleaned, queue, rows, sync, orderly>>
  BY DEF FollowUp, ghVars, envVars, syncVars
<1>2. \A r \in Kinds : ~Hits(Statement(w), r)
  BY <1>1 DEF Hits
<1> QED
  BY <1>1, <1>2, WorkKeepsOrder

(* A push writes no object's row, neither before nor after it falls back.  *)
LEMMA PushFallsBackKeepsOrder ==
  ASSUME SingleWorker, IInv, OInv, NEW w \in Workers, PushFallsBack(w)
  PROVE  OInv'
<1>0. Types /\ JobsOK /\ WorkersOK /\ Followed /\ TodoSound
  BY DEF IInv, OInv, Followed
<1> DEFINE left == << Effect("note"), Mark >>
           new == [worker[w] EXCEPT !.todo = left, !.fallback = TRUE]
<1>1. /\ worker[w] # Idle /\ payloads[worker[w].id].kind = "push"
      /\ worker' = [worker EXCEPT ![w] = new]
      /\ UNCHANGED <<github, payloads, projecting, delivery, cleaned, rows, queue, sync, orderly>>
  BY DEF PushFallsBack, ghVars, envVars, syncVars
<1>2. worker[w] \in WorkerRecords /\ worker \in [Workers -> WorkerRecords] /\ worker[w].id \in Ids
  BY <1>0, <1>1 DEF Types, WorkersOK
<1>3. new.id = worker[w].id /\ new.todo = left
  BY <1>2 DEF WorkerRecords
<1>4. DOMAIN left = {1, 2} /\ left[1] = Effect("note") /\ left[2] = Mark
  OBVIOUS
<1>5. \A i \in DOMAIN left : \A r : ~Hits(left[i], r)
  BY <1>4 DEF Hits, Effect, Mark
<1> HIDE DEF left, new
<1>6. new # Idle /\ \A i \in DOMAIN new.todo : Sound(payloads[new.id], new.todo[i])
  BY <1>2, <1>3, <1>5 DEF Idle, Ids, Sound
<1>7. TodoSound'
  BY <1>0, <1>1, <1>2, <1>6, TodoSoundKept
<1>8. Followed'
  BY <1>0, <1>1, <1>7, FollowedKept
<1>9. \A v \in Workers : /\ worker'[v].id = worker[v].id /\ (worker'[v] # Idle <=> worker[v] # Idle)
                         /\ v # w => worker'[v] = worker[v]
  BY <1>1, <1>2, <1>3, <1>6
<1> SUFFICES ASSUME orderly PROVE sync = NoRead /\ RowsPast' /\ Line' /\ (projecting => Covered')
  BY <1>1, <1>8 DEF OInv, InOrder
<1>10. sync = NoRead /\ RowsPast /\ Line /\ (projecting => Covered)
  BY DEF OInv, InOrder
<1>11. Line' /\ \A e, r : Undone(e, r) /\ (ToWrite(e, r) => ToWrite(e, r)') => Undone(e, r)'
  BY <1>1, <1>9, <1>10, LineKept
<1>12. \A e \in DOMAIN payloads, r \in Kinds :
          Touches(payloads[e], r) /\ ToWrite(e, r) => ToWrite(e, r)'
  <2> SUFFICES ASSUME NEW e \in DOMAIN payloads, NEW r \in Kinds, Touches(payloads[e], r), ToWrite(e, r)
               PROVE  FALSE
    OBVIOUS
  <2>1. e = worker[w].id
    BY DEF ToWrite, SingleWorker
  <2> QED
    BY <2>1, <1>1 DEF Touches, Kinds
<1>13. projecting => Covered'
  <2>1. \A r : Same(r)' <=> Same(r)
    BY <1>1 DEF Same
  <2> QED
    BY <2>1, <1>1, <1>10, <1>11, <1>12 DEF Covered
<1>14. RowsPast'
  BY <1>1, <1>10 DEF RowsPast, Second
<1> QED
  BY <1>10, <1>11, <1>13, <1>14

(* A delivery is marked when nothing of it is left to write, and it is the *)
(* first of those that are stored.                                         *)
LEMMA MarkProcessedKeepsOrder ==
  ASSUME SingleWorker, IInv, OInv, NEW w \in Workers, MarkProcessed(w)
  PROVE  OInv'
<1>0. Types /\ JobsOK /\ WorkersOK /\ Followed /\ TodoSound
  BY DEF IInv, OInv, Followed
<1>1. PICK d : d = worker[w].id
  OBVIOUS
<1>2. /\ worker[w] # Idle /\ Statement(w) = Mark
      /\ delivery' = [delivery EXCEPT ![d] = IF @ = "stored" THEN "processed" ELSE @]
      /\ worker' = [worker EXCEPT ![w] = Idle]
      /\ UNCHANGED <<github, payloads, projecting, cleaned, rows, queue, sync, orderly>>
  BY <1>1 DEF MarkProcessed, ghVars, syncVars
<1>3. worker \in [Workers -> WorkerRecords] /\ d \in Ids
  BY <1>0, <1>1, <1>2 DEF Types, WorkersOK
<1>4. worker'[w] = Idle /\ \A v \in Workers : v = w
  BY <1>2, <1>3 DEF SingleWorker
<1>5. TodoSound' /\ Followed'
  <2>1. TodoSound'
    BY <1>4 DEF TodoSound
  <2> QED
    BY <2>1, <1>0, <1>2, FollowedKept
<1> SUFFICES ASSUME orderly PROVE sync = NoRead /\ RowsPast' /\ Line' /\ (projecting => Covered')
  BY <1>2, <1>5 DEF OInv, InOrder
<1>6. sync = NoRead /\ RowsPast /\ Line /\ (projecting => Covered)
  BY DEF OInv, InOrder
<1>7. Stored(d) /\ \A e \in Ids : Queued(e) /\ Stored(e) => d < e
  BY <1>1, <1>2, <1>6 DEF Line
<1>8. \A e \in Ids : /\ Accepted(e)' <=> Accepted(e)
                     /\ Stored(e)' <=> Stored(e) /\ e # d
                     /\ Held(e) => e = d
  <2>1. delivery'[d] = "processed" /\ \A e \in Ids : e # d => delivery'[e] = delivery[e]
    BY <1>0, <1>2, <1>3, <1>7 DEF Types, Stored
  <2> QED
    BY <2>1, <1>1, <1>2, <1>4, <1>7 DEF Accepted, Stored, Held
<1>9. \A e : Queued(e)' <=> Queued(e)
  BY <1>2 DEF Queued
<1>10. Line'
  <2>1. ASSUME NEW a \in Ids, NEW e \in Ids, a < e, Accepted(e)'
        PROVE  Accepted(a)' /\ (Stored(a)' => Stored(e)')
    <3>1. Accepted(a) /\ (Stored(a) => Stored(e))
      BY <2>1, <1>6, <1>8 DEF Line
    <3>2. Stored(a)' => e # d
      <4> SUFFICES ASSUME Stored(a)', e = d PROVE FALSE
        OBVIOUS
      <4>1. Stored(a) /\ a # d
        BY <1>8
      <4>2. Queued(a)
        BY <4>1, <1>6, <1>8 DEF Line
      <4>3. d < a
        BY <4>1, <4>2, <1>7
      <4> QED
        BY <4>3, <2>1 DEF Ids
    <3> QED
      BY <3>1, <3>2, <1>8
  <2>2. \A i \in DOMAIN queue : queue[i] \in Ids
    BY <1>0, RecordFacts
  <2>3. \A i \in DOMAIN queue' : Stored(queue[i])' => Stored(queue[i])
    <3> SUFFICES ASSUME NEW i \in DOMAIN queue, delivery'[queue[i]] = "stored"
                 PROVE  delivery[queue[i]] = "stored"
      BY <1>2 DEF Stored
    <3>1. PICK x : x = queue[i]
      OBVIOUS
    <3>2. x \in Ids /\ Stored(x)'
      BY <3>1, <2>2 DEF Stored
    <3> QED
      BY <3>1, <3>2, <1>8 DEF Stored
  <2>4. \A i, j \in DOMAIN queue' : i < j /\ Stored(queue[i])' /\ Stored(queue[j])' => queue'[i] < queue'[j]
    BY <2>3, <1>2, <1>6 DEF Line
  <2>5. \A v \in Workers : worker'[v] # Idle =>
           /\ Stored(worker[v].id)'
           /\ \A e \in Ids : Queued(e)' /\ Stored(e)' => worker'[v].id < e
    BY <1>4
  <2>6. \A e \in Ids : Stored(e)' => Queued(e)' \/ Held(e)'
    BY <1>6, <1>8, <1>9 DEF Line
  <2> QED
    BY <2>1, <2>4, <2>5, <2>6 DEF Line
<1>11. \A e, r : ~ToWrite(e, r)
  <2>1. /\ \A i \in DOMAIN worker[w].todo : worker[w].todo[i] = Mark <=> i = Len(worker[w].todo)
        /\ Statement(w) = worker[w].todo[1]
        /\ DOMAIN worker[w].todo = 1 .. Len(worker[w].todo) /\ 1 \in DOMAIN worker[w].todo
    BY <1>0, <1>2, StatementFacts DEF TodoOK
  <2>2. Len(worker[w].todo) = 1
    BY <2>1, <1>2
  <2>3. \A i \in DOMAIN worker[w].todo : worker[w].todo[i] = Mark
    BY <2>1, <2>2
  <2>4. \A r : ~Hits(Mark, r)
    BY DEF Hits, Mark
  <2> QED
    BY <2>3, <2>4, <1>4 DEF ToWrite
<1>12. projecting => Covered'
  <2>1. \A r : Same(r)' <=> Same(r)
    BY <1>2 DEF Same
  <2>2. \A e \in Ids : \A r : Undone(e, r) => Undone(e, r)'
    <3> SUFFICES ASSUME NEW e \in Ids, NEW r, Undone(e, r) PROVE Undone(e, r)'
      OBVIOUS
    <3>1. CASE ~Accepted(e)
      BY <3>1, <1>8 DEF Undone
    <3>2. CASE Stored(e) /\ Queued(e)
      <4>1. e # d
        BY <3>2, <1>3, <1>7 DEF Ids
      <4> QED
        BY <3>2, <4>1, <1>8, <1>9 DEF Undone
    <3> QED
      BY <3>1, <3>2, <1>11 DEF Undone
  <2>3. \A e \in DOMAIN payloads : e \in Ids
    BY <1>0, PayloadFacts
  <2> QED
    BY <2>1, <2>2, <2>3, <1>2, <1>6 DEF Covered
<1>13. RowsPast'
  BY <1>2, <1>6 DEF RowsPast, Second
<1> QED
  BY <1>6, <1>10, <1>12, <1>13

LEMMA NextOInv == SingleWorker /\ IInv /\ OInv /\ [Next]_vars => OInv'
<1> SUFFICES ASSUME SingleWorker, IInv, OInv, [Next]_vars PROVE OInv'
  OBVIOUS
<1>1. CASE GitHub
  BY <1>1, GitHubKeepsOrder
<1>2. CASE Job
  BY <1>2, StartJobKeepsOrder, ProjectKeepsOrder, FollowUpKeepsOrder, PushFallsBackKeepsOrder,
     SkipJobKeepsOrder, MarkProcessedKeepsOrder, DisorderlyKeep DEF Job
<1>3. CASE River
  BY <1>3, RetryJobKeepsOrder, CleanUpKeepsOrder DEF River
<1>4. ASSUME NEW d \in Ids, HandleWebhook(d) PROVE OInv'
  BY <1>4, HandleWebhookKeepsOrder
<1>5. CASE Restart \/ StoreRead \/ \E k \in Kinds \cap Events : ReadGitHub(k)
  BY <1>5, DisorderlyKeep
<1>6. CASE UNCHANGED vars
  <2>1. UNCHANGED <<github, payloads, projecting, delivery, cleaned, queue, rows, worker, sync, orderly>>
    BY <1>6 DEF vars
  <2>2. TodoSound' /\ Followed'
    <3>1. TodoSound'
      BY <2>1 DEF OInv, Followed, TodoSound
    <3> QED
      BY <2>1, <3>1, FollowedKept DEF OInv
  <2>3. \A e, r : ToWrite(e, r)' <=> ToWrite(e, r)
    BY <2>1 DEF ToWrite
  <2>4. Line => Line' /\ \A e, r : Undone(e, r) => Undone(e, r)'
    BY <2>1, <2>3, LineKept
  <2>5. \A r : Same(r)' <=> Same(r)
    BY <2>1 DEF Same
  <2>6. RowsPast => RowsPast'
    BY <2>1 DEF RowsPast, Second
  <2>7. Line /\ Covered => Covered'
    BY <2>1, <2>4, <2>5 DEF Covered
  <2> QED
    BY <2>1, <2>2, <2>4, <2>6, <2>7 DEF OInv, InOrder
<1> QED
  BY <1>1, <1>2, <1>3, <1>4, <1>5, <1>6 DEF Next

(* When every delivery arrived in order, no job failed and nothing else    *)
(* wrote, the drained queue of one worker leaves the mirror as GitHub is,  *)
(* for any number of changes, deletions and seconds they fall into.        *)
THEOREM OrderSettles ==
  ASSUME SingleWorker
  PROVE  Spec => []InOrderSettles
<1>1. IInv /\ OInv => InOrderSettles
  <2> SUFFICES ASSUME IInv, OInv, orderly, projecting, \A d \in Ids : ~Pending(d),
                      \A d \in DOMAIN payloads : Accepted(d), NEW k \in Kinds
               PROVE  Same(k)
    BY DEF InOrderSettles, Same
  <2>1. /\ Covered /\ QueueOK /\ WorkersOK
        /\ \A d \in DOMAIN payloads : d \in Ids
    BY PayloadFacts DEF OInv, InOrder, IInv
  <2> SUFFICES ASSUME NEW d \in DOMAIN payloads, Undone(d, k) PROVE FALSE
    BY <2>1 DEF Covered
  <2>2. CASE Queued(d)
    BY <2>1, <2>2 DEF QueueOK, Queued, Pending
  <2>3. CASE ToWrite(d, k)
    BY <2>1, <2>3 DEF WorkersOK, ToWrite, Pending
  <2> QED
    BY <2>2, <2>3 DEF Undone
<1>2. IInv /\ OInv /\ [Next]_vars => IInv' /\ OInv'
  BY NextIInv, NextOInv
<1>3. Spec => [](IInv /\ OInv)
  BY <1>2, InitIInv, InitOInv, PTL DEF Spec
<1> QED
  BY <1>1, <1>3, PTL
=============================================================================
