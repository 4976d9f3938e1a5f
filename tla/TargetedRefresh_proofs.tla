------------------------ MODULE TargetedRefresh_proofs ------------------------
(***************************************************************************)
(* TargetedRefresh!IInv is an invariant of the queue of targeted           *)
(* refreshes, for any pull requests, servers (overlapping or not), number  *)
(* of attempts and deliveries.  With it, a pending refresh is shown as     *)
(* pending unless it began to wait while a completion that had counted     *)
(* none was not committed.  The part of IInv that is about types and       *)
(* attempts (Kept) comes first, the part about the flag second.            *)
(***************************************************************************)
EXTENDS TargetedRefresh, TLAPS

RowType == [asked : BOOLEAN, served : BOOLEAN, attempts : 0..MaxAttempts, due : BOOLEAN,
            parked : BOOLEAN, owner : Servers \cup {NoOne}, quiet : BOOLEAN]
RequestType == [stage : Stages, pr : PRs \cup {NoOne}, after : BOOLEAN]
WorkerType == [pc : Phases, pr : PRs \cup {NoOne}, attempts : 0..MaxAttempts, rev : 0..MaxChanges,
               ok : BOOLEAN, later : SUBSET Deliveries, newer : BOOLEAN, pending : BOOLEAN]

Kept == TypeOK /\ WorkersOK /\ RequestsOK /\ SpentAreParked

\* TypeOK, with the three record types named.
LEMMA Types ==
  TypeOK <=> /\ github \in [PRs -> 0..MaxChanges]
             /\ indexed \in [PRs -> 0..MaxChanges]
             /\ row \in [PRs -> RowType]
             /\ flag \in BOOLEAN
             /\ requests \in [Deliveries -> RequestType]
             /\ repairs \in BOOLEAN
             /\ worker \in [Servers -> WorkerType]
             /\ crossed \in BOOLEAN
BY DEF TypeOK, RowType, RequestType, WorkerType

\* The records of a worker that has no row.
LEMMA IdleOK ==
  /\ IdleWorker \in WorkerType
  /\ IdleWorker.attempts = 0 /\ IdleWorker.pc = "idle"
  /\ \A c \in Phases : /\ [IdleWorker EXCEPT !.pc = c] \in WorkerType
                       /\ [IdleWorker EXCEPT !.pc = c].pc = c
                       /\ [IdleWorker EXCEPT !.pc = c].attempts = 0
<1>1. {} \in SUBSET Deliveries /\ 0 \in 0..MaxAttempts /\ 0 \in 0..MaxChanges
  BY AttemptsAssumption
<1>2. IdleWorker \in WorkerType /\ IdleWorker.attempts = 0 /\ IdleWorker.pc = "idle"
  BY <1>1 DEF IdleWorker, WorkerType, Phases
<1>3. \A c \in Phases : /\ [IdleWorker EXCEPT !.pc = c] \in WorkerType
                        /\ [IdleWorker EXCEPT !.pc = c].pc = c
                        /\ [IdleWorker EXCEPT !.pc = c].attempts = 0
  BY <1>2 DEF WorkerType
<1> QED
  BY <1>2, <1>3

\* The queue is empty, nothing is picked.
LEMMA InitKept == Init => Kept
<1> SUFFICES ASSUME Init PROVE Kept
  OBVIOUS
<1>1. NoRow \in RowType /\ ~NoRow.asked /\ NoRow.attempts = 0 /\ ~NoRow.parked
  BY AttemptsAssumption DEF NoRow, RowType
<1>2. NoRequest \in RequestType /\ NoRequest.stage = "none"
  BY DEF NoRequest, RequestType, Stages
<1>3. /\ [IdleWorker EXCEPT !.pc = "new"] \in WorkerType
      /\ [IdleWorker EXCEPT !.pc = "new"].pc = "new"
      /\ [IdleWorker EXCEPT !.pc = "new"].attempts = 0
  BY IdleOK DEF Phases
<1> DEFINE started == [IdleWorker EXCEPT !.pc = "new"]
<1> HIDE DEF started
<1>4. TypeOK
  <2>1. /\ github \in [PRs -> 0..MaxChanges]
        /\ indexed \in [PRs -> 0..MaxChanges]
    BY AttemptsAssumption DEF Init
  <2>2. row \in [PRs -> RowType] /\ requests \in [Deliveries -> RequestType]
    BY <1>1, <1>2 DEF Init
  <2>3. worker \in [Servers -> WorkerType]
    <3>1. worker = [w \in Servers |-> started]
      BY DEF Init, started
    <3>2. started \in WorkerType
      BY <1>3 DEF started
    <3> QED
      BY <3>1, <3>2
  <2>4. flag \in BOOLEAN /\ repairs \in BOOLEAN /\ crossed \in BOOLEAN
    BY DEF Init
  <2> QED
    BY <2>1, <2>2, <2>3, <2>4, Types
<1>5. WorkersOK
  <2>1. \A w \in Servers : worker[w] = started
    BY DEF Init, started
  <2>2. started.pc = "new" /\ started.attempts = 0
    BY <1>3 DEF started
  <2> QED
    BY <2>1, <2>2, AttemptsAssumption DEF WorkersOK, Busy
<1>6. RequestsOK
  BY <1>2 DEF Init, RequestsOK
<1>7. SpentAreParked
  BY <1>1, AttemptsAssumption DEF Init, SpentAreParked
<1> QED
  BY <1>4, <1>5, <1>6, <1>7 DEF Kept

\* What the invariant says of the rows survives a step that keeps their attempts.
LEMMA RowsKept ==
  ASSUME Kept,
         row' \in [PRs -> RowType],
         \A p \in PRs : row'[p].parked = row[p].parked /\ row'[p].attempts = row[p].attempts
  PROVE  SpentAreParked'
BY DEF Kept, SpentAreParked

\* GitHub, time and repairs pass the queue by.
LEMMA EnvironmentStep ==
  ASSUME Kept,
         \/ \E p \in PRs : Change(p) \/ LeaseRunsOut(p) \/ BackoffElapses(p)
         \/ RepairFallsDue \/ RepairEnds
  PROVE  Kept'
<1>1. CASE \E p \in PRs : Change(p)
  <2>1. PICK p \in PRs : Change(p)
    BY <1>1
  <2>2. PICK d \in Deliveries :
          requests' = [requests EXCEPT ![d] = [stage |-> "sent", pr |-> p, after |-> FALSE]]
    BY <2>1 DEF Change
  <2>3. [stage |-> "sent", pr |-> p, after |-> FALSE] \in RequestType
    BY DEF RequestType, Stages
  <2>4. UNCHANGED <<indexed, row, flag, repairs, worker, crossed>> /\ github' \in [PRs -> 0..MaxChanges]
    BY <2>1, AttemptsAssumption DEF Change, Kept, TypeOK
  <2>5. TypeOK'
    BY <2>2, <2>3, <2>4, Types DEF Kept, TypeOK, RequestType, RowType, WorkerType
  <2>6. RequestsOK'
    BY <2>2, Types DEF Kept, RequestsOK
  <2> QED
    BY <2>4, <2>5, <2>6 DEF Kept, WorkersOK, SpentAreParked
<1>2. CASE \E p \in PRs : LeaseRunsOut(p) \/ BackoffElapses(p)
  <2>1. PICK p \in PRs : LeaseRunsOut(p) \/ BackoffElapses(p)
    BY <1>2
  <2>2. UNCHANGED <<github, indexed, flag, requests, repairs, worker, crossed>>
    BY <2>1 DEF LeaseRunsOut, BackoffElapses
  <2>3. /\ row' \in [PRs -> RowType]
        /\ \A q \in PRs : row'[q].parked = row[q].parked /\ row'[q].attempts = row[q].attempts
    <3>1. CASE LeaseRunsOut(p)
      BY <3>1, Types DEF LeaseRunsOut, Kept, RowType
    <3>2. CASE BackoffElapses(p)
      BY <3>2, Types, ZenonT(60) DEF BackoffElapses, Kept, RowType
    <3> QED
      BY <2>1, <3>1, <3>2
  <2>4. TypeOK'
    BY <2>2, <2>3 DEF Kept, TypeOK, RowType
  <2> QED
    BY <2>2, <2>3, <2>4, RowsKept DEF Kept, WorkersOK, RequestsOK
<1>3. CASE RepairFallsDue \/ RepairEnds
  BY <1>3 DEF RepairFallsDue, RepairEnds, Kept, TypeOK, WorkersOK, RequestsOK, SpentAreParked
<1> QED
  BY <1>1, <1>2, <1>3

\* Every worker may take note of a delivery, which changes nothing else of it.
LEMMA NotedWorkers ==
  ASSUME Kept,
         \A w \in Servers : /\ worker'[w] \in WorkerType
                            /\ worker'[w].attempts = worker[w].attempts
                            /\ worker'[w].pc = worker[w].pc
                            /\ worker'[w].pr = worker[w].pr
  PROVE  WorkersOK'
BY DEF Kept, WorkersOK

\* Reading the clock changes the delivery, and who knows of it.
LEMMA DeliveryNoted ==
  ASSUME Kept, NEW d \in Deliveries, ReadClock(d) \/ EnqueueFails(d)
  PROVE  /\ worker' \in [Servers -> WorkerType]
         /\ \A w \in Servers : \E ds \in SUBSET Deliveries :
              worker'[w] = [worker[w] EXCEPT !.later = ds] \/ worker'[w] = worker[w]
<1>1. \A w \in Servers : worker[w] \in WorkerType /\ worker[w].later \in SUBSET Deliveries
  BY Types DEF Kept, WorkerType
<1>2. \A w \in Servers : \E ds \in SUBSET Deliveries :
        worker'[w] = [worker[w] EXCEPT !.later = ds] \/ worker'[w] = worker[w]
  <2> SUFFICES ASSUME NEW w \in Servers
               PROVE  \E ds \in SUBSET Deliveries :
                        worker'[w] = [worker[w] EXCEPT !.later = ds] \/ worker'[w] = worker[w]
    OBVIOUS
  <2> DEFINE more == worker[w].later \cup {d}
             less == worker[w].later \ {d}
  <2>1. more \in SUBSET Deliveries /\ less \in SUBSET Deliveries
    BY <1>1
  <2>2. \/ worker'[w] = worker[w]
        \/ worker'[w] = [worker[w] EXCEPT !.later = more]
        \/ worker'[w] = [worker[w] EXCEPT !.later = less]
    BY DEF ReadClock, EnqueueFails
  <2> HIDE DEF more, less
  <2> QED
    BY <2>1, <2>2
<1>3. worker' = [w \in Servers |-> worker'[w]]
  BY DEF ReadClock, EnqueueFails
<1>4. \A w \in Servers : worker'[w] \in WorkerType
  BY <1>1, <1>2 DEF WorkerType
<1> QED
  BY <1>2, <1>3, <1>4

LEMMA DeliveryStep ==
  ASSUME Kept, NEW d \in Deliveries, ReadClock(d) \/ EnqueueFails(d)
  PROVE  Kept'
<1>1. UNCHANGED <<github, indexed, row, flag, repairs, crossed>>
  BY DEF ReadClock, EnqueueFails
<1>2. /\ requests' \in [Deliveries -> RequestType]
      /\ \A e \in Deliveries : /\ requests'[e].pr = requests[e].pr
                               /\ requests'[e].stage # "none" => requests[e].stage # "none"
  <2>1. requests[d].stage # "none"
    BY DEF ReadClock, EnqueueFails
  <2>2. PICK c \in Stages, b \in BOOLEAN :
          requests' = [requests EXCEPT ![d].stage = c, ![d].after = b]
    <3> /\ "accepting" \in Stages /\ "processing" \in Stages
        /\ "sent" \in Stages /\ "queued" \in Stages
      BY DEF Stages
    <3>1. CASE ReadClock(d)
      BY <3>1 DEF ReadClock
    <3>2. CASE EnqueueFails(d)
      BY <3>2 DEF EnqueueFails
    <3> QED
      BY <3>1, <3>2
  <2> QED
    BY <2>1, <2>2, Types DEF Kept, RequestType
<1>3. worker' \in [Servers -> WorkerType]
  BY DeliveryNoted
<1>4. \A w \in Servers : /\ worker'[w].attempts = worker[w].attempts
                         /\ worker'[w].pc = worker[w].pc
                         /\ worker'[w].pr = worker[w].pr
  BY DeliveryNoted, Types DEF Kept, WorkerType
<1>5. WorkersOK'
  BY <1>3, <1>4, NotedWorkers
<1>6. TypeOK'
  BY <1>1, <1>2, <1>3 DEF Kept, TypeOK, RequestType, WorkerType
<1>7. RequestsOK'
  BY <1>2 DEF Kept, RequestsOK
<1> QED
  BY <1>1, <1>5, <1>6, <1>7 DEF Kept, SpentAreParked

\* The row a request leaves behind, and the two a finished refresh may.
LEMMA AskedRow ==
  ASSUME NEW r \in RowType, NEW s \in BOOLEAN, NEW n \in 0..MaxAttempts
  PROVE  LET asked == [r EXCEPT !.asked = TRUE, !.served = s, !.attempts = n, !.due = TRUE,
                                !.parked = FALSE]
         IN  asked \in RowType /\ asked.attempts = n /\ ~asked.parked
BY DEF RowType

LEMMA ServedRow ==
  ASSUME NEW r \in RowType, NEW n \in 0..MaxAttempts, NEW b \in BOOLEAN
  PROVE  LET served == [r EXCEPT !.owner = NoOne, !.quiet = FALSE, !.served = b, !.attempts = n,
                                 !.due = TRUE, !.parked = FALSE]
         IN  served \in RowType /\ served.attempts = n /\ ~served.parked
BY DEF RowType

LEMMA TriedRow ==
  ASSUME NEW r \in RowType, NEW n \in 0..MaxAttempts, NEW b \in BOOLEAN
  PROVE  LET tried == [r EXCEPT !.owner = NoOne, !.quiet = FALSE, !.attempts = n, !.due = FALSE,
                                !.parked = b]
         IN  tried \in RowType /\ tried.attempts = n /\ tried.parked = b
BY DEF RowType

\* A request brings its row back with no attempt made.
LEMMA EnqueueStep ==
  ASSUME Kept, NEW d \in Deliveries, EnqueuePullRequestRefresh(d)
  PROVE  Kept'
<1> DEFINE p == requests[d].pr
           asked == [row[p] EXCEPT !.asked = TRUE, !.served = ~requests[d].after,
                                   !.attempts = 0, !.due = TRUE, !.parked = FALSE]
<1>1. p \in PRs
  BY DEF EnqueuePullRequestRefresh, Kept, RequestsOK
<1>2. row' = [row EXCEPT ![p] = asked] /\ flag' = TRUE /\ UNCHANGED <<github, indexed, repairs>>
  BY DEF EnqueuePullRequestRefresh
<1>3. requests[d] \in RequestType /\ row[p] \in RowType
  BY <1>1, Types DEF Kept
<1>4. asked \in RowType /\ asked.attempts = 0 /\ ~asked.parked
  <2>1. (~requests[d].after) \in BOOLEAN /\ 0 \in 0..MaxAttempts
    BY AttemptsAssumption
  <2>2. \A s \in BOOLEAN :
          LET t == [row[p] EXCEPT !.asked = TRUE, !.served = s, !.attempts = 0, !.due = TRUE,
                                  !.parked = FALSE]
          IN  t \in RowType /\ t.attempts = 0 /\ ~t.parked
    <3> DEFINE old == row[p]
    <3>1. old \in RowType
      BY <1>3
    <3> HIDE DEF old
    <3>2. \A s \in BOOLEAN, n \in 0..MaxAttempts :
            LET t == [old EXCEPT !.asked = TRUE, !.served = s, !.attempts = n, !.due = TRUE,
                                 !.parked = FALSE]
            IN  t \in RowType /\ t.attempts = n /\ ~t.parked
      BY <3>1, AskedRow
    <3> QED
      BY <2>1, <3>2 DEF old
  <2> QED
    BY <2>1, <2>2, Zenon
<1>5. requests' \in [Deliveries -> RequestType] /\ RequestsOK'
  <2>1. NoRequest \in RequestType /\ NoRequest.stage = "none"
    BY DEF NoRequest, RequestType, Stages
  <2>2. [requests[d] EXCEPT !.stage = "queued", !.after = FALSE] \in RequestType
    BY <1>3 DEF RequestType, Stages
  <2>3. PICK r \in RequestType : /\ requests' = [requests EXCEPT ![d] = r]
                                 /\ r.stage # "none" => r.pr = p
    BY <1>3, <2>1, <2>2 DEF EnqueuePullRequestRefresh, RequestType
  <2> QED
    BY <1>1, <2>3, Types DEF Kept, RequestsOK
<1>6. worker' \in [Servers -> WorkerType] /\ WorkersOK'
  <2>1. \A w \in Servers : /\ worker'[w] \in WorkerType
                           /\ worker'[w].attempts = worker[w].attempts
                           /\ worker'[w].pc = worker[w].pc
                           /\ worker'[w].pr = worker[w].pr
    <3> SUFFICES ASSUME NEW w \in Servers
                 PROVE  /\ worker'[w] \in WorkerType
                        /\ worker'[w].attempts = worker[w].attempts
                        /\ worker'[w].pc = worker[w].pc
                        /\ worker'[w].pr = worker[w].pr
      OBVIOUS
    <3> DEFINE b == d \in worker[w].later
               ds == worker[w].later \ {d}
    <3>1. worker[w] \in WorkerType /\ b \in BOOLEAN /\ ds \in SUBSET Deliveries
      BY Types DEF Kept, WorkerType
    <3>2. worker'[w] = worker[w] \/ worker'[w] = [worker[w] EXCEPT !.newer = b, !.later = ds]
      BY DEF EnqueuePullRequestRefresh
    <3> HIDE DEF b, ds
    <3> QED
      BY <3>1, <3>2 DEF WorkerType
  <2>2. worker' = [w \in Servers |-> worker'[w]]
    BY DEF EnqueuePullRequestRefresh
  <2> QED
    BY <2>1, <2>2, NotedWorkers
<1>7. crossed' \in BOOLEAN
  BY DEF EnqueuePullRequestRefresh
<1>8. TypeOK'
  <2>1. row' \in [PRs -> RowType]
    BY <1>1, <1>2, <1>4, Types DEF Kept
  <2> QED
    BY <1>2, <1>5, <1>6, <1>7, <2>1 DEF Kept, TypeOK, RowType, RequestType, WorkerType
<1>9. SpentAreParked'
  BY <1>1, <1>2, <1>4, Types, AttemptsAssumption DEF Kept, SpentAreParked
<1> QED
  BY <1>5, <1>6, <1>8, <1>9 DEF Kept

\* A worker moves: its record stays well formed, the rows' standing as it was.
LEMMA WorkerMoves ==
  ASSUME Kept, NEW w \in Servers, NEW r \in WorkerType,
         worker' = [worker EXCEPT ![w] = r],
         r.attempts < MaxAttempts,
         r.pc \in Busy => r.pr \in PRs,
         flag' \in BOOLEAN, crossed' \in BOOLEAN,
         indexed' \in [PRs -> 0..MaxChanges],
         UNCHANGED <<github, row, requests, repairs>>
  PROVE  Kept'
<1>1. TypeOK'
  BY Types DEF Kept, TypeOK, WorkerType, RowType, RequestType
<1>2. WorkersOK'
  BY Types DEF Kept, WorkersOK
<1>3. RequestsOK'
  BY DEF Kept, RequestsOK
<1>4. SpentAreParked'
  BY RowsKept, Types DEF Kept
<1> QED
  BY <1>1, <1>2, <1>3, <1>4 DEF Kept

\* An idle worker's record, and the record of a worker that goes on with its row.
LEMMA WorkerRecords ==
  ASSUME Kept, NEW w \in Servers
  PROVE  /\ worker[w] \in WorkerType
         /\ worker[w].attempts < MaxAttempts
         /\ worker[w].pc \in Busy => worker[w].pr \in PRs
         /\ IdleWorker \in WorkerType
         /\ IdleWorker.pc = "idle" /\ IdleWorker.attempts = 0 /\ IdleWorker.attempts < MaxAttempts
         /\ \A c \in Phases : /\ [worker[w] EXCEPT !.pc = c] \in WorkerType
                              /\ [worker[w] EXCEPT !.pc = c].pc = c
                              /\ [worker[w] EXCEPT !.pc = c].pr = worker[w].pr
                              /\ [worker[w] EXCEPT !.pc = c].attempts = worker[w].attempts
<1>1. /\ worker[w] \in WorkerType
      /\ worker[w].attempts < MaxAttempts
      /\ worker[w].pc \in Busy => worker[w].pr \in PRs
  BY Types DEF Kept, WorkersOK
<1>2. /\ IdleWorker \in WorkerType
      /\ IdleWorker.pc = "idle" /\ IdleWorker.attempts = 0 /\ IdleWorker.attempts < MaxAttempts
  BY IdleOK, AttemptsAssumption
<1>3. \A c \in Phases : /\ [worker[w] EXCEPT !.pc = c] \in WorkerType
                        /\ [worker[w] EXCEPT !.pc = c].pc = c
                        /\ [worker[w] EXCEPT !.pc = c].pr = worker[w].pr
                        /\ [worker[w] EXCEPT !.pc = c].attempts = worker[w].attempts
  BY <1>1 DEF WorkerType
<1> QED
  BY <1>1, <1>2, <1>3

\* Only rows with an attempt left are picked.
LEMMA PickStep ==
  ASSUME Kept, NEW w \in Servers, Pick(w)
  PROVE  Kept'
<1>1. PICK p \in Preferred : worker' = [worker EXCEPT ![w] =
        [IdleWorker EXCEPT !.pc = "picked", !.pr = p, !.attempts = row[p].attempts]]
  BY DEF Pick
<1>2. p \in PRs /\ Pending(p)
  BY DEF Preferred, NeverAttempted, Eligible
<1>3. row[p] \in RowType /\ row[p].attempts < MaxAttempts
  BY <1>2, Types, AttemptsAssumption DEF Kept, SpentAreParked, Pending, Waits, RowType
<1>4. UNCHANGED <<github, indexed, row, flag, requests, repairs, crossed>>
  BY DEF Pick
<1> DEFINE r == [IdleWorker EXCEPT !.pc = "picked", !.pr = p, !.attempts = row[p].attempts]
<1>5. r \in WorkerType /\ r.pr = p /\ r.attempts < MaxAttempts
  <2>1. row[p].attempts \in 0..MaxAttempts
    BY <1>3 DEF RowType
  <2>2. IdleWorker \in WorkerType
    BY IdleOK, AttemptsAssumption
  <2>3. r \in WorkerType /\ r.pr = p /\ r.attempts = row[p].attempts
    BY <1>2, <2>1, <2>2 DEF WorkerType, Phases
  <2> QED
    BY <1>3, <2>3
<1> QED
  BY <1>1, <1>2, <1>4, <1>5, WorkerMoves, Types DEF Kept

\* The steps of a worker that leave its row alone.
LEMMA WorkerStep ==
  ASSUME Kept, NEW w \in Servers,
         AcquireMisses(w) \/ ShowRefresh(w) \/ RefreshFails(w) \/ Start(w) \/ Crash(w)
  PROVE  Kept'
<1>1. CASE AcquireMisses(w) \/ Start(w)
  BY <1>1, WorkerRecords, WorkerMoves, Types DEF AcquireMisses, Start, Kept, Busy
<1>2. CASE ShowRefresh(w)
  <2>1. "asking" \in Phases /\ worker[w].pc \in Busy
    BY <1>2 DEF ShowRefresh, Phases, Busy
  <2>2. worker' = [worker EXCEPT ![w] = [worker[w] EXCEPT !.pc = "asking"]]
    BY <1>2, Types DEF ShowRefresh, Kept
  <2> DEFINE r == [worker[w] EXCEPT !.pc = "asking"]
  <2>3. r \in WorkerType /\ r.attempts < MaxAttempts /\ r.pr \in PRs
    BY <2>1, WorkerRecords
  <2>4. /\ UNCHANGED <<github, indexed, row, requests, repairs>>
        /\ flag' \in BOOLEAN /\ crossed' \in BOOLEAN
    BY <1>2 DEF ShowRefresh
  <2>5. indexed \in [PRs -> 0..MaxChanges]
    BY Types DEF Kept
  <2> HIDE DEF r
  <2> QED
    BY <2>2, <2>3, <2>4, <2>5, WorkerMoves DEF r
<1>3. CASE RefreshFails(w)
  <2>1. "ending" \in Phases /\ worker[w].pc \in Busy
    BY <1>3 DEF RefreshFails, Phases, Busy
  <2>2. worker' = [worker EXCEPT ![w] = [worker[w] EXCEPT !.pc = "ending"]]
    BY <1>3, Types DEF RefreshFails, Kept
  <2> DEFINE r == [worker[w] EXCEPT !.pc = "ending"]
  <2>3. r \in WorkerType /\ r.attempts < MaxAttempts /\ r.pr \in PRs
    BY <2>1, WorkerRecords
  <2>4. UNCHANGED <<github, indexed, row, flag, requests, repairs, crossed>>
    BY <1>3 DEF RefreshFails
  <2>5. indexed \in [PRs -> 0..MaxChanges] /\ flag \in BOOLEAN /\ crossed \in BOOLEAN
    BY Types DEF Kept
  <2> HIDE DEF r
  <2> QED
    BY <2>2, <2>3, <2>4, <2>5, WorkerMoves DEF r
<1>4. CASE Crash(w)
  <2> DEFINE r == [IdleWorker EXCEPT !.pc = "down"]
  <2>1. r \in WorkerType /\ r.pc = "down" /\ r.attempts < MaxAttempts
    BY IdleOK, AttemptsAssumption DEF Phases
  <2> QED
    BY <1>4, <2>1, WorkerMoves, Types DEF Crash, Kept, Busy
<1> QED
  BY <1>1, <1>2, <1>3, <1>4

\* Leasing a row changes neither whether it is pending nor its attempts.
LEMMA AcquireStep ==
  ASSUME Kept, NEW w \in Servers, Acquire(w)
  PROVE  Kept'
<1> DEFINE p == worker[w].pr
           r == [worker[w] EXCEPT !.pc = "leased"]
           leased == [row[p] EXCEPT !.owner = w, !.quiet = FALSE]
<1>1. p \in PRs
  BY WorkerRecords DEF Acquire, Busy
<1>2. r \in WorkerType /\ r.pr \in PRs /\ r.attempts < MaxAttempts
  BY <1>1, WorkerRecords DEF Phases
<1>3. /\ row' = [row EXCEPT ![p] = leased]
      /\ worker' = [worker EXCEPT ![w] = r]
      /\ UNCHANGED <<github, indexed, flag, requests, repairs, crossed>>
  BY <1>1, Types DEF Acquire, Kept, RowType
<1>4. row[p] \in RowType
  BY <1>1, Types DEF Kept
<1>5. /\ leased \in RowType
      /\ leased.parked = row[p].parked /\ leased.attempts = row[p].attempts
  BY <1>4 DEF RowType
<1>6. /\ row' \in [PRs -> RowType]
      /\ \A q \in PRs : row'[q].parked = row[q].parked /\ row'[q].attempts = row[q].attempts
  BY <1>1, <1>3, <1>5, Types DEF Kept
<1>7. TypeOK'
  BY <1>2, <1>3, <1>6, Types DEF Kept, TypeOK, RowType, RequestType, WorkerType
<1>8. WorkersOK'
  BY <1>2, <1>3, Types DEF Kept, WorkersOK
<1>9. SpentAreParked'
  BY <1>3, <1>6, RowsKept
<1> QED
  BY <1>3, <1>7, <1>8, <1>9 DEF Kept, RequestsOK

\* Asking GitHub and indexing stay within the revisions there are.
LEMMA RefreshStep ==
  ASSUME Kept, NEW w \in Servers, FetchPull(w) \/ IndexPull(w)
  PROVE  Kept'
<1> DEFINE p == worker[w].pr
<1>1. p \in PRs
  BY WorkerRecords DEF FetchPull, IndexPull, Busy
<1>2. github[p] \in 0..MaxChanges /\ indexed \in [PRs -> 0..MaxChanges]
  BY <1>1, Types DEF Kept
<1>3. CASE FetchPull(w)
  <2> DEFINE r == [worker[w] EXCEPT !.pc = "indexing", !.rev = github[p]]
  <2>1. r \in WorkerType /\ r.pr \in PRs /\ r.attempts < MaxAttempts
    <3>1. PICK v \in 0..MaxChanges : v = github[p]
      BY <1>2
    <3>2. worker[w] \in WorkerType /\ worker[w].attempts < MaxAttempts
      BY WorkerRecords
    <3>3. r = [worker[w] EXCEPT !.pc = "indexing", !.rev = v]
      BY <3>1
    <3>4. /\ [worker[w] EXCEPT !.pc = "indexing", !.rev = v] \in WorkerType
          /\ [worker[w] EXCEPT !.pc = "indexing", !.rev = v].pr = worker[w].pr
          /\ [worker[w] EXCEPT !.pc = "indexing", !.rev = v].attempts = worker[w].attempts
      BY <3>2 DEF WorkerType, Phases
    <3> QED
      BY <1>1, <3>2, <3>3, <3>4
  <2>2. worker' = [worker EXCEPT ![w] = r] /\ UNCHANGED <<github, indexed, row, flag, requests, repairs, crossed>>
    BY <1>3, Types DEF FetchPull, Kept, WorkerType
  <2> QED
    BY <1>2, <2>1, <2>2, WorkerMoves, Types DEF Kept
<1>4. CASE IndexPull(w)
  <2> DEFINE r == [worker[w] EXCEPT !.pc = "ending", !.ok = TRUE]
  <2>1. r \in WorkerType /\ r.pr \in PRs /\ r.attempts < MaxAttempts
    <3>1. worker[w] \in WorkerType /\ worker[w].attempts < MaxAttempts
      BY WorkerRecords
    <3> QED
      BY <1>1, <3>1 DEF WorkerType, Phases
  <2>2. worker' = [worker EXCEPT ![w] = r] /\ UNCHANGED <<github, row, flag, requests, repairs, crossed>>
    BY <1>4, Types DEF IndexPull, Kept
  <2>3. PICK v \in worker[w].rev..github[p] : indexed' = [indexed EXCEPT ![p] = v]
    BY <1>4 DEF IndexPull
  <2>4. v \in 0..MaxChanges
    BY <1>2, <2>3, WorkerRecords, AttemptsAssumption DEF WorkerType
  <2>5. indexed' \in [PRs -> 0..MaxChanges]
    BY <1>2, <2>3, <2>4
  <2> QED
    BY <2>1, <2>2, <2>5, WorkerMoves, Types DEF Kept
<1> QED
  BY <1>3, <1>4

\* What a worker records is a row that is parked just when no attempt is left; it waits
\* for another refresh if a later request came, or a failure leaves it an attempt.
OwnWaits(w) ==
  LET old == row[worker[w].pr]
  IN  old.asked /\ IF worker[w].ok THEN worker[w].newer
                   ELSE ~old.served /\ worker[w].attempts + 1 < MaxAttempts

LEMMA OutcomeOK ==
  ASSUME TypeOK, WorkersOK, SpentAreParked, NEW w \in Servers, worker[w].pr \in PRs
  PROVE  /\ Outcome(w) \in RowType
         /\ Outcome(w).parked <=> Outcome(w).attempts >= MaxAttempts
         /\ row[worker[w].pr].owner # w => Outcome(w) = row[worker[w].pr]
         /\ row[worker[w].pr].owner = w => /\ Waits(Outcome(w)) <=> OwnWaits(w)
                                           /\ Outcome(w).owner = NoOne
<1> DEFINE old == row[worker[w].pr]
           failures == worker[w].attempts + 1
           late == ~worker[w].newer
           spent == failures >= MaxAttempts
           served == [old EXCEPT !.owner = NoOne, !.quiet = FALSE, !.served = late, !.attempts = 0,
                                 !.due = TRUE, !.parked = FALSE]
           tried == [old EXCEPT !.owner = NoOne, !.quiet = FALSE, !.attempts = failures, !.due = FALSE,
                                !.parked = spent]
<1>1. old \in RowType /\ (old.parked <=> old.attempts >= MaxAttempts)
  BY Types DEF SpentAreParked
<1>2. /\ worker[w] \in WorkerType /\ worker[w].newer \in BOOLEAN /\ worker[w].ok \in BOOLEAN
      /\ worker[w].attempts \in 0..MaxAttempts
  BY Types DEF WorkerType
<1>3. failures \in 0..MaxAttempts /\ 0 \in 0..MaxAttempts /\ late \in BOOLEAN /\ spent \in BOOLEAN
  BY <1>2, AttemptsAssumption DEF WorkersOK
<1>4. Outcome(w) = IF old.owner # w THEN old ELSE IF worker[w].ok THEN served ELSE tried
  <2>1. [[old EXCEPT !.owner = NoOne, !.quiet = FALSE]
           EXCEPT !.served = late, !.attempts = 0, !.due = TRUE, !.parked = FALSE] = served
    BY <1>1 DEF RowType
  <2>2. [[old EXCEPT !.owner = NoOne, !.quiet = FALSE]
           EXCEPT !.attempts = failures, !.due = FALSE, !.parked = spent] = tried
    BY <1>1 DEF RowType
  <2> QED
    BY <2>1, <2>2 DEF Outcome, Recorded
<1>5. /\ served \in RowType /\ served.attempts = 0 /\ ~served.parked /\ served.owner = NoOne
      /\ served.asked = old.asked /\ served.served = late
  <2> HIDE DEF old, late
  <2> QED
    BY <1>1, <1>3 DEF RowType
<1>6. /\ tried \in RowType /\ tried.attempts = failures /\ tried.parked = spent /\ tried.owner = NoOne
      /\ tried.asked = old.asked /\ tried.served = old.served
  <2> HIDE DEF old, failures, spent
  <2> QED
    BY <1>1, <1>3 DEF RowType
<1>7. CASE old.owner # w
  <2>1. Outcome(w) = old
    BY <1>4, <1>7
  <2> QED
    BY <1>1, <1>7, <2>1
<1>8. CASE old.owner = w /\ worker[w].ok
  <2>1. Outcome(w) = served
    BY <1>4, <1>8
  <2>2. Waits(served) <=> old.asked /\ worker[w].newer
    <3> HIDE DEF old, served
    <3>1. late <=> ~worker[w].newer
      OBVIOUS
    <3> HIDE DEF late
    <3> QED
      BY <1>2, <1>5, <3>1, Zenon DEF Waits
  <2>3. OwnWaits(w) <=> old.asked /\ worker[w].newer
    BY <1>8 DEF OwnWaits
  <2>4. served.parked <=> served.attempts >= MaxAttempts
    <3> HIDE DEF served
    <3> QED
      BY <1>5, AttemptsAssumption
  <2> HIDE DEF served, old
  <2> QED
    BY <1>5, <1>8, <2>1, <2>2, <2>3, <2>4 DEF old
<1>9. CASE old.owner = w /\ ~worker[w].ok
  <2>1. Outcome(w) = tried
    BY <1>4, <1>9
  <2>2. Waits(tried) <=> old.asked /\ ~old.served /\ ~spent
    <3> HIDE DEF old, tried, spent
    <3> QED
      BY <1>6, Zenon DEF Waits
  <2>3. ~spent <=> worker[w].attempts + 1 < MaxAttempts
    BY <1>2, AttemptsAssumption
  <2>4. OwnWaits(w) <=> old.asked /\ ~old.served /\ worker[w].attempts + 1 < MaxAttempts
    BY <1>9 DEF OwnWaits
  <2>5. tried.parked <=> tried.attempts >= MaxAttempts
    <3>1. spent <=> failures >= MaxAttempts
      OBVIOUS
    <3> HIDE DEF tried, spent, failures
    <3> QED
      BY <1>6, <3>1
  <2>6. Waits(tried) <=> OwnWaits(w)
    <3> HIDE DEF old, tried, spent
    <3> QED
      BY <2>2, <2>3, <2>4, Zenon
  <2> HIDE DEF tried, old
  <2> QED
    BY <1>6, <1>9, <2>1, <2>5, <2>6 DEF old
<1> QED
  BY <1>7, <1>8, <1>9

\* Counting moves the worker; committing records the row.
LEMMA CountStep ==
  ASSUME Kept, NEW w \in Servers, CountPending(w)
  PROVE  Kept'
<1> DEFINE b == Waits(Outcome(w)) \/ \E q \in PRs \ {worker[w].pr} : Pending(q)
           me == [worker[w] EXCEPT !.pc = "counted", !.pending = b]
<1>1. worker[w] \in WorkerType /\ worker[w].pr \in PRs /\ worker[w].attempts < MaxAttempts
  BY WorkerRecords DEF CountPending, Busy
<1>2. b \in BOOLEAN
  OBVIOUS
<1>3. worker' = [worker EXCEPT ![w] = me]
  BY Types DEF CountPending, Kept
<1>4. me \in WorkerType /\ me.pr = worker[w].pr /\ me.attempts = worker[w].attempts
  <2> HIDE DEF b
  <2> QED
    BY <1>1, <1>2 DEF WorkerType, Phases
<1>5. /\ UNCHANGED <<github, row, requests, repairs>>
      /\ flag' \in BOOLEAN /\ crossed' \in BOOLEAN /\ indexed' \in [PRs -> 0..MaxChanges]
  BY Types DEF CountPending, Kept
<1> HIDE DEF me
<1> QED
  BY <1>1, <1>3, <1>4, <1>5, WorkerMoves

LEMMA FinishStep ==
  ASSUME Kept, NEW w \in Servers, Finish(w)
  PROVE  Kept'
<1>1. /\ worker[w].pr \in PRs
      /\ Outcome(w) \in RowType
      /\ Outcome(w).parked <=> Outcome(w).attempts >= MaxAttempts
  <2>1. worker[w].pr \in PRs
    BY WorkerRecords DEF Finish, Busy
  <2> QED
    BY <2>1, OutcomeOK DEF Kept
<1>2. /\ row' = [row EXCEPT ![worker[w].pr] = Outcome(w)]
      /\ worker' = [worker EXCEPT ![w] = IdleWorker]
      /\ UNCHANGED <<github, indexed, repairs>>
      /\ flag' \in BOOLEAN /\ crossed' \in BOOLEAN
  <2>1. worker[w].pending \in BOOLEAN
    BY Types DEF Kept, WorkerType
  <2> QED
    BY <2>1 DEF Finish
<1>3. /\ requests' \in [Deliveries -> RequestType]
      /\ \A d \in Deliveries : requests'[d].stage = requests[d].stage /\ requests'[d].pr = requests[d].pr
  <2>1. \A d \in Deliveries : requests[d] \in RequestType
    BY Types DEF Kept
  <2>2. \A d \in Deliveries, b \in BOOLEAN :
          /\ [requests[d] EXCEPT !.after = b] \in RequestType
          /\ [requests[d] EXCEPT !.after = b].stage = requests[d].stage
          /\ [requests[d] EXCEPT !.after = b].pr = requests[d].pr
    BY <2>1 DEF RequestType
  <2>3. requests' = requests \/ requests' = Earlier(w)
    BY DEF Finish
  <2>4. \A d \in Deliveries : (requests[d].after /\ d \in worker[w].later) \in BOOLEAN
    BY <2>1 DEF RequestType
  <2>5. \A d \in Deliveries : \/ Earlier(w)[d] = requests[d]
                             \/ \E b \in BOOLEAN : Earlier(w)[d] = [requests[d] EXCEPT !.after = b]
    <3> SUFFICES ASSUME NEW d \in Deliveries
                 PROVE  \/ Earlier(w)[d] = requests[d]
                        \/ \E b \in BOOLEAN : Earlier(w)[d] = [requests[d] EXCEPT !.after = b]
      OBVIOUS
    <3> DEFINE b == requests[d].after /\ d \in worker[w].later
    <3>1. b \in BOOLEAN
      OBVIOUS
    <3>2. Earlier(w)[d] = requests[d] \/ Earlier(w)[d] = [requests[d] EXCEPT !.after = b]
      BY DEF Earlier
    <3> HIDE DEF b
    <3> QED
      BY <3>1, <3>2
  <2>6. Earlier(w) = [d \in Deliveries |-> Earlier(w)[d]]
    BY DEF Earlier
  <2>7. \A d \in Deliveries : /\ Earlier(w)[d] \in RequestType
                              /\ Earlier(w)[d].stage = requests[d].stage
                              /\ Earlier(w)[d].pr = requests[d].pr
    BY <2>1, <2>2, <2>5
  <2> QED
    BY <2>3, <2>6, <2>7, Types DEF Kept
<1>4. TypeOK'
  BY <1>1, <1>2, <1>3, WorkerRecords, Types DEF Kept, TypeOK, RowType, RequestType, WorkerType
<1>5. WorkersOK'
  BY <1>2, WorkerRecords, Types DEF Kept, WorkersOK, Busy
<1>6. RequestsOK'
  BY <1>3 DEF Kept, RequestsOK
<1>7. SpentAreParked'
  BY <1>1, <1>2, Types DEF Kept, SpentAreParked
<1> QED
  BY <1>4, <1>5, <1>6, <1>7 DEF Kept

\* Kept is inductive.
LEMMA NextKept == Kept /\ [Next]_vars => Kept'
<1> SUFFICES ASSUME Kept, [Next]_vars PROVE Kept'
  OBVIOUS
<1>1. CASE UNCHANGED vars
  BY <1>1 DEF vars, Kept, TypeOK, WorkersOK, RequestsOK, SpentAreParked
<1>2. CASE \/ \E p \in PRs : Change(p) \/ LeaseRunsOut(p) \/ BackoffElapses(p)
           \/ RepairFallsDue \/ RepairEnds
  BY <1>2, EnvironmentStep
<1>3. CASE \E d \in Deliveries : ReadClock(d) \/ EnqueuePullRequestRefresh(d) \/ EnqueueFails(d)
  BY <1>3, DeliveryStep, EnqueueStep
<1>4. CASE \E w \in Servers : Start(w) \/ Pick(w) \/ Work(w) \/ Crash(w)
  BY <1>4, PickStep, AcquireStep, WorkerStep, RefreshStep, CountStep, FinishStep DEF Work
<1> QED
  BY <1>1, <1>2, <1>3, <1>4 DEF Next

-----------------------------------------------------------------------------
(* The flag *)

\* CountsOK, with what the outcome of a completion would leave.
CountsForm ==
  \A w \in Servers : CountedNone(w) =>
    /\ row[worker[w].pr].owner = w => ~OwnWaits(w)
    /\ ~crossed => \A p \in PRs : Pending(p) => p = worker[w].pr /\ row[p].owner = w

LEMMA CountsAreForm == Kept => (CountsOK <=> CountsForm)
<1> SUFFICES ASSUME Kept PROVE CountsOK <=> CountsForm
  OBVIOUS
<1>1. \A w \in Servers : CountedNone(w) => worker[w].pr \in PRs
  BY DEF Kept, WorkersOK, CountedNone, Busy
<1>2. \A w \in Servers : CountedNone(w) /\ row[worker[w].pr].owner = w =>
        (Waits(Outcome(w)) <=> OwnWaits(w))
  BY <1>1, OutcomeOK DEF Kept
<1> QED
  BY <1>2, Zenon DEF CountsOK, CountsForm

\* The flag stays right in a step that makes no row wait, changes nobody's lease and
\* starts no completion's count.
LEMMA ShownKept ==
  ASSUME CountsForm, WorkIsShown,
         \A w \in Servers : CountedNone(w)' =>
           /\ CountedNone(w) /\ worker'[w].pr = worker[w].pr /\ worker'[w].pr \in PRs
           /\ worker'[w].ok = worker[w].ok /\ worker'[w].newer = worker[w].newer
           /\ worker'[w].attempts = worker[w].attempts,
         \A p \in PRs : /\ row'[p].asked = row[p].asked
                        /\ row'[p].served = row[p].served
                        /\ row'[p].parked = row[p].parked
                        /\ row'[p].owner = row[p].owner,
         flag' = flag, crossed' = crossed
  PROVE  CountsForm' /\ WorkIsShown'
<1>1. \A p \in PRs : Pending(p)' <=> Pending(p)
  BY DEF Pending, Waits
<1>2. WorkIsShown'
  BY <1>1 DEF WorkIsShown
<1>3. ASSUME NEW w \in Servers, CountedNone(w)'
      PROVE  /\ row'[worker'[w].pr].owner = w => ~OwnWaits(w)'
             /\ ~crossed' => \A p \in PRs : Pending(p)' => p = worker'[w].pr /\ row'[p].owner = w
  <2>1. /\ CountedNone(w) /\ worker'[w].pr = worker[w].pr /\ worker[w].pr \in PRs
        /\ worker'[w].ok = worker[w].ok /\ worker'[w].newer = worker[w].newer
        /\ worker'[w].attempts = worker[w].attempts
    BY <1>3
  <2>2. OwnWaits(w)' <=> OwnWaits(w)
    BY <2>1 DEF OwnWaits
  <2> QED
    BY <1>1, <2>1, <2>2 DEF CountsForm
<1> QED
  BY <1>2, <1>3 DEF CountsForm

\* What a worker or another process does beside the flag and the rows' standing.
LEMMA BesidesStep ==
  ASSUME Kept, Kept', CountsForm, WorkIsShown,
         \/ \E p \in PRs : Change(p) \/ LeaseRunsOut(p) \/ BackoffElapses(p)
         \/ RepairFallsDue \/ RepairEnds
         \/ \E d \in Deliveries : ReadClock(d) \/ EnqueueFails(d)
  PROVE  CountsForm' /\ WorkIsShown'
<1>1. flag' = flag /\ crossed' = crossed
  BY DEF Change, LeaseRunsOut, BackoffElapses, RepairFallsDue, RepairEnds, ReadClock, EnqueueFails
<1>2. \A p \in PRs : /\ row'[p].asked = row[p].asked
                     /\ row'[p].served = row[p].served
                     /\ row'[p].parked = row[p].parked
                     /\ row'[p].owner = row[p].owner
  <2>1. CASE \E p \in PRs : LeaseRunsOut(p)
    BY <2>1, Types DEF LeaseRunsOut, Kept, RowType
  <2>2. CASE \E p \in PRs : BackoffElapses(p)
    <3>1. PICK p \in PRs : row' = [row EXCEPT ![p].due = TRUE]
      BY <2>2 DEF BackoffElapses
    <3> QED
      BY <3>1, Types DEF Kept, RowType
  <2>3. CASE ~(\E p \in PRs : LeaseRunsOut(p) \/ BackoffElapses(p))
    <3>1. row' = row
      BY <2>3 DEF Change, RepairFallsDue, RepairEnds, ReadClock, EnqueueFails
    <3> QED
      BY <3>1
  <2> QED
    BY <2>1, <2>2, <2>3
<1>3. \A w \in Servers :
        /\ worker'[w].pc = worker[w].pc /\ worker'[w].pending = worker[w].pending
        /\ worker'[w].pr = worker[w].pr /\ worker'[w].ok = worker[w].ok
        /\ worker'[w].newer = worker[w].newer /\ worker'[w].attempts = worker[w].attempts
  <2>1. CASE \E d \in Deliveries : ReadClock(d) \/ EnqueueFails(d)
    BY <2>1, DeliveryNoted, Types DEF Kept, WorkerType
  <2>2. CASE ~(\E d \in Deliveries : ReadClock(d) \/ EnqueueFails(d))
    <3>1. worker' = worker
      BY <2>2 DEF Change, LeaseRunsOut, BackoffElapses, RepairFallsDue, RepairEnds
    <3> QED
      BY <3>1
  <2> QED
    BY <2>1, <2>2
<1>4. \A w \in Servers : CountedNone(w)' =>
        /\ CountedNone(w) /\ worker'[w].pr = worker[w].pr /\ worker'[w].pr \in PRs
        /\ worker'[w].ok = worker[w].ok /\ worker'[w].newer = worker[w].newer
        /\ worker'[w].attempts = worker[w].attempts
  BY <1>3 DEF CountedNone, Kept, WorkersOK, Busy
<1> QED
  BY <1>1, <1>2, <1>4, ShownKept

\* The steps of one worker that write neither the flag nor a row.
LEMMA AloneStep ==
  ASSUME Kept, Kept', CountsForm, WorkIsShown, NEW w \in Servers,
         \/ Start(w) \/ Pick(w) \/ AcquireMisses(w) \/ FetchPull(w) \/ IndexPull(w)
         \/ RefreshFails(w) \/ Crash(w)
  PROVE  CountsForm' /\ WorkIsShown'
<1>1. flag' = flag /\ crossed' = crossed /\ row' = row
  <2>1. CASE IndexPull(w)
    BY <2>1, Zenon DEF IndexPull
  <2>2. CASE ~IndexPull(w)
    BY <2>2 DEF Start, Pick, AcquireMisses, FetchPull, RefreshFails, Crash
  <2> QED
    BY <2>1, <2>2
<1>2. \A v \in Servers \ {w} : worker'[v] = worker[v]
  <2>1. CASE Pick(w)
    <3>1. PICK p \in Preferred : worker' = [worker EXCEPT ![w] =
            [IdleWorker EXCEPT !.pc = "picked", !.pr = p, !.attempts = row[p].attempts]]
      BY <2>1, Zenon DEF Pick
    <3> QED
      BY <3>1, Types DEF Kept
  <2>2. CASE Start(w) \/ AcquireMisses(w) \/ Crash(w)
    BY <2>2, Types DEF Kept, Start, AcquireMisses, Crash
  <2>3. CASE FetchPull(w)
    BY <2>3, Types DEF Kept, FetchPull
  <2>4. CASE IndexPull(w)
    BY <2>4, Types DEF Kept, IndexPull
  <2>5. CASE RefreshFails(w)
    BY <2>5, Types DEF Kept, RefreshFails
  <2> QED
    BY <2>1, <2>2, <2>3, <2>4, <2>5, Zenon
<1>3. worker'[w].pc # "counted"
  <2>1. CASE Pick(w)
    <3>1. PICK p \in Preferred : worker' = [worker EXCEPT ![w] =
            [IdleWorker EXCEPT !.pc = "picked", !.pr = p, !.attempts = row[p].attempts]]
      BY <2>1, Zenon DEF Pick
    <3> QED
      BY <3>1, Types DEF Kept, IdleWorker
  <2>2. CASE Start(w) \/ AcquireMisses(w) \/ Crash(w)
    BY <2>2, Types DEF Kept, Start, AcquireMisses, Crash, IdleWorker
  <2>3. CASE FetchPull(w)
    BY <2>3, Types DEF Kept, FetchPull, WorkerType
  <2>4. CASE IndexPull(w)
    <3>1. worker' = [worker EXCEPT ![w].pc = "ending", ![w].ok = TRUE]
      BY <2>4 DEF IndexPull
    <3> QED
      BY <3>1, Types DEF Kept, WorkerType
  <2>5. CASE RefreshFails(w)
    BY <2>5, Types DEF Kept, RefreshFails, WorkerType
  <2> QED
    BY <2>1, <2>2, <2>3, <2>4, <2>5, Zenon
<1>4. \A v \in Servers : CountedNone(v)' =>
        /\ CountedNone(v) /\ worker'[v].pr = worker[v].pr /\ worker'[v].pr \in PRs
        /\ worker'[v].ok = worker[v].ok /\ worker'[v].newer = worker[v].newer
        /\ worker'[v].attempts = worker[v].attempts
  BY <1>2, <1>3 DEF CountedNone, Kept, WorkersOK, Busy
<1> QED
  BY <1>1, <1>4, ShownKept

\* A worker that leases or shows its row changes no completion: the row of one that has
\* counted is locked.
LEMMA LeasedStep ==
  ASSUME Kept, Kept', CountsForm, WorkIsShown, NEW w \in Servers, Acquire(w) \/ ShowRefresh(w)
  PROVE  CountsForm' /\ WorkIsShown'
<1>1. \A v \in Servers : CountedNone(v)' =>
        /\ CountedNone(v) /\ worker'[v] = worker[v] /\ worker[v].pr \in PRs /\ v # w
  <2>1. \A v \in Servers \ {w} : worker'[v] = worker[v]
    BY Types DEF Acquire, ShowRefresh, Kept
  <2>2. worker'[w].pc # "counted"
    BY Types DEF Acquire, ShowRefresh, Kept, WorkerType
  <2> QED
    BY <2>1, <2>2 DEF CountedNone, Kept, WorkersOK, Busy
<1>2. \A p \in PRs : Pending(p)' <=> Pending(p)
  BY Types DEF Acquire, ShowRefresh, Pending, Waits, Kept, RowType
<1>3. WorkIsShown'
  BY <1>2 DEF WorkIsShown, Acquire, ShowRefresh
<1>4. ASSUME NEW v \in Servers, CountedNone(v)' PROVE crossed' = crossed
  <2>1. CountedNone(v)
    BY <1>1, <1>4
  <2>2. crossed \in BOOLEAN
    BY Types DEF Kept
  <2>3. CASE Acquire(w)
    BY <2>3 DEF Acquire
  <2>4. CASE ShowRefresh(w)
    BY <2>1, <2>2, <2>4 DEF ShowRefresh
  <2> QED
    BY <2>3, <2>4
<1>5. ASSUME NEW v \in Servers, CountedNone(v)'
      PROVE  /\ row'[worker'[v].pr].owner = v => ~OwnWaits(v)'
             /\ ~crossed' => \A p \in PRs : Pending(p)' => p = worker'[v].pr /\ row'[p].owner = v
  <2>1. /\ CountedNone(v) /\ worker'[v] = worker[v] /\ worker[v].pr \in PRs /\ v # w
        /\ crossed' = crossed
    BY <1>1, <1>4, <1>5
  <2>2. \A p \in PRs : row'[p].owner = row[p].owner \/ (row'[p].owner = w /\ ~Locked(p))
    <3>1. CASE Acquire(w)
      <4>1. ~Locked(worker[w].pr) /\ \A p \in PRs \ {worker[w].pr} : row'[p] = row[p]
        BY <3>1, Types DEF Acquire, Kept
      <4>2. worker[w].pr \in PRs
        BY <3>1, WorkerRecords DEF Acquire, Busy
      <4>3. row[worker[w].pr] \in RowType
        BY <4>2, Types DEF Kept
      <4>4. row' = [row EXCEPT ![worker[w].pr] = [row[worker[w].pr] EXCEPT !.owner = w, !.quiet = FALSE]]
        BY <3>1, <4>2, <4>3, Types DEF Acquire, Kept, RowType
      <4>5. row'[worker[w].pr].owner = w
        BY <4>2, <4>3, <4>4, Types DEF Kept, RowType
      <4>6. ASSUME NEW p \in PRs
            PROVE  row'[p].owner = row[p].owner \/ (row'[p].owner = w /\ ~Locked(p))
        <5>1. CASE p = worker[w].pr
          BY <4>1, <4>5, <5>1, Zenon
        <5>2. CASE p # worker[w].pr
          BY <4>1, <5>2
        <5> QED
          BY <5>1, <5>2
      <4> QED
        BY <4>6
    <3>2. CASE ShowRefresh(w)
      BY <3>2 DEF ShowRefresh
    <3> QED
      BY <3>1, <3>2
  <2>3. row[worker[v].pr].owner = v => Locked(worker[v].pr)
    BY <2>1 DEF Locked, CountedNone
  <2>4. /\ row'[worker[v].pr].asked = row[worker[v].pr].asked
        /\ row'[worker[v].pr].served = row[worker[v].pr].served
    BY <2>1, Types DEF Acquire, ShowRefresh, Kept, RowType
  <2>5. OwnWaits(v)' <=> OwnWaits(v)
    BY <2>1, <2>4 DEF OwnWaits
  <2>6. row'[worker[v].pr].owner = v <=> row[worker[v].pr].owner = v
    BY <2>1, <2>2, <2>3
  <2> QED
    BY <1>2, <2>1, <2>5, <2>6 DEF CountsForm
<1> QED
  BY <1>3, <1>5 DEF CountsForm

\* A request sets the flag, and crosses whoever has counted.
LEMMA AskedStep ==
  ASSUME Kept, Kept', CountsForm, WorkIsShown, NEW d \in Deliveries, EnqueuePullRequestRefresh(d)
  PROVE  CountsForm' /\ WorkIsShown'
<1>1. WorkIsShown'
  BY DEF WorkIsShown, EnqueuePullRequestRefresh
<1>2. \A v \in Servers : CountedNone(v)' =>
        /\ CountedNone(v) /\ worker[v].pr \in PRs /\ worker'[v].pr = worker[v].pr
        /\ worker'[v].ok = worker[v].ok /\ worker'[v].attempts = worker[v].attempts
        /\ worker[v].pr # requests[d].pr => worker'[v] = worker[v]
  <2> SUFFICES ASSUME NEW v \in Servers, CountedNone(v)'
               PROVE  /\ CountedNone(v) /\ worker[v].pr \in PRs /\ worker'[v].pr = worker[v].pr
                      /\ worker'[v].ok = worker[v].ok /\ worker'[v].attempts = worker[v].attempts
                      /\ worker[v].pr # requests[d].pr => worker'[v] = worker[v]
    OBVIOUS
  <2> DEFINE b == d \in worker[v].later
             ds == worker[v].later \ {d}
  <2>1. worker[v] \in WorkerType
    BY Types DEF Kept
  <2>2. /\ worker'[v] = worker[v] \/ worker'[v] = [worker[v] EXCEPT !.newer = b, !.later = ds]
        /\ worker[v].pr # requests[d].pr => worker'[v] = worker[v]
    BY DEF EnqueuePullRequestRefresh
  <2> HIDE DEF b, ds
  <2> QED
    BY <2>1, <2>2 DEF WorkerType, CountedNone, Kept, WorkersOK, Busy
<1>3. ASSUME NEW v \in Servers, CountedNone(v)'
      PROVE  crossed' /\ (row'[worker'[v].pr].owner = v => ~OwnWaits(v)')
  <2>1. crossed'
    BY <1>2, <1>3 DEF EnqueuePullRequestRefresh
  <2> DEFINE p == worker[v].pr
  <2>2. p \in PRs /\ worker'[v].pr = p /\ CountedNone(v)
    BY <1>2, <1>3
  <2>3. row'[p].owner = row[p].owner
    <3> DEFINE q == requests[d].pr
               b == ~requests[d].after
    <3>1. row' = [row EXCEPT ![q] = [row[q] EXCEPT !.asked = TRUE, !.served = b, !.attempts = 0,
                                                  !.due = TRUE, !.parked = FALSE]]
      BY DEF EnqueuePullRequestRefresh
    <3>2. row \in [PRs -> RowType] /\ b \in BOOLEAN
      BY Types DEF Kept
    <3> HIDE DEF q, b
    <3> QED
      BY <2>2, <3>1, <3>2 DEF RowType
  <2>4. CASE row[p].owner # v
    BY <2>1, <2>2, <2>3, <2>4
  <2>5. CASE row[p].owner = v
    <3>1. p # requests[d].pr
      BY <2>2, <2>5 DEF EnqueuePullRequestRefresh, Locked, CountedNone
    <3>2. row'[p] = row[p] /\ worker'[v] = worker[v]
      BY <1>2, <1>3, <2>2, <3>1, Types DEF EnqueuePullRequestRefresh, Kept
    <3>3. OwnWaits(v)' <=> OwnWaits(v)
      BY <2>2, <3>2 DEF OwnWaits
    <3> QED
      BY <2>1, <2>2, <2>5, <3>3 DEF CountsForm
  <2> QED
    BY <2>4, <2>5
<1> QED
  BY <1>1, <1>3 DEF CountsForm

\* What a completion counts is what it leaves.
LEMMA CountedStep ==
  ASSUME Kept, Kept', CountsForm, WorkIsShown, NEW w \in Servers, CountPending(w)
  PROVE  CountsForm' /\ WorkIsShown'
<1> DEFINE p == worker[w].pr
           b == Waits(Outcome(w)) \/ \E q \in PRs \ {p} : Pending(q)
<1>1. worker[w] \in WorkerType /\ p \in PRs
  BY WorkerRecords DEF CountPending, Busy
<1>2. UNCHANGED <<row, flag, crossed>> /\ worker' = [worker EXCEPT ![w] =
        [worker[w] EXCEPT !.pc = "counted", !.pending = b]]
  BY Types DEF CountPending, Kept
<1>3. /\ worker'[w].pending = b /\ worker'[w].pr = p /\ worker'[w].ok = worker[w].ok
      /\ worker'[w].newer = worker[w].newer /\ worker'[w].attempts = worker[w].attempts
  <2>1. b \in BOOLEAN
    OBVIOUS
  <2> HIDE DEF b
  <2> QED
    BY <1>1, <1>2, <2>1, Types DEF Kept, WorkerType
<1>4. \A v \in Servers \ {w} : worker'[v] = worker[v]
  BY <1>2
<1>5. WorkIsShown'
  BY <1>2 DEF WorkIsShown, Pending
<1>6. ASSUME NEW v \in Servers, CountedNone(v)'
      PROVE  /\ row'[worker'[v].pr].owner = v => ~OwnWaits(v)'
             /\ ~crossed' => \A q \in PRs : Pending(q)' => q = worker'[v].pr /\ row'[q].owner = v
  <2>1. CASE v # w
    <3>1. worker'[v] = worker[v] /\ CountedNone(v)
      BY <1>4, <1>6, <2>1 DEF CountedNone
    <3>2. OwnWaits(v)' <=> OwnWaits(v)
      BY <1>2, <3>1 DEF OwnWaits
    <3>3. \A q \in PRs : Pending(q)' <=> Pending(q)
      BY <1>2 DEF Pending
    <3> QED
      BY <1>2, <3>1, <3>2, <3>3 DEF CountsForm
  <2>2. CASE v = w
    <3>1. ~b
      BY <1>3, <1>6, <2>2 DEF CountedNone
    <3>2. ~Waits(Outcome(w)) /\ \A q \in PRs : Pending(q) => q = p
      BY <3>1
    <3>3. \A q \in PRs : Pending(q)' <=> Pending(q)
      BY <1>2 DEF Pending
    <3>4. OwnWaits(w)' <=> OwnWaits(w)
      BY <1>2, <1>3 DEF OwnWaits
    <3>5. row[p].owner = w => ~OwnWaits(w)
      BY <1>1, <3>2, OutcomeOK DEF Kept
    <3>6. Pending(p) => row[p].owner = w
      BY <1>1, <3>2, OutcomeOK DEF Kept, Pending
    <3> QED
      BY <1>1, <1>2, <1>3, <2>2, <3>2, <3>3, <3>4, <3>5, <3>6
  <2> QED
    BY <2>1, <2>2
<1> QED
  BY <1>5, <1>6 DEF CountsForm

\* The flag that a completion commits is right unless something began to wait since its
\* count, and so is the count of another one.
LEMMA CommittedStep ==
  ASSUME Kept, Kept', CountsForm, WorkIsShown, NEW w \in Servers, Finish(w)
  PROVE  CountsForm' /\ WorkIsShown'
<1> DEFINE p == worker[w].pr
           others == \E v \in Servers \ {w} : CountedNone(v)
<1>1. worker[w] \in WorkerType /\ p \in PRs /\ worker[w].pending \in BOOLEAN /\ crossed \in BOOLEAN
  BY WorkerRecords, Types DEF Finish, Busy, WorkerType, Kept
<1>2. /\ row' = [row EXCEPT ![p] = Outcome(w)] /\ flag' = worker[w].pending
      /\ crossed' <=> (crossed /\ (others \/ ~worker[w].pending)) \/ (others /\ Waits(Outcome(w)))
      /\ worker[w].pc = "counted"
  BY Zenon DEF Finish
<1>3. worker'[w] = IdleWorker /\ \A v \in Servers \ {w} : worker'[v] = worker[v]
  BY Types DEF Finish, Kept
<1>4. /\ \A q \in PRs \ {p} : row'[q] = row[q]
      /\ row'[p] = Outcome(w)
      /\ row[p].owner # w => row'[p] = row[p]
      /\ row[p].owner = w => row'[p].owner = NoOne /\ (Waits(row'[p]) <=> OwnWaits(w))
  BY <1>1, <1>2, Types, OutcomeOK DEF Kept
<1>5. WorkIsShown'
  <2> SUFFICES ASSUME ~crossed', NEW q \in PRs, Pending(q)' PROVE flag'
    BY DEF WorkIsShown
  <2>1. CASE worker[w].pending
    BY <1>2, <2>1
  <2>2. CASE ~worker[w].pending
    <3>1. CountedNone(w) /\ ~crossed
      BY <1>1, <1>2, <2>2 DEF CountedNone
    <3>2. /\ row[p].owner = w => ~OwnWaits(w)
          /\ \A r \in PRs : Pending(r) => r = p /\ row[r].owner = w
      BY <3>1 DEF CountsForm
    <3>3. Waits(row'[q])
      BY DEF Pending
    <3>4. CASE q # p
      BY <1>4, <3>2, <3>3, <3>4 DEF Pending
    <3>5. CASE q = p
      BY <1>1, <1>4, <3>2, <3>3, <3>5 DEF Pending
    <3> QED
      BY <3>4, <3>5
  <2> QED
    BY <2>1, <2>2
<1>6. ASSUME NEW v \in Servers, CountedNone(v)'
      PROVE  /\ row'[worker'[v].pr].owner = v => ~OwnWaits(v)'
             /\ ~crossed' => \A q \in PRs : Pending(q)' => q = worker'[v].pr /\ row'[q].owner = v
  <2>1. v # w
    BY <1>3, <1>6 DEF CountedNone, IdleWorker
  <2>2. worker'[v] = worker[v] /\ CountedNone(v) /\ worker[v].pr \in PRs /\ others
    BY <1>3, <1>6, <2>1 DEF CountedNone, Kept, WorkersOK, Busy
  <2>3. row'[worker[v].pr].owner = v => row'[worker[v].pr] = row[worker[v].pr]
    BY <1>1, <1>4, <2>1, <2>2, NamesAssumption, Types DEF Kept
  <2>4. row'[worker[v].pr].owner = v => ~OwnWaits(v)'
    <3> SUFFICES ASSUME row'[worker[v].pr].owner = v PROVE ~OwnWaits(v)'
      OBVIOUS
    <3>1. row'[worker[v].pr] = row[worker[v].pr]
      BY <2>3
    <3>2. OwnWaits(v)' <=> OwnWaits(v)
      BY <2>2, <3>1 DEF OwnWaits
    <3> QED
      BY <2>2, <3>1, <3>2 DEF CountsForm
  <2>5. ASSUME ~crossed', NEW q \in PRs, Pending(q)'
        PROVE  q = worker[v].pr /\ row'[q].owner = v
    <3>1. ~crossed /\ ~Waits(Outcome(w))
      BY <1>1, <1>2, <2>2, <2>5
    <3>2. q # p
      BY <1>4, <2>5, <3>1 DEF Pending
    <3>3. row'[q] = row[q]
      BY <1>4, <3>2
    <3>4. Pending(q)
      BY <2>5, <3>3 DEF Pending
    <3> QED
      BY <2>2, <3>1, <3>3, <3>4 DEF CountsForm
  <2> QED
    BY <2>2, <2>4, <2>5
<1> QED
  BY <1>5, <1>6 DEF CountsForm

LEMMA NextShown == Kept /\ Kept' /\ CountsForm /\ WorkIsShown /\ [Next]_vars => CountsForm' /\ WorkIsShown'
<1> SUFFICES ASSUME Kept, Kept', CountsForm, WorkIsShown, [Next]_vars PROVE CountsForm' /\ WorkIsShown'
  OBVIOUS
<1>1. CASE UNCHANGED vars
  <2>1. CountsForm' <=> CountsForm
    BY <1>1 DEF vars, CountsForm, CountedNone, OwnWaits, Pending
  <2>2. WorkIsShown' <=> WorkIsShown
    BY <1>1 DEF vars, WorkIsShown, Pending
  <2> QED
    BY <2>1, <2>2
<1>2. CASE \/ \E p \in PRs : Change(p) \/ LeaseRunsOut(p) \/ BackoffElapses(p)
           \/ RepairFallsDue \/ RepairEnds
  BY <1>2, BesidesStep
<1>3. CASE \E d \in Deliveries : ReadClock(d) \/ EnqueuePullRequestRefresh(d) \/ EnqueueFails(d)
  BY <1>3, BesidesStep, AskedStep
<1>4. CASE \E w \in Servers : Start(w) \/ Pick(w) \/ Work(w) \/ Crash(w)
  BY <1>4, AloneStep, LeasedStep, CountedStep, CommittedStep DEF Work
<1> QED
  BY <1>1, <1>2, <1>3, <1>4 DEF Next

-----------------------------------------------------------------------------
\* IInv is inductive.
LEMMA InitIInv == Init => IInv
<1> SUFFICES ASSUME Init PROVE IInv
  OBVIOUS
<1>1. Kept
  BY InitKept
<1>2. \A p \in PRs : ~Pending(p)
  BY DEF Init, NoRow, Pending, Waits
<1>3. \A w \in Servers : ~CountedNone(w)
  BY DEF Init, IdleWorker, CountedNone
<1> QED
  BY <1>1, <1>2, <1>3 DEF IInv, Kept, CountsOK, WorkIsShown

LEMMA NextIInv == IInv /\ [Next]_vars => IInv'
<1>1. IInv <=> Kept /\ CountsOK /\ WorkIsShown
  BY DEF IInv, Kept
<1>2. IInv <=> Kept /\ CountsForm /\ WorkIsShown
  BY <1>1, CountsAreForm
<1>3. IInv' <=> Kept' /\ CountsForm' /\ WorkIsShown'
  BY <1>2, PTL
<1> QED
  BY <1>2, <1>3, NextKept, NextShown

\* The queue's variables keep their types: no row is tried more than MaxAttempts times,
\* and whatever a worker or a request holds is a pull request.
THEOREM TypeCorrect == Spec => []TypeOK
<1>1. IInv => TypeOK
  BY DEF IInv
<1> QED
  BY <1>1, InitIInv, NextIInv, PTL DEF Spec

\* targeted_refresh_pending is set whenever a row waits that did not begin to between the
\* count and the commit of a completion, whatever servers overlap.
THEOREM PendingIsShown == Spec => []WorkIsShown
<1>1. IInv => WorkIsShown
  BY DEF IInv
<1> QED
  BY <1>1, InitIInv, NextIInv, PTL DEF Spec
=============================================================================
