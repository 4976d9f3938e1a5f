------------------------ MODULE InventorySync_proofs ------------------------
(***************************************************************************)
(* Two invariants of the open pull request inventory.                      *)
(*                                                                         *)
(* IInv holds for any processes, overlapping, pausing and dying as they    *)
(* may: rows and what processes carry keep their types, and no copy of a   *)
(* row that says current is ahead of the index.                            *)
(*                                                                         *)
(* Orderly holds while one server at a time is alive and none dies between *)
(* the commit and the completion of a scan: what a scan or a refresh has   *)
(* read of GitHub and is overtaken is announced by a mark or a delivery    *)
(* that this scan will not clear.                                          *)
(***************************************************************************)
EXTENDS InventorySync, TLAPS

-----------------------------------------------------------------------------
(* Types *)

Stages == {"none", "sent", "accepting", "queued", "processing"}
EventKinds == {"none", "membership", "content", "push"}
ProcPhases == {"idle", "enqueue", "stale snapshots", "read state", "stale rows", "mark dirty", "done"}
ScanPhases == Passing \cup {"new", "down", "idle", "acquiring", "beginning", "completing"}
RefreshPhases == {"idle", "acquiring", "choosing", "fetching", "indexing", "reading state",
                  "reconciling", "advancing", "finishing"}

PullType == [open : BOOLEAN, rev : 1..MaxRev]
LeaseType == [owner : Scanners \cup {NoOne}, quiet : BOOLEAN]
EventType == [kind : EventKinds, pr : PRs \cup {NoOne}, stage : Stages, seen : SUBSET Scanners]
ProcType == [pc : ProcPhases, event : Deliveries \cup {NoOne}, seen : SUBSET Scanners, gen : Gens,
             failed : BOOLEAN]
Listings == UNION {[S -> 1..MaxRev] : S \in SUBSET PRs}
ScanType == [pc : ScanPhases, current : Gens, building : Gens, listing : Listings, rows : Rows,
             unwritten : SUBSET PRs, todo : SUBSET PRs]
RefreshType == [pc : RefreshPhases, lane : {"none", "targeted", "backfill"}, pr : PRs \cup {NoOne},
                rev : 0..MaxRev, open : BOOLEAN, gen : Gens, row : Row]

StateOK ==
  /\ state = [current |-> state.current, building |-> state.building, dirty |-> state.dirty,
              since |-> state.since, counts |-> state.counts]
  /\ state.current \in Gens /\ state.building \in Gens
  /\ state.dirty \in BOOLEAN /\ state.since \subseteq started

\* A delivery that asks for a refresh names its pull request; an accepted one that does
\* not is a push.
EventOK(e) ==
  /\ e.kind \in {"membership", "content"} => e.pr \in PRs
  /\ e.stage \in {"sent", "accepting"} => e.kind \in {"membership", "content"}
  /\ e.stage # "none" => e.kind # "none"

\* The processor's delivery is in processing, and what it needs of it it has read.
ProcOK ==
  /\ proc.seen \subseteq started
  /\ proc.pc # "idle" => proc.event \in Deliveries /\ events[proc.event].stage = "processing"
  /\ proc.pc = "enqueue" => events[proc.event].kind \in {"membership", "content"}
  /\ proc.pc = "stale rows" => proc.gen # NoGen

EnvOK ==
  /\ github \in [PRs -> PullType]
  /\ lease \in [Kinds -> LeaseType]
  /\ wanted \subseteq PRs
  /\ events \in [Deliveries -> EventType] /\ \A e \in Deliveries : EventOK(events[e])
  /\ \A e \in Deliveries : events[e].seen \subseteq started
  /\ proc \in ProcType /\ ProcOK
  /\ started \subseteq Scanners
  /\ StateOK

\* A scan writes the rows it has built into the generation it builds; the snapshots it
\* is going to update become stale.
ScanOK(s) ==
  /\ s.pc \in Passing \cup {"completing"} => s.building # NoGen
  /\ s.pc \in {"preparing", "writing", "updating snapshots", "committing"} => DOMAIN s.rows = DOMAIN s.listing
  /\ s.unwritten \subseteq DOMAIN s.rows /\ s.todo \subseteq DOMAIN s.rows
  /\ \A p \in s.todo : s.rows[p].fresh = "stale"

\* A refresh is of a pull request, and reconciles or advances in a generation there is.
RefreshOK(r) ==
  /\ r.pc \in {"fetching", "indexing", "reading state", "reconciling", "advancing"} => r.pr \in PRs
  /\ r.lane = "backfill" \/ r.pc = "reconciling" => r.gen # NoGen
  /\ r.pc \in {"acquiring", "choosing", "advancing"} => r.lane = "backfill"
  /\ r.pc = "reading state" => r.lane = "targeted"
  /\ r.pc # "idle" => r.lane # "none"

\* No row that is stored or carried is ahead of the index.
IndexedRows(rows, snapshots) ==
  \A p \in DOMAIN rows : rows[p].fresh = "current" => rows[p].rev <= snapshots[p].rev
IndexedRefresh(r, snapshots) ==
  r.row.fresh = "current" => r.pr \in PRs /\ r.row.rev <= snapshots[r.pr].rev

TablesOK ==
  /\ snap \in [PRs -> Row]
  /\ inv \in [1..MaxGen -> Rows] /\ \A g \in 1..MaxGen : IndexedRows(inv[g], snap)
  /\ scan \in [Scanners -> ScanType]
  /\ \A w \in Scanners : ScanOK(scan[w]) /\ IndexedRows(scan[w].rows, snap)
  /\ refresh \in [Servers -> RefreshType]
  /\ \A w \in Servers : RefreshOK(refresh[w]) /\ IndexedRefresh(refresh[w], snap)

IInv == EnvOK /\ TablesOK

-----------------------------------------------------------------------------
(* One server at a time. *)

OneByOne == ~Overlap /\ ~LateCrash /\ Operators = {}

\* A delivery that is still to mark the inventory, and one that will do so with a
\* reading of the clock that the scan of w does not clear.
Coming(e) == events[e].kind = "membership" /\ ~(events[e].stage = "processing" /\ proc.pc = "done")
ComingAfter(e, w) == Coming(e) /\ (events[e].stage = "processing" => w \in proc.seen)

Announced == state.dirty \/ givenUp.dirty \/ \E e \in Deliveries : Coming(e)

\* The mark stays when the scan of w commits: no processor is about to replace it by an
\* older one.
Kept(w) == state.dirty /\ w \in state.since /\ (proc.pc \in {"idle", "done"} \/ w \in proc.seen)

\* So is what a delivery that was given up owed to it.
Owed(w) == givenUp.dirty /\ w \in givenUp.since

AnnouncedAfter(w) == Kept(w) \/ Owed(w) \/ \E e \in Deliveries : ComingAfter(e, w)

OneAlive == \A v, w \in Servers : Alive(v) /\ Alive(w) => v = w

\* A server is at one thing, and its scan is what the state says is under construction.
Owned(w) ==
  LET s == scan[w] IN
  /\ refresh[w].pc # "idle" => s.pc = "idle"
  /\ s.pc \in Passing \cup {"beginning", "completing"} => lease["fetch"].owner = w /\ w \in started
  /\ s.pc \in {"acquiring", "beginning"} => s.current = state.current /\ s.building = state.building
  /\ s.pc \in Passing => s.current = state.current /\ s.building = state.building
  /\ s.pc = "preparing" => s.unwritten = DOMAIN s.listing
  /\ s.pc \in {"writing", "updating snapshots", "committing"} =>
       DOMAIN inv[s.building] = DOMAIN s.listing \ s.unwritten
  /\ s.pc \in {"updating snapshots", "committing"} => s.unwritten = {}
  /\ s.pc = "completing" => s.building = state.current
  /\ refresh[w].pc # "idle" /\ (refresh[w].lane = "backfill" \/ refresh[w].pc = "reconciling") =>
       refresh[w].gen = state.current

\* What is built is the generation after the published one.
NextGeneration ==
  \/ state.building = NoGen \/ state.building = state.current + 1
  \/ \E w \in Servers : scan[w].pc = "completing"

\* What a scan listed is true, or a mark that outlives the scan says that it is not.
ListingOK(w) ==
  scan[w].pc \in Passing \ {"listing"} =>
    \A p \in PRs : (p \in DOMAIN scan[w].listing) # github[p].open => AnnouncedAfter(w)

\* What a targeted refresh fetched is true, or announced.
FetchedOK(w) ==
  refresh[w].pc \in {"indexing", "reading state", "reconciling"} /\ refresh[w].lane = "targeted"
    /\ refresh[w].open # github[refresh[w].pr].open => Announced

\* So is what is published.
PublishedOK ==
  \A p \in PRs : state.current # NoGen /\ (p \in Members) # github[p].open => Announced

\* A delivery in processing is the processor's.
OneProcessing == \A e \in Deliveries : events[e].stage = "processing" => proc.pc # "idle" /\ proc.event = e

OrderlyParts ==
  /\ OneAlive /\ NextGeneration /\ OneProcessing /\ PublishedOK
  /\ \A w \in Servers : Owned(w) /\ ListingOK(w) /\ FetchedOK(w)

Orderly == IInv /\ OrderlyParts
-----------------------------------------------------------------------------
(* Lemmas about rows *)

\* A table of rows: what one is, and that a row may be added, changed or taken away.
LEMMA RowsAre ==
  \A rows : rows \in Rows <=> DOMAIN rows \subseteq PRs /\ rows \in [DOMAIN rows -> Row]
BY DEF Rows

LEMMA NoRowsAre == NoRows \in Rows /\ NoRows \in Listings /\ DOMAIN NoRows = {}
BY SMTT(30) DEF Rows, Listings, NoRows

LEMMA UpsertRows ==
  ASSUME NEW rows \in Rows, NEW p \in PRs, NEW r \in Row
  PROVE  /\ Upsert(rows, p, r) \in Rows /\ DOMAIN Upsert(rows, p, r) = DOMAIN rows \cup {p}
         /\ \A sn : /\ IndexedRows(rows, sn)
                    /\ r.fresh = "current" => r.rev <= sn[p].rev
                    => IndexedRows(Upsert(rows, p, r), sn)
BY RowsAre DEF Upsert, IndexedRows

LEMMA RestrictRows ==
  ASSUME NEW rows \in Rows, NEW S \in SUBSET PRs
  PROVE  /\ Restrict(rows, DOMAIN rows \ S) \in Rows
         /\ DOMAIN Restrict(rows, DOMAIN rows \ S) = DOMAIN rows \ S
         /\ \A sn : IndexedRows(rows, sn) => IndexedRows(Restrict(rows, DOMAIN rows \ S), sn)
BY RowsAre DEF Restrict, IndexedRows

\* The freshness of a row is that of its snapshot only at its revision, and turns
\* current by itself never.
LEMMA Desired ==
  ASSUME NEW snapshot \in Row, NEW rev \in Nat
  PROVE  /\ DesiredFreshness(snapshot, rev) \in Fresh
         /\ DesiredFreshness(snapshot, rev) = "current" => snapshot.rev = rev /\ snapshot.fresh = "current"
         /\ DesiredFreshness(snapshot, rev) # snapshot.fresh => DesiredFreshness(snapshot, rev) = "stale"
BY DEF DesiredFreshness, Fresh, Row, NoSnapshot

\* A record that replaces one of a table.
LEMMA Replaced ==
  ASSUME NEW S, NEW T, NEW f \in [S -> T], NEW x \in S, NEW y \in T
  PROVE  /\ [f EXCEPT ![x] = y] \in [S -> T]
         /\ [f EXCEPT ![x] = y][x] = y
         /\ \A z \in S \ {x} : [f EXCEPT ![x] = y][z] = f[z]
OBVIOUS

\* The tables after a step that never takes a snapshot back to an earlier revision.
LEMMA TablesMove ==
  ASSUME TablesOK,
         snap' \in [PRs -> Row], \A p \in PRs : snap'[p].rev >= snap[p].rev,
         inv' \in [1..MaxGen -> Rows], \A g \in 1..MaxGen : IndexedRows(inv'[g], snap),
         scan' \in [Scanners -> ScanType],
         \A w \in Scanners : ScanOK(scan'[w]) /\ IndexedRows(scan'[w].rows, snap),
         refresh' \in [Servers -> RefreshType],
         \A w \in Servers : RefreshOK(refresh'[w]) /\ IndexedRefresh(refresh'[w], snap)
  PROVE  TablesOK'
<1>1. \A p \in PRs : snap[p].rev \in Nat /\ snap'[p].rev \in Nat
  BY DEF TablesOK, Row
<1>2. ASSUME NEW rows \in Rows, IndexedRows(rows, snap) PROVE IndexedRows(rows, snap')
  <2>1. \A p \in DOMAIN rows : p \in PRs /\ rows[p].rev \in Nat
    BY RowsAre DEF Row
  <2> QED
    BY <1>1, <1>2, <2>1 DEF IndexedRows
<1>3. ASSUME NEW r \in RefreshType, IndexedRefresh(r, snap) PROVE IndexedRefresh(r, snap')
  <2>1. r.row.rev \in Nat
    BY DEF RefreshType, Row
  <2> QED
    BY <1>1, <1>3, <2>1 DEF IndexedRefresh
<1>4. \A w \in Scanners : scan'[w].rows \in Rows
  BY DEF ScanType
<1> QED
  BY <1>2, <1>3, <1>4 DEF TablesOK

\* The tables after a step that changes only what one scan carries.
LEMMA ScanMovesTo ==
  ASSUME TablesOK, NEW w \in Scanners, NEW s \in ScanType,
         scan' = [scan EXCEPT ![w] = s], ScanOK(s), IndexedRows(s.rows, snap),
         UNCHANGED <<snap, inv, refresh>>
  PROVE  TablesOK'
<1>1. scan' \in [Scanners -> ScanType] /\ scan'[w] = s /\ \A v \in Scanners \ {w} : scan'[v] = scan[v]
  BY Replaced DEF TablesOK
<1>2. \A v \in Scanners : ScanOK(scan'[v]) /\ IndexedRows(scan'[v].rows, snap)
  BY <1>1 DEF TablesOK
<1> QED
  BY <1>1, <1>2, TablesMove DEF TablesOK, Row

\* ... or one refresh.
LEMMA RefreshMovesTo ==
  ASSUME TablesOK, NEW w \in Servers, NEW r \in RefreshType,
         refresh' = [refresh EXCEPT ![w] = r], RefreshOK(r), IndexedRefresh(r, snap),
         UNCHANGED <<snap, inv, scan>>
  PROVE  TablesOK'
<1>1. refresh' \in [Servers -> RefreshType] /\ refresh'[w] = r /\ \A v \in Servers \ {w} : refresh'[v] = refresh[v]
  BY Replaced DEF TablesOK
<1>2. \A v \in Servers : RefreshOK(refresh'[v]) /\ IndexedRefresh(refresh'[v], snap)
  BY <1>1 DEF TablesOK
<1> QED
  BY <1>1, <1>2, TablesMove DEF TablesOK, Row

\* Idle processes carry nothing.
LEMMA IdleTypes ==
  /\ \A pc \in {"idle", "new", "down"} : /\ [IdleScan EXCEPT !.pc = pc] \in ScanType
                                          /\ [IdleScan EXCEPT !.pc = pc].pc = pc
                                          /\ ScanOK([IdleScan EXCEPT !.pc = pc])
                                          /\ \A sn : IndexedRows([IdleScan EXCEPT !.pc = pc].rows, sn)
  /\ IdleScan \in ScanType /\ ScanOK(IdleScan) /\ \A sn : IndexedRows(IdleScan.rows, sn)
  /\ IdleRefresh \in RefreshType /\ RefreshOK(IdleRefresh) /\ \A sn : IndexedRefresh(IdleRefresh, sn)
<1>1. IdleScan \in ScanType /\ IdleScan.rows = NoRows /\ IdleScan.unwritten = {} /\ IdleScan.todo = {} /\ IdleScan.pc = "idle"
  BY NoRowsAre, BoundsAssumption DEF IdleScan, ScanType, ScanPhases, Gens, NoGen
<1>2. \A pc \in {"idle", "new", "down"} :
        /\ [IdleScan EXCEPT !.pc = pc] \in ScanType
        /\ [IdleScan EXCEPT !.pc = pc].pc = pc
        /\ [IdleScan EXCEPT !.pc = pc].rows = NoRows
        /\ [IdleScan EXCEPT !.pc = pc].unwritten = {} /\ [IdleScan EXCEPT !.pc = pc].todo = {}
  BY <1>1 DEF ScanType, ScanPhases
<1>3. ASSUME NEW s, s.rows = NoRows, s.unwritten = {}, s.todo = {}, s.pc \in {"idle", "new", "down"}
      PROVE  ScanOK(s) /\ \A sn : IndexedRows(s.rows, sn)
  BY <1>3, NoRowsAre DEF ScanOK, IndexedRows, Passing
<1>4. IdleRefresh \in RefreshType /\ RefreshOK(IdleRefresh) /\ \A sn : IndexedRefresh(IdleRefresh, sn)
  BY BoundsAssumption DEF IdleRefresh, RefreshType, RefreshPhases, RefreshOK, IndexedRefresh, NoSnapshot, Row, Gens, NoGen, Fresh
<1> QED
  BY <1>1, <1>2, <1>3, <1>4

-----------------------------------------------------------------------------
(* IInv, for any processes *)

LEMMA EnvStays == EnvOK /\ UNCHANGED <<github, lease, wanted, events, proc, started, state>> => EnvOK'
BY DEF EnvOK, ProcOK, EventOK, StateOK

LEMMA TablesStay == TablesOK /\ UNCHANGED <<snap, inv, scan, refresh>> => TablesOK'
BY DEF TablesOK

\* The environment after a step that leaves the deliveries alone.
LEMMA EnvMoves ==
  ASSUME EnvOK, github' \in [PRs -> PullType], lease' \in [Kinds -> LeaseType], wanted' \subseteq PRs,
         StateOK', UNCHANGED <<events, proc, started>>
  PROVE  EnvOK'
BY DEF EnvOK, ProcOK, EventOK

\* Leases as processes take and give them back.
LEMMA LeaseMoves ==
  ASSUME EnvOK, NEW k \in Kinds, NEW w \in Scanners
  PROVE  /\ Released(k, w) \in [Kinds -> LeaseType]
         /\ [lease EXCEPT ![k] = Held(w)] \in [Kinds -> LeaseType]
BY DEF EnvOK, LeaseType, Released, Held, Free

\* The repository's row as statements change it.
LEMMA StateMoves ==
  ASSUME EnvOK, UNCHANGED started,
         NEW c \in Gens, NEW b \in Gens, NEW n, NEW seen \in SUBSET started,
         \/ state' = state
         \/ state' = MarkedDirty(seen)
         \/ state' = [state EXCEPT !.building = b]
         \/ state' = [state EXCEPT !.counts = n]
         \/ \E w \in Scanners : state' = [RetainedDirty(state, w) EXCEPT !.current = c, !.counts = n]
  PROVE  StateOK'
BY DEF EnvOK, StateOK, MarkedDirty, RetainedDirty

LEMMA InitIInv == Init => IInv
<1> SUFFICES ASSUME Init PROVE IInv
  OBVIOUS
<1>1. github \in [PRs -> PullType]
  BY BoundsAssumption DEF Init, PullType
<1>2. EnvOK
  <2>1. state.current \in Gens /\ StateOK
    <3>1. \E c \in {NoGen, 1} : \E n : state = [current |-> c, building |-> NoGen, dirty |-> FALSE,
                                            since |-> {}, counts |-> n]
      BY DEF Init
    <3> QED
      BY <3>1, BoundsAssumption DEF StateOK, Gens, NoGen
  <2>2. lease \in [Kinds -> LeaseType]
    BY DEF Init, Kinds, LeaseType, Free
  <2>3. events \in [Deliveries -> EventType] /\ \A e \in Deliveries : EventOK(events[e]) /\ events[e].seen \subseteq started
    BY DEF Init, NoEvent, EventType, EventOK, EventKinds, Stages
  <2>4. proc \in ProcType /\ ProcOK
    BY BoundsAssumption DEF Init, IdleProc, ProcType, ProcOK, ProcPhases, Gens, NoGen
  <2> QED
    BY <1>1, <2>1, <2>2, <2>3, <2>4 DEF EnvOK, Init
<1>3. snap \in [PRs -> Row] /\ inv \in [1..MaxGen -> Rows] /\ \A g \in 1..MaxGen : IndexedRows(inv[g], snap)
  <2> DEFINE rows == [p \in OpenPulls |-> [rev |-> 1, fresh |-> "current"]]
  <2>1. rows \in Rows /\ NoSnapshot \in Row
    <3>1. [rev |-> 1, fresh |-> "current"] \in Row /\ NoSnapshot \in Row
      BY BoundsAssumption DEF Row, Fresh, NoSnapshot
    <3>2. DOMAIN rows = OpenPulls /\ OpenPulls \subseteq PRs /\ rows \in [OpenPulls -> Row]
      BY <3>1 DEF OpenPulls
    <3> QED
      BY <3>1, <3>2 DEF Rows
  <2>2. CASE inv = [g \in 1..MaxGen |-> NoRows] /\ snap = [p \in PRs |-> NoSnapshot]
    BY <2>1, <2>2, NoRowsAre DEF IndexedRows
  <2>3. CASE /\ inv = [g \in 1..MaxGen |-> IF g = 1 THEN rows ELSE NoRows]
             /\ snap = [p \in PRs |-> IF p \in OpenPulls THEN rows[p] ELSE NoSnapshot]
    <3>1. \A p \in OpenPulls : rows[p] \in Row /\ rows[p].rev = 1 /\ p \in PRs
      BY BoundsAssumption DEF Row, Fresh, OpenPulls
    <3>2. snap \in [PRs -> Row] /\ inv \in [1..MaxGen -> Rows]
      BY <2>1, <2>3, <3>1, NoRowsAre
    <3>3. IndexedRows(rows, snap)
      BY <2>3, <3>1 DEF IndexedRows
    <3> QED
      BY <2>3, <3>2, <3>3, NoRowsAre DEF IndexedRows
  <2> QED
    BY <2>2, <2>3 DEF Init
<1>4. TablesOK
  BY <1>3, IdleTypes DEF Init, TablesOK
<1> QED
  BY <1>2, <1>4 DEF IInv

LEMMA NoOneNew == NoOne \notin PRs /\ NoOne \notin Scanners /\ NoOne \notin Deliveries
BY NamesAssumption

\* GitHub and time.
LEMMA EnvironmentIInv == IInv /\ Environment => IInv'
<1> SUFFICES ASSUME IInv, Environment PROVE IInv'
  OBVIOUS
<1>1. TablesOK'
  BY TablesStay DEF IInv, Environment, OpenOrClose, PushHead, PushBase, FallQuiet, Heartbeat
<1>2. StateOK'
  BY DEF IInv, EnvOK, StateOK, Environment, OpenOrClose, PushHead, PushBase, FallQuiet, Heartbeat
<1>3. ASSUME NEW kind \in EventKinds \ {"none"}, NEW p \in PRs \cup {NoOne}, p = NoOne => kind = "push",
             NewEvent(kind, p), UNCHANGED <<proc, started>>
      PROVE  /\ events' \in [Deliveries -> EventType]
             /\ \A e \in Deliveries : EventOK(events'[e]) /\ events'[e].seen \subseteq started'
             /\ ProcOK'
  <2>1. PICK d \in Deliveries :
          /\ events[d] = NoEvent
          /\ events' = [events EXCEPT ![d] = [kind |-> kind, pr |-> p, seen |-> {},
                                              stage |-> IF kind = "push" THEN "queued" ELSE "sent"]]
    BY <1>3 DEF NewEvent
  <2>2. events'[d] \in EventType /\ EventOK(events'[d]) /\ events'[d].seen \subseteq started'
    BY <1>3, <2>1 DEF IInv, EnvOK, EventType, EventOK, EventKinds, Stages
  <2>3. \A e \in Deliveries \ {d} : events'[e] = events[e]
    BY <2>1 DEF IInv, EnvOK
  <2>4. events' \in [Deliveries -> EventType] /\ \A e \in Deliveries : EventOK(events'[e]) /\ events'[e].seen \subseteq started'
    BY <1>3, <2>1, <2>2, <2>3 DEF IInv, EnvOK, EventOK
  <2>5. events[d].stage # "processing"
    BY <2>1 DEF NoEvent
  <2>6. ProcOK'
    BY <1>3, <2>3, <2>5 DEF IInv, EnvOK, ProcOK
  <2> QED
    BY <2>4, <2>6
<1>4. ASSUME NEW p \in PRs, OpenOrClose(p) PROVE EnvOK'
  <2>1. github' \in [PRs -> PullType]
    BY <1>4 DEF IInv, EnvOK, OpenOrClose, PullType
  <2>2. NewEvent("membership", p) /\ UNCHANGED <<proc, started, lease, wanted>>
    BY <1>4 DEF OpenOrClose
  <2> QED
    BY <1>2, <1>3, <2>1, <2>2, NoOneNew DEF IInv, EnvOK, EventKinds
<1>5. ASSUME NEW p \in PRs, PushHead(p) PROVE EnvOK'
  <2>1. github' \in [PRs -> PullType]
    BY <1>5, BoundsAssumption DEF IInv, EnvOK, PushHead, PullType
  <2>2. NewEvent("content", p) /\ UNCHANGED <<proc, started, lease, wanted>>
    BY <1>5 DEF PushHead
  <2> QED
    BY <1>2, <1>3, <2>1, <2>2, NoOneNew DEF IInv, EnvOK, EventKinds
<1>6. ASSUME PushBase PROVE EnvOK'
  BY <1>2, <1>3, <1>6 DEF IInv, EnvOK, PushBase, EventKinds
<1>7. ASSUME NEW k \in Kinds, FallQuiet(k) \/ Heartbeat(k) PROVE EnvOK'
  <2>1. lease' \in [Kinds -> LeaseType]
    BY <1>7, ZenonT(60) DEF IInv, EnvOK, FallQuiet, Heartbeat, LeaseType
  <2> QED
    BY <1>2, <1>7, <2>1, EnvMoves DEF IInv, EnvOK, FallQuiet, Heartbeat
<1> QED
  BY <1>1, <1>4, <1>5, <1>6, <1>7 DEF IInv, Environment

LEMMA GenIs == NoGen \in Gens /\ \A g \in Gens : g # NoGen <=> g \in 1..MaxGen
BY BoundsAssumption DEF Gens, NoGen

LEMMA IdleProcIs == IdleProc \in ProcType /\ IdleProc.pc = "idle" /\ IdleProc.seen = {}
BY GenIs DEF IdleProc, ProcType, ProcPhases

\* Acceptors and the processor.
LEMMA WebhooksIInv == IInv /\ Webhooks => IInv'
<1> SUFFICES ASSUME IInv, Webhooks PROVE IInv'
  OBVIOUS
<1> USE DEF IInv
<1>1. ASSUME NEW e \in Deliveries, BeginAccept(e) PROVE IInv'
  <2>1. events' = [events EXCEPT ![e] = [events[e] EXCEPT !.stage = "accepting", !.seen = started]]
        /\ UNCHANGED <<proc, started>> /\ events[e].stage = "sent"
    BY <1>1 DEF EnvOK, BeginAccept
  <2>2. events'[e] \in EventType /\ EventOK(events'[e]) /\ events'[e].seen \subseteq started' /\ \A d \in Deliveries \ {e} : events'[d] = events[d]
    BY <2>1 DEF EnvOK, EventType, EventOK, Stages
  <2>3. events' \in [Deliveries -> EventType] /\ \A d \in Deliveries : EventOK(events'[d]) /\ events'[d].seen \subseteq started'
    BY <2>1, <2>2 DEF EnvOK, EventOK
  <2>4. ProcOK'
    BY <2>1, <2>2 DEF EnvOK, ProcOK
  <2> QED
    BY <1>1, <2>3, <2>4, TablesStay DEF EnvOK, BeginAccept, StateOK
<1>2. ASSUME NEW e \in Deliveries, FinishAccept(e) PROVE IInv'
  <2>1. events' = [events EXCEPT ![e] = [events[e] EXCEPT !.stage = "queued", !.seen = {}]]
        /\ UNCHANGED <<proc, started>> /\ events[e].stage = "accepting"
    BY <1>2 DEF EnvOK, FinishAccept
  <2>2. events'[e] \in EventType /\ EventOK(events'[e]) /\ events'[e].seen \subseteq started' /\ \A d \in Deliveries \ {e} : events'[d] = events[d]
    BY <2>1 DEF EnvOK, EventType, EventOK, Stages
  <2>3. events' \in [Deliveries -> EventType] /\ \A d \in Deliveries : EventOK(events'[d]) /\ events'[d].seen \subseteq started'
    BY <2>1, <2>2 DEF EnvOK, EventOK
  <2>4. ProcOK'
    BY <2>1, <2>2 DEF EnvOK, ProcOK
  <2>5. wanted' \subseteq PRs
    BY <1>2, <2>1 DEF EnvOK, FinishAccept, EventOK
  <2>6. StateOK'
    BY <1>2, <2>1, StateMoves DEF EnvOK, FinishAccept, EventOK, StateOK, Gens
  <2> QED
    BY <1>2, <2>3, <2>4, <2>5, <2>6, TablesStay DEF EnvOK, FinishAccept
<1>3. ASSUME NEW e \in Deliveries, BeginProcess(e) PROVE IInv'
  <2>1. events' = [events EXCEPT ![e] = [events[e] EXCEPT !.stage = "processing"]]
        /\ UNCHANGED started /\ events[e].stage = "queued"
    BY <1>3 DEF EnvOK, BeginProcess, Stage
  <2>2. events'[e] \in EventType /\ EventOK(events'[e]) /\ events'[e].seen \subseteq started' /\ (\A d \in Deliveries \ {e} : events'[d] = events[d])
        /\ events'[e].stage = "processing" /\ events'[e].kind = events[e].kind
    BY <2>1 DEF EnvOK, EventType, EventOK, Stages
  <2>3. events' \in [Deliveries -> EventType] /\ \A d \in Deliveries : EventOK(events'[d]) /\ events'[d].seen \subseteq started'
    BY <2>1, <2>2 DEF EnvOK, EventOK
  <2>4. events[e].kind \in {"membership", "content", "push"}
    BY <2>1 DEF EnvOK, EventOK, EventType, EventKinds
  <2>5. proc' \in ProcType /\ ProcOK'
    <3>1. /\ proc'.pc \in {"stale snapshots", "enqueue"} /\ proc'.event = e /\ proc'.seen = started
          /\ proc'.pc = "enqueue" => events[e].kind # "push"
      BY <1>3 DEF BeginProcess
    <3>2. proc' \in ProcType
      BY <1>3, GenIs DEF EnvOK, BeginProcess, ProcType, ProcPhases
    <3> QED
      BY <2>1, <2>2, <2>4, <3>1, <3>2 DEF ProcOK
  <2> QED
    BY <1>3, <2>3, <2>5, TablesStay DEF EnvOK, BeginProcess, StateOK
<1>4. ASSUME ProcEnqueue PROVE IInv'
  <2>1. wanted' \subseteq PRs
    BY <1>4 DEF EnvOK, ProcEnqueue, ProcMoves, ProcOK, EventOK
  <2>2. proc' \in ProcType /\ ProcOK'
    BY <1>4 DEF EnvOK, ProcEnqueue, ProcMoves, ProcOK, ProcType, ProcPhases
  <2> QED
    BY <1>4, <2>1, <2>2, TablesStay DEF EnvOK, ProcEnqueue, StateOK, EventOK
<1>5. ASSUME ProcStaleSnapshots PROVE IInv'
  <2>1. proc' \in ProcType /\ ProcOK'
    BY <1>5 DEF EnvOK, ProcStaleSnapshots, ProcOK, ProcType, ProcPhases
  <2>2. snap' \in [PRs -> Row] /\ \A p \in PRs : snap'[p].rev >= snap[p].rev
    <3>1. \A p \in PRs : /\ [snap[p] EXCEPT !.fresh = "stale"] \in Row
                           /\ [snap[p] EXCEPT !.fresh = "stale"].rev >= snap[p].rev
                           /\ snap[p] \in Row /\ snap[p].rev >= snap[p].rev
      BY DEF TablesOK, Row, Fresh
    <3>2. CASE snap' = snap
      BY <3>1, <3>2 DEF TablesOK
    <3>3. CASE snap' = [p \in PRs |-> IF snap[p] = NoSnapshot THEN NoSnapshot
                                      ELSE [snap[p] EXCEPT !.fresh = "stale"]]
      <4>1. \A p \in PRs : snap'[p] = snap[p] \/ snap'[p] = [snap[p] EXCEPT !.fresh = "stale"]
        BY <3>3
      <4>2. \A p \in PRs : snap'[p] \in Row /\ snap'[p].rev >= snap[p].rev
        BY <3>1, <4>1
      <4> QED
        BY <3>3, <4>2
    <3> QED
      BY <1>5, <3>2, <3>3 DEF ProcStaleSnapshots
  <2>3. TablesOK'
    BY <1>5, <2>2, TablesMove DEF TablesOK, ProcStaleSnapshots
  <2> QED
    BY <1>5, <2>1, <2>3 DEF EnvOK, ProcStaleSnapshots, StateOK, EventOK
<1>6. ASSUME ProcReadState PROVE IInv'
  <2>1. proc' \in ProcType /\ ProcOK'
    BY <1>6 DEF EnvOK, StateOK, ProcReadState, ProcOK, ProcType, ProcPhases
  <2> QED
    BY <1>6, <2>1, TablesStay DEF EnvOK, ProcReadState, StateOK, EventOK
<1>7. ASSUME ProcStaleRows PROVE IInv'
  <2> DEFINE rows == inv[proc.gen]
             marked == [p \in DOMAIN rows |-> [rows[p] EXCEPT !.fresh = "stale"]]
  <2>1. proc' \in ProcType /\ ProcOK'
    BY <1>7 DEF EnvOK, ProcStaleRows, ProcMoves, ProcOK, ProcType, ProcPhases
  <2>2. proc.gen \in 1..MaxGen
    BY <1>7, GenIs DEF EnvOK, ProcStaleRows, ProcMoves, ProcOK, ProcType
  <2>3. rows \in Rows
    BY <2>2 DEF TablesOK
  <2>4. \A p \in DOMAIN rows : [rows[p] EXCEPT !.fresh = "stale"] \in Row /\ [rows[p] EXCEPT !.fresh = "stale"].fresh = "stale"
    BY <2>3, RowsAre DEF Row, Fresh
  <2>5. marked \in Rows /\ IndexedRows(marked, snap)
    BY <2>3, <2>4, RowsAre DEF IndexedRows
  <2>6. inv' = [inv EXCEPT ![proc.gen] = marked] /\ state' = [state EXCEPT !.counts = Counts(marked)]
    BY <1>7 DEF ProcStaleRows
  <2>7. TablesOK'
    <3> HIDE DEF marked
    <3>1. inv' \in [1..MaxGen -> Rows] /\ \A g \in 1..MaxGen : IndexedRows(inv'[g], snap)
      BY <2>2, <2>5, <2>6 DEF TablesOK
    <3> QED
      BY <1>7, <3>1, TablesMove DEF TablesOK, ProcStaleRows, Row
  <2>8. StateOK'
    BY <1>7, <2>6, StateMoves DEF EnvOK, StateOK, ProcStaleRows
  <2> QED
    BY <1>7, <2>1, <2>7, <2>8 DEF EnvOK, ProcStaleRows, EventOK
<1>8. ASSUME ProcMarkDirty PROVE IInv'
  <2>1. proc' \in ProcType /\ ProcOK'
    BY <1>8 DEF EnvOK, ProcMarkDirty, ProcMoves, ProcOK, ProcType, ProcPhases
  <2>2. StateOK'
    BY <1>8, StateMoves DEF EnvOK, ProcOK, StateOK, ProcMarkDirty
  <2> QED
    BY <1>8, <2>1, <2>2, TablesStay DEF EnvOK, ProcMarkDirty, EventOK
<1>9. ASSUME ProcDone PROVE IInv'
  <2>1. events' \in [Deliveries -> EventType] /\ \A d \in Deliveries : EventOK(events'[d]) /\ events'[d].seen \subseteq started'
    BY <1>9 DEF EnvOK, ProcDone, EventType, EventOK, NoEvent, EventKinds, Stages
  <2>2. proc' \in ProcType /\ ProcOK'
    BY <1>9, IdleProcIs DEF EnvOK, ProcDone, ProcOK
  <2> QED
    BY <1>9, <2>1, <2>2, TablesStay DEF EnvOK, ProcDone, StateOK
<1>10. ASSUME ProcFails PROVE IInv'
  <2>1. PICK e \in Deliveries : e = proc.event /\ events[e].stage = "processing"
    BY <1>10 DEF EnvOK, ProcFails, ProcOK
  <2>2. events' = [events EXCEPT ![e] = [events[e] EXCEPT !.stage = "queued"]] /\ UNCHANGED started
    BY <1>10, <2>1 DEF EnvOK, ProcFails, Stage
  <2>3. events'[e] \in EventType /\ EventOK(events'[e]) /\ events'[e].seen \subseteq started' /\ (\A d \in Deliveries \ {e} : events'[d] = events[d])
    BY <2>1, <2>2 DEF EnvOK, EventType, EventOK, Stages
  <2>4. events' \in [Deliveries -> EventType] /\ \A d \in Deliveries : EventOK(events'[d]) /\ events'[d].seen \subseteq started'
    BY <2>2, <2>3 DEF EnvOK, EventOK
  <2>5. proc' \in ProcType /\ ProcOK'
    BY <1>10, IdleProcIs DEF EnvOK, ProcFails, ProcOK
  <2> QED
    BY <1>10, <2>4, <2>5, TablesStay DEF EnvOK, ProcFails, StateOK
<1>11. ASSUME ProcGivesUp PROVE IInv'
  <2>1. events' \in [Deliveries -> EventType] /\ \A d \in Deliveries : EventOK(events'[d]) /\ events'[d].seen \subseteq started'
    BY <1>11 DEF EnvOK, ProcGivesUp, EventType, EventOK, NoEvent, EventKinds, Stages
  <2>2. proc' \in ProcType /\ ProcOK'
    BY <1>11, IdleProcIs DEF EnvOK, ProcGivesUp, ProcOK
  <2> QED
    BY <1>11, <2>1, <2>2, TablesStay DEF EnvOK, ProcGivesUp, StateOK
<1> QED
  BY <1>1, <1>2, <1>3, <1>4, <1>5, <1>6, <1>7, <1>8, <1>9, <1>10, <1>11 DEF Webhooks

\* The start of a scan is read from the clock by everyone who read it before.
LEMMA StartsScanEnv ==
  ASSUME EnvOK, NEW w \in Scanners, StartsScan(w),
         github' = github, wanted' = wanted, lease' \in [Kinds -> LeaseType], StateOK'
  PROVE  EnvOK'
<1>1. started' \subseteq Scanners /\ started \subseteq started' /\ w \in started'
  BY DEF EnvOK, StartsScan
<1>2. \A e \in Deliveries : /\ events'[e] \in EventType /\ EventOK(events'[e])
                            /\ events'[e].seen \subseteq started' /\ events'[e].stage = events[e].stage
                            /\ events'[e].kind = events[e].kind
  <2> TAKE e \in Deliveries
  <2>1. events[e] \in EventType /\ EventOK(events[e]) /\ events[e].seen \subseteq started
    BY DEF EnvOK
  <2>2. events'[e] = [events[e] EXCEPT !.seen = events[e].seen \ {w}]
    BY DEF StartsScan, Earlier
  <2> QED
    BY <1>1, <2>1, <2>2 DEF EventType, EventOK
<1>3. events' \in [Deliveries -> EventType]
  BY <1>2 DEF StartsScan
<1>4. proc' = [proc EXCEPT !.seen = proc.seen \ {w}]
  BY DEF StartsScan, Earlier
<1>5. proc' \in ProcType /\ ProcOK'
  BY <1>1, <1>2, <1>4 DEF EnvOK, ProcType, ProcOK
<1> QED
  BY <1>1, <1>2, <1>3, <1>5 DEF EnvOK

\* A scan that moves on and keeps what it has.
LEMMA ScanGoesOn ==
  ASSUME TablesOK, NEW w \in Scanners, NEW pc \in ScanPhases,
         scan' = [scan EXCEPT ![w].pc = pc], UNCHANGED <<snap, inv, refresh>>,
         pc \in Passing \cup {"completing"} => scan[w].building # NoGen,
         pc \in {"preparing", "writing", "updating snapshots", "committing"} =>
           DOMAIN scan[w].rows = DOMAIN scan[w].listing
  PROVE  TablesOK'
<1> DEFINE s == [scan[w] EXCEPT !.pc = pc]
<1>1. scan[w] \in ScanType /\ ScanOK(scan[w]) /\ IndexedRows(scan[w].rows, snap)
  BY DEF TablesOK
<1>2. s \in ScanType /\ s.rows = scan[w].rows /\ ScanOK(s)
  BY <1>1 DEF ScanType, ScanOK
<1>3. scan' = [scan EXCEPT ![w] = s]
  BY DEF TablesOK
<1> QED
  BY <1>1, <1>2, <1>3, ScanMovesTo

\* A process that starts, gives up its scan or dies.
LEMMA ScanGivenUp ==
  ASSUME TablesOK, NEW w \in Scanners, NEW pc \in {"idle", "new", "down"},
         scan' = [scan EXCEPT ![w] = [IdleScan EXCEPT !.pc = pc]], UNCHANGED <<snap, inv, refresh>>
  PROVE  TablesOK'
<1> DEFINE s == [IdleScan EXCEPT !.pc = pc]
<1>1. s \in ScanType /\ ScanOK(s) /\ IndexedRows(s.rows, snap)
  BY IdleTypes
<1>2. scan' = [scan EXCEPT ![w] = s]
  OBVIOUS
<1> HIDE DEF s
<1> QED
  BY <1>1, <1>2, ScanMovesTo

LEMMA Building ==
  ASSUME NEW current \in Gens, NEW building \in Gens, BuildingGeneration(current, building) <= MaxGen
  PROVE  BuildingGeneration(current, building) \in Gens \ {NoGen}
BY BoundsAssumption DEF BuildingGeneration, Gens, NoGen

LEMMA StartIInv == ASSUME IInv, NEW w \in Scanners, Start(w) \/ Crash(w) PROVE IInv'
<1> USE DEF IInv
<1>1. CASE Start(w)
  <2>1. lease' \in [Kinds -> LeaseType]
    BY <1>1 DEF EnvOK, Start, LeaseType, Free
  <2>2. EnvOK'
    BY <1>1, <2>1, EnvMoves DEF EnvOK, Start, StateOK
  <2> QED
    BY <1>1, <2>2, ScanGoesOn DEF Start, ScanMoves, ScanPhases, Passing
<1>2. CASE Crash(w)
  <2>1. EnvOK'
    BY <1>2, EnvStays DEF Crash
  <2> DEFINE s == [IdleScan EXCEPT !.pc = "down"]
  <2>2. s \in ScanType /\ ScanOK(s) /\ IndexedRows(s.rows, snap)
    BY IdleTypes
  <2>3. scan' = [scan EXCEPT ![w] = s]
    BY <1>2 DEF Crash
  <2>4. scan' \in [Scanners -> ScanType] /\ \A v \in Scanners : ScanOK(scan'[v]) /\ IndexedRows(scan'[v].rows, snap)
    <3> HIDE DEF s
    <3> QED
      BY <2>2, <2>3 DEF TablesOK
  <2>5. refresh' \in [Servers -> RefreshType] /\ \A v \in Servers : RefreshOK(refresh'[v]) /\ IndexedRefresh(refresh'[v], snap)
    BY <1>2, IdleTypes DEF Crash, TablesOK
  <2> QED
    BY <1>2, <2>1, <2>4, <2>5, TablesMove DEF Crash, TablesOK, Row
<1> QED
  BY <1>1, <1>2

LEMMA ScanStepIInv == ASSUME IInv, NEW w \in Scanners, ScanStep(w) PROVE IInv'
<1> USE DEF IInv
<1>0. scan[w] \in ScanType /\ ScanOK(scan[w]) /\ IndexedRows(scan[w].rows, snap)
  BY DEF TablesOK
<1>1. CASE PickScan(w)
  <2> DEFINE s == [scan[w] EXCEPT !.pc = "acquiring", !.current = state.current, !.building = state.building]
  <2>1. s \in ScanType /\ ScanOK(s) /\ s.rows = scan[w].rows
    BY <1>0 DEF EnvOK, StateOK, ScanType, ScanOK, ScanPhases, Passing
  <2>2. scan' = [scan EXCEPT ![w] = s]
    BY <1>1 DEF PickScan, TablesOK
  <2> HIDE DEF s
  <2> QED
    BY <1>0, <1>1, <2>1, <2>2, ScanMovesTo, EnvStays DEF PickScan
<1>2. CASE AcquireScan(w)
  <2>1. lease' \in [Kinds -> LeaseType]
    BY <1>2, LeaseMoves DEF AcquireScan, Kinds
  <2>2. StateOK'
    BY <1>2 DEF EnvOK, StateOK, AcquireScan, StartsScan, Earlier
  <2>3. EnvOK'
    BY <1>2, <2>1, <2>2, StartsScanEnv DEF AcquireScan
  <2> QED
    BY <1>2, <2>3, ScanGoesOn DEF AcquireScan, ScanMoves, ScanPhases, Passing
<1>3. CASE AcquireScanMisses(w)
  <2>1. scan' = [scan EXCEPT ![w] = [IdleScan EXCEPT !.pc = "idle"]]
    BY <1>3 DEF AcquireScanMisses, IdleScan
  <2> QED
    BY <1>3, <2>1, ScanGivenUp, EnvStays DEF AcquireScanMisses
<1>4. CASE BeginScan(w)
  <2> DEFINE gen == BuildingGeneration(scan[w].current, scan[w].building)
             s == [scan[w] EXCEPT !.pc = "listing", !.building = gen]
  <2>1. gen \in Gens \ {NoGen}
    BY <1>0, <1>4, Building DEF BeginScan, ScanType
  <2>2. scan' = [scan EXCEPT ![w] = s]
    BY <1>4 DEF BeginScan, TablesOK
  <2>3. state' = state \/ state' = [state EXCEPT !.building = gen]
    BY <1>4 DEF BeginScan
  <2> HIDE DEF gen
  <2>4. s \in ScanType /\ ScanOK(s) /\ s.rows = scan[w].rows
    BY <1>0, <2>1 DEF ScanType, ScanOK, ScanPhases, Passing
  <2>5. StateOK'
    BY <1>4, <2>1, <2>3, StateMoves DEF EnvOK, StateOK, BeginScan
  <2> HIDE DEF s
  <2> QED
    BY <1>0, <1>4, <2>2, <2>4, <2>5, ScanMovesTo, EnvMoves DEF EnvOK, BeginScan
<1>5. CASE BeginRefreshNow(w)
  <2> DEFINE gen == BuildingGeneration(state.current, state.building)
             s == [IdleScan EXCEPT !.pc = "listing", !.current = state.current, !.building = gen]
  <2>1. gen \in Gens \ {NoGen}
    BY <1>5, Building DEF BeginRefreshNow, EnvOK, StateOK
  <2>2. scan' = [scan EXCEPT ![w] = s] /\ state' = [state EXCEPT !.building = gen, !.since = Earlier(@, w)]
    BY <1>5 DEF BeginRefreshNow
  <2> HIDE DEF gen
  <2>3. s \in ScanType /\ ScanOK(s) /\ s.rows = NoRows
    BY <2>1, IdleTypes, NoRowsAre, ZenonT(60) DEF EnvOK, StateOK, IdleScan, ScanType, ScanOK, ScanPhases, Passing
  <2>4. IndexedRows(s.rows, snap)
    BY <2>3, NoRowsAre DEF IndexedRows
  <2>5. lease' \in [Kinds -> LeaseType]
    BY <1>5, LeaseMoves DEF BeginRefreshNow, Kinds
  <2>6. StateOK'
    BY <1>5, <2>1, <2>2 DEF EnvOK, StateOK, BeginRefreshNow, StartsScan, Earlier
  <2>7. EnvOK'
    BY <1>5, <2>5, <2>6, StartsScanEnv DEF BeginRefreshNow
  <2> HIDE DEF s
  <2> QED
    BY <1>5, <2>2, <2>3, <2>4, <2>7, ScanMovesTo DEF BeginRefreshNow
<1>6. CASE RefreshNowBlocked(w)
  BY <1>6, ScanGoesOn, EnvStays DEF RefreshNowBlocked, ScanPhases, Passing
<1>7. CASE ListPulls(w)
  <2> DEFINE l == [p \in OpenPulls |-> github[p].rev]
             s == [scan[w] EXCEPT !.pc = "reading snapshots", !.listing = l]
  <2>1. l \in Listings
    <3>1. l \in [OpenPulls -> 1..MaxRev] /\ OpenPulls \in SUBSET PRs
      BY DEF EnvOK, OpenPulls, PullType
    <3> QED
      BY <3>1 DEF Listings
  <2>2. scan' = [scan EXCEPT ![w] = s]
    BY <1>7 DEF ListPulls, TablesOK
  <2> HIDE DEF l
  <2>3. s \in ScanType /\ ScanOK(s) /\ s.rows = scan[w].rows
    BY <1>0, <1>7, <2>1 DEF ListPulls, ScanType, ScanOK, ScanPhases, Passing
  <2> HIDE DEF s
  <2> QED
    BY <1>0, <1>7, <2>2, <2>3, ScanMovesTo, EnvStays DEF ListPulls
<1>8. CASE BuildRows(w)
  <2> DEFINE l == scan[w].listing
             row(p) == [rev |-> l[p], fresh |-> DesiredFreshness(snap[p], l[p])]
             rows == [p \in DOMAIN l |-> row(p)]
             todo == {p \in DOMAIN l : snap[p].fresh # DesiredFreshness(snap[p], l[p])}
             s == [scan[w] EXCEPT !.pc = "preparing", !.rows = rows, !.unwritten = DOMAIN l, !.todo = todo]
  <2>1. scan' = [scan EXCEPT ![w] = s]
    BY <1>8 DEF BuildRows, TablesOK
  <2>2. DOMAIN l \subseteq PRs /\ l \in [DOMAIN l -> 1..MaxRev]
    BY <1>0 DEF ScanType, Listings
  <2>3. \A p \in DOMAIN l : /\ snap[p] \in Row /\ l[p] \in Nat /\ l[p] \in 0..MaxRev
    BY <2>2, BoundsAssumption DEF TablesOK
  <2>4. \A p \in DOMAIN l : /\ row(p) \in Row
                            /\ row(p).fresh = "current" => row(p).rev <= snap[p].rev
                            /\ p \in todo => row(p).fresh = "stale"
    BY <2>3, Desired DEF Row
  <2> HIDE DEF row
  <2>5. rows \in Rows /\ DOMAIN rows = DOMAIN l
    BY <2>2, <2>4, RowsAre
  <2>6. IndexedRows(rows, snap)
    BY <2>4 DEF IndexedRows
  <2>7. \A p \in todo : rows[p].fresh = "stale"
    BY <2>4
  <2>8. todo \subseteq DOMAIN l
    OBVIOUS
  <2> HIDE DEF rows, todo, l
  <2>9. s \in ScanType /\ ScanOK(s) /\ s.rows = rows
    <3>1. s \in ScanType
      BY <1>0, <2>2, <2>5, <2>8 DEF ScanType, ScanPhases, Passing
    <3>2. s.pc = "preparing" /\ s.building # NoGen /\ s.rows = rows /\ s.listing = l /\ s.unwritten = DOMAIN l /\ s.todo = todo
      BY <1>0, <1>8 DEF BuildRows, ScanType, ScanOK, Passing, l
    <3> QED
      BY <2>5, <2>7, <2>8, <3>1, <3>2 DEF ScanOK
  <2> HIDE DEF s
  <2> QED
    BY <1>8, <2>1, <2>6, <2>9, ScanMovesTo, EnvStays DEF BuildRows
<1>9. CASE PrepareGeneration(w)
  <2>1. inv' \in [1..MaxGen -> Rows] /\ \A g \in 1..MaxGen : IndexedRows(inv'[g], snap)
    BY <1>9, NoRowsAre DEF TablesOK, PrepareGeneration, IndexedRows
  <2> DEFINE s == [scan[w] EXCEPT !.pc = "writing"]
  <2>2. scan' = [scan EXCEPT ![w] = s] /\ s \in ScanType /\ ScanOK(s) /\ s.rows = scan[w].rows
    BY <1>0, <1>9 DEF TablesOK, PrepareGeneration, ScanMoves, ScanType, ScanOK, ScanPhases, Passing
  <2> HIDE DEF s
  <2>3. scan' \in [Scanners -> ScanType] /\ \A v \in Scanners : ScanOK(scan'[v]) /\ IndexedRows(scan'[v].rows, snap)
    BY <1>0, <2>2 DEF TablesOK
  <2>4. TablesOK'
    BY <1>9, <2>1, <2>3, TablesMove DEF TablesOK, PrepareGeneration, Row
  <2> QED
    BY <1>9, <2>4, EnvStays DEF PrepareGeneration
<1>10. CASE WriteBatch(w)
  <2>1. PICK p \in scan[w].unwritten :
          /\ inv' = [inv EXCEPT ![scan[w].building] = Upsert(inv[scan[w].building], p, scan[w].rows[p])]
          /\ scan' = [scan EXCEPT ![w].unwritten = scan[w].unwritten \ {p}]
    BY <1>0, <1>10, GenIs DEF WriteBatch, TablesOK, ScanOK, ScanType, Passing
  <2>2. scan[w].building \in 1..MaxGen
    BY <1>0, <1>10, GenIs DEF WriteBatch, ScanOK, ScanType, Passing
  <2>3. p \in DOMAIN scan[w].rows /\ p \in PRs /\ scan[w].rows[p] \in Row
    BY <1>0, <2>1, RowsAre DEF ScanOK, ScanType
  <2> DEFINE rows == Upsert(inv[scan[w].building], p, scan[w].rows[p])
  <2>4. rows \in Rows /\ IndexedRows(rows, snap)
    BY <1>0, <2>2, <2>3, UpsertRows DEF TablesOK, IndexedRows
  <2> HIDE DEF rows
  <2>5. inv' \in [1..MaxGen -> Rows] /\ \A g \in 1..MaxGen : IndexedRows(inv'[g], snap)
    BY <2>1, <2>2, <2>4 DEF TablesOK, rows
  <2> DEFINE s == [scan[w] EXCEPT !.unwritten = scan[w].unwritten \ {p}]
  <2>6. scan' = [scan EXCEPT ![w] = s] /\ s \in ScanType /\ ScanOK(s) /\ s.rows = scan[w].rows
    BY <1>0, <2>1 DEF TablesOK, ScanType, ScanOK
  <2> HIDE DEF s
  <2>7. scan' \in [Scanners -> ScanType] /\ \A v \in Scanners : ScanOK(scan'[v]) /\ IndexedRows(scan'[v].rows, snap)
    BY <1>0, <2>6 DEF TablesOK
  <2>8. TablesOK'
    BY <1>10, <2>5, <2>7, TablesMove DEF TablesOK, WriteBatch, Row
  <2> QED
    BY <1>10, <2>8, EnvStays DEF WriteBatch
<1>11. CASE EndWriting(w)
  BY <1>0, <1>11, ScanGoesOn, EnvStays DEF EndWriting, ScanMoves, ScanOK, ScanPhases, Passing
<1>12. CASE UpdateSnapshots(w)
  <2>1. \A p \in PRs : /\ snap[p] \in Row /\ snap[p].rev >= snap[p].rev
                       /\ [snap[p] EXCEPT !.fresh = "stale"] \in Row
                       /\ [snap[p] EXCEPT !.fresh = "stale"].rev >= snap[p].rev
    BY DEF TablesOK, Row, Fresh
  <2>2. snap' \in [PRs -> Row] /\ \A p \in PRs : snap'[p].rev >= snap[p].rev
    <3>1. \A p \in PRs : snap'[p] = snap[p] \/ snap'[p] = [snap[p] EXCEPT !.fresh = "stale"]
      BY <1>0, <1>12 DEF UpdateSnapshots, ScanOK
    <3> QED
      BY <1>12, <2>1, <3>1 DEF UpdateSnapshots
  <2> DEFINE s == [scan[w] EXCEPT !.pc = "committing"]
  <2>3. scan' = [scan EXCEPT ![w] = s] /\ s \in ScanType /\ ScanOK(s) /\ s.rows = scan[w].rows
    BY <1>0, <1>12 DEF TablesOK, UpdateSnapshots, ScanMoves, ScanType, ScanOK, ScanPhases, Passing
  <2> HIDE DEF s
  <2>4. scan' \in [Scanners -> ScanType] /\ \A v \in Scanners : ScanOK(scan'[v]) /\ IndexedRows(scan'[v].rows, snap)
    BY <1>0, <2>3 DEF TablesOK
  <2>5. TablesOK'
    BY <1>12, <2>2, <2>4, TablesMove DEF TablesOK, UpdateSnapshots
  <2> QED
    BY <1>12, <2>5, EnvStays DEF UpdateSnapshots
<1>13. CASE CommitScan(w)
  <2>1. StateOK'
    BY <1>0, <1>13, StateMoves DEF EnvOK, StateOK, CommitScan, ScanType
  <2>2. TablesOK'
    BY <1>0, <1>13, ScanGoesOn DEF CommitScan, ScanMoves, ScanOK, ScanPhases, Passing
  <2> QED
    BY <1>13, <2>1, <2>2, EnvMoves DEF EnvOK, CommitScan
<1>14. CASE CompleteScan(w) \/ FailScan(w)
  <2>1. StateOK' /\ lease' \in [Kinds -> LeaseType]
    BY <1>14, StateMoves, LeaseMoves, GenIs DEF EnvOK, StateOK, CompleteScan, FailScan, ClearBuilding, Kinds
  <2>2. TablesOK'
    BY <1>14, ScanGivenUp DEF CompleteScan, FailScan
  <2> QED
    BY <1>14, <2>1, <2>2, EnvMoves DEF EnvOK, CompleteScan, FailScan
<1> QED
  BY <1>1, <1>2, <1>3, <1>4, <1>5, <1>6, <1>7, <1>8, <1>9, <1>10, <1>11, <1>12, <1>13, <1>14 DEF ScanStep

LEMMA RevIs == \A n \in 0..MaxRev : n \in Nat /\ n >= n
BY BoundsAssumption

LEMMA RefreshStepIInv == ASSUME IInv, NEW w \in Servers, RefreshStep(w) PROVE IInv'
<1> USE DEF IInv
<1>0. /\ refresh[w] \in RefreshType /\ RefreshOK(refresh[w]) /\ IndexedRefresh(refresh[w], snap)
      /\ w \in Scanners
  BY DEF TablesOK, Scanners
<1> DEFINE r == refresh[w]
<1>1. CASE StartTargeted(w)
  <2>1. PICK p \in wanted : refresh' = [refresh EXCEPT ![w] =
                              [IdleRefresh EXCEPT !.pc = "fetching", !.lane = "targeted", !.pr = p]]
    BY <1>1 DEF StartTargeted
  <2> DEFINE s == [IdleRefresh EXCEPT !.pc = "fetching", !.lane = "targeted", !.pr = p]
  <2>2. s \in RefreshType /\ RefreshOK(s) /\ IndexedRefresh(s, snap)
    BY IdleTypes DEF EnvOK, IdleRefresh, RefreshType, RefreshOK, RefreshPhases, IndexedRefresh, NoSnapshot
  <2>3. refresh' = [refresh EXCEPT ![w] = s]
    BY <2>1
  <2> HIDE DEF s
  <2> QED
    BY <1>1, <2>2, <2>3, RefreshMovesTo, EnvStays DEF StartTargeted
<1>2. CASE PickBackfill(w)
  <2> DEFINE s == [IdleRefresh EXCEPT !.pc = "acquiring", !.lane = "backfill", !.gen = state.current]
  <2>1. s \in RefreshType /\ RefreshOK(s) /\ IndexedRefresh(s, snap)
    BY <1>2, IdleTypes DEF PickBackfill, EnvOK, StateOK, IdleRefresh, RefreshType, RefreshOK, RefreshPhases,
                           IndexedRefresh, NoSnapshot
  <2>2. refresh' = [refresh EXCEPT ![w] = s]
    BY <1>2 DEF PickBackfill
  <2> HIDE DEF s
  <2> QED
    BY <1>2, <2>1, <2>2, RefreshMovesTo, EnvStays DEF PickBackfill
<1>3. CASE AcquireBackfill(w)
  <2> DEFINE s == [r EXCEPT !.pc = "choosing"]
  <2>1. s \in RefreshType /\ RefreshOK(s) /\ IndexedRefresh(s, snap)
    BY <1>0, <1>3 DEF AcquireBackfill, RefreshMoves, RefreshType, RefreshOK, RefreshPhases, IndexedRefresh
  <2>2. refresh' = [refresh EXCEPT ![w] = s]
    BY <1>3 DEF AcquireBackfill, RefreshMoves, TablesOK
  <2>3. lease' \in [Kinds -> LeaseType] /\ StateOK'
    BY <1>0, <1>3, LeaseMoves DEF AcquireBackfill, Kinds, EnvOK, StateOK
  <2>4. EnvOK'
    BY <1>3, <2>3, EnvMoves DEF AcquireBackfill, EnvOK
  <2> HIDE DEF s
  <2> QED
    BY <1>3, <2>1, <2>2, <2>4, RefreshMovesTo DEF AcquireBackfill
<1>4. CASE AcquireBackfillMisses(w)
  BY <1>4, RefreshMovesTo, IdleTypes, EnvStays DEF AcquireBackfillMisses
<1>5. CASE ChooseCandidate(w)
  <2>1. r.gen \in 1..MaxGen /\ r.lane = "backfill"
    BY <1>0, <1>5, GenIs DEF ChooseCandidate, RefreshType, RefreshOK
  <2>2. CASE Candidates(r.gen) = {}
    <3> DEFINE s == [r EXCEPT !.pc = "finishing"]
    <3>1. s \in RefreshType /\ RefreshOK(s) /\ IndexedRefresh(s, snap)
      BY <1>0, <1>5 DEF ChooseCandidate, RefreshType, RefreshOK, RefreshPhases, IndexedRefresh
    <3>2. refresh' = [refresh EXCEPT ![w] = s]
      BY <1>5, <2>2 DEF ChooseCandidate, TablesOK
    <3> HIDE DEF s
    <3> QED
      BY <1>5, <3>1, <3>2, RefreshMovesTo, EnvStays DEF ChooseCandidate
  <2>3. CASE Candidates(r.gen) # {}
    <3>1. PICK p \in Candidates(r.gen) :
            refresh' = [refresh EXCEPT ![w].pc = "fetching", ![w].pr = p, ![w].row = inv[r.gen][p]]
      BY <1>5, <2>3 DEF ChooseCandidate
    <3>2. inv[r.gen] \in Rows /\ IndexedRows(inv[r.gen], snap) /\ p \in DOMAIN inv[r.gen]
      BY <2>1 DEF TablesOK, Candidates
    <3>3. p \in PRs /\ inv[r.gen][p] \in Row
      BY <3>2, RowsAre
    <3> DEFINE s == [r EXCEPT !.pc = "fetching", !.pr = p, !.row = inv[r.gen][p]]
    <3>4. s \in RefreshType
      BY <1>0, <3>3 DEF RefreshType, RefreshPhases
    <3>5. RefreshOK(s)
      BY <1>0, <2>1, <3>3 DEF RefreshOK, RefreshType
    <3>6. IndexedRefresh(s, snap)
      BY <1>0, <3>2, <3>3 DEF IndexedRefresh, IndexedRows, RefreshType
    <3>7. refresh' = [refresh EXCEPT ![w] = s]
      BY <3>1 DEF TablesOK
    <3> HIDE DEF s
    <3> QED
      BY <1>5, <3>4, <3>5, <3>6, <3>7, RefreshMovesTo, EnvStays DEF ChooseCandidate
  <2> QED
    BY <2>2, <2>3
<1>6. CASE FetchPull(w)
  <2> DEFINE s == [r EXCEPT !.pc = "indexing", !.rev = github[r.pr].rev, !.open = github[r.pr].open]
  <2>1. github[r.pr].rev \in 0..MaxRev /\ github[r.pr].open \in BOOLEAN
    BY <1>0, <1>6 DEF FetchPull, RefreshOK, EnvOK, PullType
  <2>2. s \in RefreshType /\ RefreshOK(s) /\ IndexedRefresh(s, snap)
    BY <1>0, <1>6, <2>1 DEF FetchPull, RefreshType, RefreshOK, RefreshPhases, IndexedRefresh
  <2>3. refresh' = [refresh EXCEPT ![w] = s]
    BY <1>6 DEF FetchPull, TablesOK
  <2> HIDE DEF s
  <2> QED
    BY <1>6, <2>2, <2>3, RefreshMovesTo, EnvStays DEF FetchPull
<1>7. CASE IndexPull(w)
  <2> DEFINE pc == IF r.lane = "targeted" THEN "reading state" ELSE "reconciling"
             s == [r EXCEPT !.pc = pc]
  <2>1. s \in RefreshType /\ RefreshOK(s) /\ IndexedRefresh(s, snap)
    BY <1>0, <1>7 DEF IndexPull, RefreshMoves, RefreshType, RefreshOK, RefreshPhases, IndexedRefresh
  <2>2. refresh' = [refresh EXCEPT ![w] = s]
    BY <1>7 DEF IndexPull, RefreshMoves, TablesOK
  <2> HIDE DEF s
  <2>3. refresh' \in [Servers -> RefreshType] /\ \A v \in Servers : RefreshOK(refresh'[v]) /\ IndexedRefresh(refresh'[v], snap)
    BY <2>1, <2>2 DEF TablesOK
  <2>4. PICK n \in r.rev..github[r.pr].rev, f \in {"current", "stale"} :
          n >= snap[r.pr].rev /\ snap' = [snap EXCEPT ![r.pr] = [rev |-> n, fresh |-> f]]
    BY <1>7 DEF IndexPull
  <2>5. r.pr \in PRs /\ n \in 0..MaxRev
    <3>1. r.pr \in PRs
      BY <1>0, <1>7 DEF IndexPull, RefreshMoves, RefreshOK
    <3>2. github[r.pr].rev \in 1..MaxRev /\ r.rev \in 0..MaxRev
      BY <1>0, <3>1 DEF RefreshType, EnvOK, PullType
    <3> QED
      BY <2>4, <3>1, <3>2, BoundsAssumption
  <2>6. [rev |-> n, fresh |-> f] \in Row /\ \A p \in PRs : snap[p] \in Row /\ snap[p].rev >= snap[p].rev
    BY <2>5 DEF Row, Fresh, TablesOK
  <2>7. snap' \in [PRs -> Row] /\ \A p \in PRs : snap'[p].rev >= snap[p].rev
    BY <2>4, <2>5, <2>6 DEF TablesOK
  <2>8. TablesOK'
    BY <1>7, <2>3, <2>7, TablesMove DEF IndexPull, TablesOK
  <2> QED
    BY <1>7, <2>8, EnvStays DEF IndexPull
<1>8. CASE SyncPullFails(w)
  <2>1. wanted' \subseteq PRs /\ EnvOK'
    BY <1>8, EnvMoves DEF SyncPullFails, EnvOK, StateOK
  <2>2. CASE refresh' = [refresh EXCEPT ![w] = IdleRefresh]
    BY <1>8, <2>1, <2>2, RefreshMovesTo, IdleTypes DEF SyncPullFails
  <2>3. CASE r.lane = "backfill" /\ refresh' = [refresh EXCEPT ![w].pc = "advancing",
                                   ![w].row.fresh = IF r.row.fresh = "missing" THEN "stale" ELSE r.row.fresh]
    <3> DEFINE f == IF r.row.fresh = "missing" THEN "stale" ELSE r.row.fresh
               row == [r.row EXCEPT !.fresh = f]
               s == [r EXCEPT !.pc = "advancing", !.row = row]
    <3>1. row \in Row /\ row.rev = r.row.rev /\ (row.fresh = "current" => r.row.fresh = "current")
      BY <1>0 DEF RefreshType, Row, Fresh
    <3>2. refresh' = [refresh EXCEPT ![w] = s]
      BY <1>0, <2>3 DEF TablesOK, RefreshType, Row
    <3> HIDE DEF row
    <3>3. s \in RefreshType /\ RefreshOK(s) /\ IndexedRefresh(s, snap)
      BY <1>0, <1>8, <2>3, <3>1 DEF SyncPullFails, RefreshType, RefreshOK, RefreshPhases, IndexedRefresh
    <3> HIDE DEF s
    <3> QED
      BY <1>8, <2>1, <3>2, <3>3, RefreshMovesTo DEF SyncPullFails
  <2> QED
    BY <1>8, <2>2, <2>3 DEF SyncPullFails
<1>9. CASE ReadState(w)
  <2> DEFINE pc == IF state.current = NoGen THEN "finishing" ELSE "reconciling"
             s == [r EXCEPT !.gen = state.current, !.pc = pc]
  <2>1. s \in RefreshType /\ RefreshOK(s) /\ IndexedRefresh(s, snap)
    BY <1>0, <1>9 DEF ReadState, EnvOK, StateOK, RefreshType, RefreshOK, RefreshPhases, IndexedRefresh
  <2>2. refresh' = [refresh EXCEPT ![w] = s]
    BY <1>9 DEF ReadState, TablesOK
  <2> HIDE DEF s
  <2> QED
    BY <1>9, <2>1, <2>2, RefreshMovesTo, EnvStays DEF ReadState
<1>10. CASE ReconcileTargeted(w)
  <2> DEFINE p == r.pr
             fresh == DesiredFreshness(snap[p], r.rev)
             row == [rev |-> r.rev, fresh |-> fresh]
             rows == IF r.open THEN Upsert(inv[r.gen], p, row) ELSE Restrict(inv[r.gen], DOMAIN inv[r.gen] \ {p})
             s == [r EXCEPT !.pc = "finishing"]
  <2>1. p \in PRs /\ r.gen \in 1..MaxGen /\ r.rev \in 0..MaxRev /\ r.rev \in Nat /\ snap[p] \in Row
    <3>1. p \in PRs /\ r.gen \in 1..MaxGen
      BY <1>0, <1>10, GenIs DEF ReconcileTargeted, RefreshMoves, RefreshOK, RefreshType
    <3> QED
      BY <1>0, <3>1, RevIs DEF RefreshType, TablesOK
  <2>2. /\ snap' = IF snap[p] = NoSnapshot THEN snap ELSE [snap EXCEPT ![p].fresh = fresh]
        /\ inv' = [inv EXCEPT ![r.gen] = rows] /\ state' = [state EXCEPT !.counts = Counts(rows)]
    BY <1>10 DEF ReconcileTargeted
  <2>3. row \in Row /\ fresh \in Fresh /\ (row.fresh = "current" => row.rev <= snap[p].rev)
    BY <2>1, Desired DEF Row
  <2> HIDE DEF fresh, row
  <2>4. rows \in Rows /\ IndexedRows(rows, snap)
    <3>1. inv[r.gen] \in Rows /\ IndexedRows(inv[r.gen], snap)
      BY <2>1 DEF TablesOK
    <3> QED
      BY <2>1, <2>3, <3>1, UpsertRows, RestrictRows
  <2> HIDE DEF rows
  <2>5. inv' \in [1..MaxGen -> Rows] /\ \A g \in 1..MaxGen : IndexedRows(inv'[g], snap)
    BY <2>1, <2>2, <2>4 DEF TablesOK
  <2>6. snap' \in [PRs -> Row] /\ \A q \in PRs : snap'[q].rev >= snap[q].rev
    <3>1. [snap[p] EXCEPT !.fresh = fresh] \in Row /\ [snap[p] EXCEPT !.fresh = fresh].rev >= snap[p].rev
          /\ \A q \in PRs : snap[q].rev >= snap[q].rev
      BY <2>1, <2>3 DEF TablesOK, Row
    <3> QED
      BY <2>1, <2>2, <3>1 DEF TablesOK
  <2>7. s \in RefreshType /\ RefreshOK(s) /\ IndexedRefresh(s, snap)
    BY <1>0, <1>10 DEF ReconcileTargeted, RefreshMoves, RefreshType, RefreshOK, RefreshPhases, IndexedRefresh
  <2>8. refresh' = [refresh EXCEPT ![w] = s]
    BY <1>10 DEF ReconcileTargeted, RefreshMoves, TablesOK
  <2> HIDE DEF s
  <2>9. refresh' \in [Servers -> RefreshType] /\ \A v \in Servers : RefreshOK(refresh'[v]) /\ IndexedRefresh(refresh'[v], snap)
    BY <2>7, <2>8 DEF TablesOK
  <2>10. TablesOK'
    BY <1>10, <2>5, <2>6, <2>9, TablesMove DEF ReconcileTargeted, TablesOK
  <2>11. StateOK'
    BY <1>10, <2>2, StateMoves DEF ReconcileTargeted, EnvOK, StateOK
  <2> QED
    BY <1>10, <2>10, <2>11, EnvMoves DEF ReconcileTargeted, EnvOK
<1>11. CASE FinishTargeted(w)
  <2>1. EnvOK'
    BY <1>11, EnvMoves DEF FinishTargeted, EnvOK, StateOK
  <2> QED
    BY <1>11, <2>1, RefreshMovesTo, IdleTypes DEF FinishTargeted
<1>12. CASE ReconcileBackfill(w)
  <2> DEFINE p == r.pr
             fresh == DesiredFreshness(snap[p], r.rev)
             row == [rev |-> r.rev, fresh |-> fresh]
             s == [r EXCEPT !.pc = "advancing", !.row = row]
  <2>1. p \in PRs /\ r.rev \in 0..MaxRev /\ r.rev \in Nat /\ snap[p] \in Row /\ r.lane = "backfill"
    <3>1. p \in PRs /\ r.lane = "backfill"
      BY <1>0, <1>12 DEF ReconcileBackfill, RefreshOK
    <3> QED
      BY <1>0, <3>1, RevIs DEF RefreshType, TablesOK
  <2>2. snap' = [snap EXCEPT ![p].fresh = fresh] /\ refresh' = [refresh EXCEPT ![w] = s]
    BY <1>12 DEF ReconcileBackfill, TablesOK
  <2>3. row \in Row /\ fresh \in Fresh /\ (row.fresh = "current" => row.rev <= snap[p].rev)
    BY <2>1, Desired DEF Row
  <2> HIDE DEF fresh, row
  <2>4. snap' \in [PRs -> Row] /\ \A q \in PRs : snap'[q].rev >= snap[q].rev
    <3>1. [snap[p] EXCEPT !.fresh = fresh] \in Row /\ [snap[p] EXCEPT !.fresh = fresh].rev = snap[p].rev
      BY <2>1, <2>3 DEF Row
    <3>2. \A q \in PRs : snap[q].rev >= snap[q].rev
      BY RevIs DEF TablesOK, Row
    <3> QED
      BY <2>1, <2>2, <3>1, <3>2 DEF TablesOK
  <2>5. s \in RefreshType /\ RefreshOK(s)
    BY <1>0, <1>12, <2>1, <2>3 DEF RefreshType, RefreshOK, RefreshPhases, ReconcileBackfill
  <2>6. IndexedRefresh(s, snap)
    BY <1>0, <2>1, <2>3 DEF RefreshType, IndexedRefresh
  <2> HIDE DEF s
  <2>7. refresh' \in [Servers -> RefreshType] /\ \A v \in Servers : RefreshOK(refresh'[v]) /\ IndexedRefresh(refresh'[v], snap)
    BY <2>2, <2>5, <2>6 DEF TablesOK
  <2>8. TablesOK'
    BY <1>12, <2>4, <2>7, TablesMove DEF ReconcileBackfill, TablesOK
  <2> QED
    BY <1>12, <2>8, EnvStays DEF ReconcileBackfill
<1>13. CASE AdvanceBackfill(w)
  <2> DEFINE p == r.pr
             rows == [inv[r.gen] EXCEPT ![p] = r.row]
             n == AdjustedCounts(state.counts, inv[r.gen][p].fresh, r.row.fresh)
             s == [r EXCEPT !.pc = "finishing"]
  <2>1. r.gen \in 1..MaxGen /\ p \in DOMAIN inv[r.gen] /\ r.row \in Row /\ p \in PRs
    BY <1>0, <1>13, GenIs DEF AdvanceBackfill, RefreshMoves, RefreshOK, RefreshType
  <2>2. inv' = [inv EXCEPT ![r.gen] = rows]
    BY <1>13 DEF AdvanceBackfill, TablesOK
  <2>3. state' = [state EXCEPT !.counts = n]
    BY <1>13 DEF AdvanceBackfill
  <2> HIDE DEF n
  <2>4. rows \in Rows /\ IndexedRows(rows, snap)
    <3>1. inv[r.gen] \in Rows /\ IndexedRows(inv[r.gen], snap)
      BY <2>1 DEF TablesOK
    <3> QED
      BY <1>0, <2>1, <3>1, RowsAre DEF IndexedRows, IndexedRefresh
  <2> HIDE DEF rows
  <2>5. inv' \in [1..MaxGen -> Rows] /\ \A g \in 1..MaxGen : IndexedRows(inv'[g], snap)
    BY <2>1, <2>2, <2>4 DEF TablesOK
  <2>6. s \in RefreshType /\ RefreshOK(s) /\ IndexedRefresh(s, snap)
    BY <1>0, <1>13 DEF AdvanceBackfill, RefreshMoves, RefreshType, RefreshOK, RefreshPhases, IndexedRefresh
  <2>7. refresh' = [refresh EXCEPT ![w] = s]
    BY <1>13 DEF AdvanceBackfill, RefreshMoves, TablesOK
  <2> HIDE DEF s
  <2>8. refresh' \in [Servers -> RefreshType] /\ \A v \in Servers : RefreshOK(refresh'[v]) /\ IndexedRefresh(refresh'[v], snap)
    BY <2>6, <2>7 DEF TablesOK
  <2>9. TablesOK'
    BY <1>13, <2>5, <2>8, TablesMove DEF AdvanceBackfill, TablesOK, Row
  <2>10. StateOK'
    BY <1>13, <2>3, StateMoves DEF AdvanceBackfill, EnvOK, StateOK
  <2> QED
    BY <1>13, <2>9, <2>10, EnvMoves DEF AdvanceBackfill, EnvOK
<1>14. CASE FinishBackfill(w)
  <2>1. lease' \in [Kinds -> LeaseType]
    BY <1>0, <1>14, LeaseMoves DEF FinishBackfill, Kinds
  <2>2. EnvOK'
    BY <1>14, <2>1, EnvMoves DEF FinishBackfill, EnvOK, StateOK
  <2> QED
    BY <1>14, <2>2, RefreshMovesTo, IdleTypes DEF FinishBackfill
<1>15. CASE FailBackfill(w)
  <2>1. lease' \in [Kinds -> LeaseType]
    BY <1>0, <1>15, LeaseMoves DEF FailBackfill, Kinds
  <2>2. EnvOK'
    BY <1>15, <2>1, EnvMoves DEF FailBackfill, EnvOK, StateOK
  <2> DEFINE s == [scan[w] EXCEPT !.pc = "down"]
  <2>3. scan' = [scan EXCEPT ![w] = s] /\ s \in ScanType /\ ScanOK(s) /\ s.rows = scan[w].rows
    BY <1>0, <1>15, ZenonT(60) DEF FailBackfill, TablesOK, ScanType, ScanOK, ScanPhases, Passing
  <2> HIDE DEF s
  <2>4. scan' \in [Scanners -> ScanType] /\ \A v \in Scanners : ScanOK(scan'[v]) /\ IndexedRows(scan'[v].rows, snap)
    BY <1>0, <2>3 DEF TablesOK
  <2>5. refresh' \in [Servers -> RefreshType] /\ \A v \in Servers : RefreshOK(refresh'[v]) /\ IndexedRefresh(refresh'[v], snap)
    BY <1>15, IdleTypes DEF FailBackfill, TablesOK
  <2>6. TablesOK'
    BY <1>15, <2>4, <2>5, TablesMove DEF FailBackfill, TablesOK, Row
  <2> QED
    BY <2>2, <2>6
<1> QED
  BY <1>1, <1>2, <1>3, <1>4, <1>5, <1>6, <1>7, <1>8, <1>9, <1>10, <1>11, <1>12, <1>13, <1>14, <1>15 DEF RefreshStep

LEMMA NextIInv == IInv /\ [Next]_vars => IInv'
<1> SUFFICES ASSUME IInv, [Next]_vars PROVE IInv'
  OBVIOUS
<1>1. CASE UNCHANGED vars
  BY <1>1, EnvStays, TablesStay DEF vars, IInv
<1>2. CASE Next
  BY <1>2, EnvironmentIInv, WebhooksIInv, StartIInv, ScanStepIInv, RefreshStepIInv DEF Next
<1> QED
  BY <1>1, <1>2

\* The inductive invariant of tables and processes, whatever overlaps, pauses or dies.
THEOREM Invariant == Spec => []IInv
BY InitIInv, NextIInv, PTL DEF Spec

\* Every record of the tables, the repository's row and the processes has its type.
THEOREM TypeCorrect == Spec => []TypeOK
<1>1. IInv => TypeOK
  <2> SUFFICES ASSUME IInv PROVE TypeOK
    OBVIOUS
  <2>1. \A w \in Scanners : scan[w].building \in Gens /\ scan[w].rows \in Rows
    BY DEF IInv, TablesOK, ScanType
  <2>2. \A w \in Servers : refresh[w].pr \in PRs \cup {NoOne} /\ refresh[w].gen \in Gens
    BY DEF IInv, TablesOK, RefreshType
  <2> QED
    BY <2>1, <2>2 DEF IInv, TypeOK, EnvOK, TablesOK, StateOK, PullType, LeaseType, ProcType
<1> QED
  BY <1>1, Invariant, PTL

\* A row that says current, published or under construction, is of a revision that has
\* been indexed, whichever scans and refreshes read and write at the same time.
THEOREM CurrentRowsAreIndexed == Spec => []CurrentRowsIndexed
<1>1. IInv => CurrentRowsIndexed
  BY DEF IInv, TablesOK, IndexedRows, CurrentRowsIndexed
<1> QED
  BY <1>1, Invariant, PTL

\* The steps that touch snapshots: a webhook, a scan and a reconciliation may take
\* "current" away and never give it.
LEMMA SnapshotsTurnCurrent ==
  ASSUME IInv, Next, NEW p \in PRs, snap[p].fresh # "current", snap'[p].fresh = "current"
  PROVE  \E w \in Servers : refresh[w].pc = "indexing" /\ refresh[w].pr = p
<1>0. /\ snap \in [PRs -> Row] /\ snap[p] \in Row
      /\ \A w \in Servers : refresh[w] \in RefreshType /\ RefreshOK(refresh[w])
      /\ \A w \in Scanners : ScanOK(scan[w])
  BY DEF IInv, TablesOK
<1>1. CASE snap' = snap
  BY <1>1
<1>2. CASE ProcStaleSnapshots
  <2>1. snap'[p] = snap[p] \/ snap'[p] = [snap[p] EXCEPT !.fresh = "stale"]
    <3>1. \/ snap' = snap
          \/ snap' = [q \in PRs |-> IF snap[q] = NoSnapshot THEN NoSnapshot
                                    ELSE [snap[q] EXCEPT !.fresh = "stale"]]
      BY <1>2 DEF ProcStaleSnapshots
    <3> QED
      BY <3>1
  <2> QED
    BY <1>0, <2>1 DEF Row
<1>3. ASSUME NEW w \in Scanners, UpdateSnapshots(w) PROVE FALSE
  <2>1. snap'[p] = snap[p] \/ snap'[p] = [snap[p] EXCEPT !.fresh = "stale"]
    BY <1>0, <1>3 DEF UpdateSnapshots, ScanOK
  <2> QED
    BY <1>0, <2>1 DEF Row
<1>4. ASSUME NEW w \in Servers, IndexPull(w) PROVE refresh[w].pc = "indexing" /\ refresh[w].pr = p
  BY <1>0, <1>4 DEF IndexPull, RefreshMoves
<1>5. ASSUME NEW w \in Servers, ReconcileTargeted(w) \/ ReconcileBackfill(w) PROVE FALSE
  <2> DEFINE q == refresh[w].pr
             fresh == DesiredFreshness(snap[q], refresh[w].rev)
  <2>1. q \in PRs /\ refresh[w].rev \in Nat /\ snap[q] \in Row
    BY <1>0, <1>5, RevIs DEF ReconcileTargeted, ReconcileBackfill, RefreshMoves, RefreshOK, RefreshType
  <2>2. fresh = "current" => snap[q].fresh = "current"
    BY <2>1, Desired
  <2>3. snap' = snap \/ snap' = [snap EXCEPT ![q].fresh = fresh]
    BY <1>5 DEF ReconcileTargeted, ReconcileBackfill
  <2> HIDE DEF fresh
  <2> QED
    BY <1>0, <2>1, <2>2, <2>3 DEF Row
<1>6. CASE Environment
  BY <1>1, <1>6 DEF Environment, OpenOrClose, PushHead, PushBase, FallQuiet, Heartbeat
<1>7. CASE Webhooks
  BY <1>1, <1>2, <1>7 DEF Webhooks, BeginAccept, FinishAccept, BeginProcess, ProcEnqueue, ProcReadState,
                          ProcStaleRows, ProcMarkDirty, ProcDone, ProcFails, ProcGivesUp
<1>8. ASSUME NEW w \in Scanners, Start(w) \/ Crash(w) \/ ScanStep(w) PROVE snap' = snap
  BY <1>3, <1>8 DEF Start, Crash, ScanStep, PickScan, AcquireScan, AcquireScanMisses, BeginScan,
       BeginRefreshNow, RefreshNowBlocked, ListPulls, BuildRows, PrepareGeneration, WriteBatch, EndWriting,
       CommitScan, CompleteScan, FailScan
<1>9. ASSUME NEW w \in Servers, RefreshStep(w) PROVE IndexPull(w) \/ snap' = snap
  BY <1>5, <1>9 DEF RefreshStep, StartTargeted, PickBackfill, AcquireBackfill, AcquireBackfillMisses,
       ChooseCandidate, FetchPull, SyncPullFails, ReadState, FinishTargeted, AdvanceBackfill,
       FinishBackfill, FailBackfill
<1> QED
  BY <1>1, <1>4, <1>6, <1>7, <1>8, <1>9 DEF Next

\* A snapshot becomes current again only when its pull request is indexed.
THEOREM CurrentByIndexing == Spec => OnlyIndexingMakesCurrent
<1> DEFINE A == \A p \in PRs : snap[p].fresh # "current" /\ snap'[p].fresh = "current" =>
                  \E w \in Servers : refresh[w].pc = "indexing" /\ refresh[w].pr = p
<1>1. IInv /\ [Next]_vars => [A]_vars
  BY SnapshotsTurnCurrent
<1> QED
  BY <1>1, Invariant, PTL DEF Spec, OnlyIndexingMakesCurrent

-----------------------------------------------------------------------------
(* Orderly, for one server at a time *)

\* What announces a change goes on announcing it.
Announcing ==
  /\ OneProcessing'
  /\ Announced => Announced'
  /\ \A w \in Servers : w \in started /\ AnnouncedAfter(w) => AnnouncedAfter(w)'

\* One delivery moves on; what it is stays.
LEMMA EventMoves ==
  ASSUME IInv, NEW e \in Deliveries, NEW stage \in Stages, NEW seen,
         events' = [events EXCEPT ![e] = [events[e] EXCEPT !.stage = stage, !.seen = seen]]
  PROVE  /\ events'[e].kind = events[e].kind /\ events'[e].stage = stage
         /\ \A d \in Deliveries \ {e} : events'[d] = events[d]
BY DEF IInv, EnvOK, EventType

LEMMA NewEventAnnounces ==
  ASSUME IInv, OneProcessing, NEW kind \in EventKinds, NEW p, NewEvent(kind, p), UNCHANGED <<proc, state, started, givenUp>>
  PROVE  /\ Announcing
         /\ kind = "membership" => Announced' /\ \A w \in Servers : AnnouncedAfter(w)'
<1>1. PICK d \in Deliveries :
        /\ events[d].kind = "none" /\ events[d].stage = "none"
        /\ events'[d].kind = kind /\ events'[d].stage # "processing"
        /\ \A e \in Deliveries \ {d} : events'[e] = events[e]
  BY DEF NewEvent, NoEvent, IInv, EnvOK
<1>2. OneProcessing'
  BY <1>1 DEF OneProcessing
<1>3. \A e \in Deliveries : Coming(e) => e # d
  BY <1>1 DEF Coming
<1>4. Announced => Announced'
  BY <1>1, <1>3 DEF Announced, Coming
<1>5. \A w \in Servers : AnnouncedAfter(w) => AnnouncedAfter(w)'
  BY <1>1, <1>3 DEF AnnouncedAfter, ComingAfter, Coming, Kept, Owed
<1>6. kind = "membership" => Announced' /\ \A w \in Servers : AnnouncedAfter(w)'
  BY <1>1 DEF Announced, AnnouncedAfter, ComingAfter, Coming
<1> QED
  BY <1>2, <1>4, <1>5, <1>6 DEF Announcing

LEMMA WebhooksAnnounce == ASSUME IInv, OneProcessing, Environment \/ Webhooks PROVE Announcing
<1> USE DEF IInv
<1>1. ASSUME NEW p \in PRs, OpenOrClose(p) \/ PushHead(p) PROVE Announcing
  BY <1>1, NewEventAnnounces DEF OpenOrClose, PushHead, EventKinds
<1>2. CASE PushBase
  BY <1>2, NewEventAnnounces DEF PushBase, EventKinds
<1>3. CASE UNCHANGED <<events, proc, state, started, givenUp>>
  BY <1>3 DEF Announcing, OneProcessing, Announced, AnnouncedAfter, ComingAfter, Coming, Kept, Owed
<1>4. ASSUME NEW e \in Deliveries, BeginAccept(e) PROVE Announcing
  <2>1. events' = [events EXCEPT ![e] = [events[e] EXCEPT !.stage = "accepting", !.seen = started]]
        /\ UNCHANGED <<proc, state, started, givenUp>> /\ events[e].stage = "sent"
    BY <1>4 DEF EnvOK, BeginAccept
  <2>2. /\ events'[e].kind = events[e].kind /\ events'[e].stage = "accepting"
        /\ \A d \in Deliveries \ {e} : events'[d] = events[d]
    BY <2>1, EventMoves DEF Stages
  <2> QED
    BY <2>1, <2>2 DEF Announcing, OneProcessing, Announced, AnnouncedAfter, ComingAfter, Coming, Kept, Owed
<1>5. ASSUME NEW e \in Deliveries, FinishAccept(e) PROVE Announcing
  <2>1. events' = [events EXCEPT ![e] = [events[e] EXCEPT !.stage = "queued", !.seen = {}]]
        /\ UNCHANGED <<proc, started, givenUp>> /\ events[e].stage = "accepting"
    BY <1>5 DEF EnvOK, FinishAccept
  <2>2. /\ events'[e].kind = events[e].kind /\ events'[e].stage = "queued"
        /\ \A d \in Deliveries \ {e} : events'[d] = events[d]
    BY <2>1, EventMoves DEF Stages
  <2>3. \/ events[e].kind = "membership" /\ state'.dirty
        \/ events[e].kind # "membership" /\ state' = state
    BY <1>5 DEF FinishAccept, MarkedDirty, EnvOK, StateOK
  <2>4. OneProcessing' /\ (Announced => Announced')
    BY <2>1, <2>2, <2>3 DEF OneProcessing, Announced, Coming
  <2>5. \A d \in Deliveries, w \in Servers : ComingAfter(d, w) => ComingAfter(d, w)'
    BY <2>1, <2>2 DEF ComingAfter, Coming
  <2>6. \A w \in Servers : Kept(w) => Kept(w)' \/ ComingAfter(e, w)'
    BY <2>1, <2>2, <2>3 DEF ComingAfter, Coming, Kept, Owed
  <2> QED
    BY <2>1, <2>4, <2>5, <2>6 DEF Announcing, AnnouncedAfter, Owed
<1>6. ASSUME NEW e \in Deliveries, BeginProcess(e) PROVE Announcing
  <2>1. /\ events' = [events EXCEPT ![e] = [events[e] EXCEPT !.stage = "processing", !.seen = events[e].seen]]
        /\ UNCHANGED <<state, started, givenUp>> /\ events[e].stage = "queued" /\ proc.pc = "idle"
        /\ proc'.pc # "done" /\ proc'.pc # "idle" /\ proc'.event = e /\ proc'.seen = started
    BY <1>6 DEF EnvOK, BeginProcess, Stage, EventType
  <2>2. /\ events'[e].kind = events[e].kind /\ events'[e].stage = "processing"
        /\ \A d \in Deliveries \ {e} : events'[d] = events[d]
    BY <2>1, EventMoves DEF Stages
  <2>3. \A d \in Deliveries : events[d].stage # "processing"
    BY <2>1 DEF OneProcessing
  <2>4. OneProcessing' /\ (Announced => Announced')
    BY <2>1, <2>2, <2>3 DEF OneProcessing, Announced, Coming
  <2>5. \A w \in Servers : w \in started /\ AnnouncedAfter(w) => AnnouncedAfter(w)'
    BY <2>1, <2>2, <2>3 DEF AnnouncedAfter, ComingAfter, Coming, Kept, Owed
  <2> QED
    BY <2>4, <2>5 DEF Announcing
<1>7. CASE ProcEnqueue \/ ProcStaleSnapshots \/ ProcReadState \/ ProcStaleRows
  <2>1. /\ UNCHANGED <<events, started, givenUp>> /\ state'.dirty = state.dirty /\ state'.since = state.since
        /\ proc.pc \notin {"idle", "done"} /\ proc'.pc # "idle" /\ proc'.event = proc.event /\ proc'.seen = proc.seen
        /\ proc'.pc = "done" => events[proc.event].kind # "membership"
    BY <1>7 DEF ProcEnqueue, ProcStaleSnapshots, ProcReadState, ProcStaleRows, ProcMoves, EnvOK, ProcType, StateOK
  <2>2. \A e \in Deliveries : events[e].stage = "processing" => e = proc.event
    BY DEF OneProcessing
  <2>3. OneProcessing' /\ (Announced => Announced')
    BY <2>1, <2>2 DEF OneProcessing, Announced, Coming
  <2>4. \A w \in Servers : AnnouncedAfter(w) => AnnouncedAfter(w)'
    BY <2>1, <2>2 DEF AnnouncedAfter, ComingAfter, Coming, Kept, Owed
  <2> QED
    BY <2>3, <2>4 DEF Announcing
<1>8. CASE ProcMarkDirty
  <2>1. /\ UNCHANGED <<events, started, givenUp>> /\ state'.dirty /\ state'.since = proc.seen
        /\ proc.pc = "mark dirty" /\ proc'.pc = "done" /\ proc'.event = proc.event /\ proc'.seen = proc.seen
    BY <1>8 DEF ProcMarkDirty, ProcMoves, MarkedDirty, EnvOK, ProcType, StateOK
  <2>2. \A e \in Deliveries : events[e].stage = "processing" => e = proc.event
    BY DEF OneProcessing
  <2>3. OneProcessing' /\ Announced'
    BY <2>1, <2>2 DEF OneProcessing, Announced
  <2>4. \A w \in Servers : AnnouncedAfter(w) => AnnouncedAfter(w)'
    BY <2>1, <2>2 DEF AnnouncedAfter, ComingAfter, Coming, Kept, Owed
  <2> QED
    BY <2>3, <2>4 DEF Announcing
<1>9. CASE ProcDone
  <2>1. PICK d \in Deliveries : d = proc.event /\ events[d].stage = "processing"
    BY <1>9 DEF ProcDone, EnvOK, ProcOK
  <2>2. /\ UNCHANGED <<state, started, givenUp>> /\ proc.pc = "done" /\ proc'.pc = "idle"
        /\ events'[d].stage = "none" /\ \A e \in Deliveries \ {d} : events'[e] = events[e]
    BY <1>9, <2>1 DEF ProcDone, EnvOK, IdleProc, NoEvent
  <2>3. \A e \in Deliveries : events[e].stage = "processing" => e = d
    BY <2>1 DEF OneProcessing
  <2>4. OneProcessing' /\ (Announced => Announced')
    BY <2>1, <2>2, <2>3 DEF OneProcessing, Announced, Coming
  <2>5. \A w \in Servers : AnnouncedAfter(w) => AnnouncedAfter(w)'
    BY <2>1, <2>2, <2>3 DEF AnnouncedAfter, ComingAfter, Coming, Kept, Owed
  <2> QED
    BY <2>4, <2>5 DEF Announcing
<1>10. CASE ProcFails
  <2>1. PICK d \in Deliveries : d = proc.event /\ events[d].stage = "processing"
    BY <1>10 DEF ProcFails, EnvOK, ProcOK
  <2>2. /\ UNCHANGED <<state, started, givenUp>> /\ proc'.pc = "idle"
        /\ events' = [events EXCEPT ![d] = [events[d] EXCEPT !.stage = "queued", !.seen = events[d].seen]]
    BY <1>10, <2>1 DEF ProcFails, Stage, EnvOK, EventType, IdleProc
  <2>3. /\ events'[d].kind = events[d].kind /\ events'[d].stage = "queued"
        /\ \A e \in Deliveries \ {d} : events'[e] = events[e]
    BY <2>2, EventMoves DEF Stages
  <2>4. \A e \in Deliveries : events[e].stage = "processing" => e = d
    BY <2>1 DEF OneProcessing
  <2>5. OneProcessing' /\ (Announced => Announced')
    BY <2>1, <2>2, <2>3, <2>4 DEF OneProcessing, Announced, Coming
  <2>6. \A w \in Servers : AnnouncedAfter(w) => AnnouncedAfter(w)'
    BY <2>1, <2>2, <2>3, <2>4 DEF AnnouncedAfter, ComingAfter, Coming, Kept, Owed
  <2> QED
    BY <2>5, <2>6 DEF Announcing
<1>11. CASE ProcGivesUp
  <2>1. PICK d \in Deliveries : d = proc.event /\ events[d].stage = "processing"
    BY <1>11 DEF ProcGivesUp, EnvOK, ProcOK
  <2>2. /\ UNCHANGED <<state, started>> /\ proc'.pc = "idle"
        /\ events'[d].stage = "none" /\ events'[d].kind = "none"
        /\ \A e \in Deliveries \ {d} : events'[e] = events[e]
    BY <1>11, <2>1 DEF ProcGivesUp, EnvOK, IdleProc, NoEvent
  <2>3. /\ givenUp' = givenUp \/ (givenUp'.dirty /\ givenUp'.since = started)
        /\ events[d].kind = "membership" => givenUp'.dirty /\ givenUp'.since = started
    BY <1>11, <2>1 DEF ProcGivesUp
  <2>4. \A e \in Deliveries : events[e].stage = "processing" => e = d
    BY <2>1 DEF OneProcessing
  <2>5. OneProcessing' /\ (Announced => Announced')
    BY <2>1, <2>2, <2>3, <2>4 DEF OneProcessing, Announced, Coming
  <2>6. \A w \in Servers : w \in started /\ AnnouncedAfter(w) => AnnouncedAfter(w)'
    BY <2>1, <2>2, <2>3, <2>4 DEF AnnouncedAfter, ComingAfter, Coming, Kept, Owed
  <2> QED
    BY <2>5, <2>6 DEF Announcing
<1> QED
  BY <1>1, <1>2, <1>3, <1>4, <1>5, <1>6, <1>7, <1>8, <1>9, <1>10, <1>11 DEF Environment, FallQuiet, Heartbeat, Webhooks

\* What webhooks, GitHub and time leave alone.
LEMMA WebhooksFrame ==
  ASSUME IInv, Environment \/ Webhooks
  PROVE  /\ state'.current = state.current /\ state'.building = state.building
         /\ UNCHANGED <<scan, refresh, started>>
         /\ lease'["fetch"].owner = lease["fetch"].owner
         /\ \A g \in 1..MaxGen : DOMAIN inv'[g] = DOMAIN inv[g]
         /\ (\E p \in PRs : OpenOrClose(p)) \/ \A p \in PRs : github'[p].open = github[p].open
<1> USE DEF IInv
<1>1. UNCHANGED <<scan, refresh, started>>
  BY DEF Environment, OpenOrClose, PushHead, PushBase, FallQuiet, Heartbeat,
         Webhooks, BeginAccept, FinishAccept, BeginProcess, ProcEnqueue, ProcStaleSnapshots, ProcReadState,
         ProcStaleRows, ProcMarkDirty, ProcDone, ProcFails, ProcGivesUp
<1>2. state'.current = state.current /\ state'.building = state.building
  BY ZenonT(60) DEF EnvOK, StateOK, MarkedDirty, Environment, OpenOrClose, PushHead, PushBase, FallQuiet, Heartbeat,
         Webhooks, BeginAccept, FinishAccept, BeginProcess, ProcEnqueue, ProcStaleSnapshots, ProcReadState,
         ProcStaleRows, ProcMarkDirty, ProcDone, ProcFails, ProcGivesUp
<1>3. lease'["fetch"].owner = lease["fetch"].owner
  <2>1. CASE lease' = lease
    BY <2>1
  <2>2. ASSUME NEW k \in Kinds, FallQuiet(k) \/ Heartbeat(k) PROVE lease'["fetch"].owner = lease["fetch"].owner
    BY <2>2 DEF EnvOK, LeaseType, Kinds, FallQuiet, Heartbeat
  <2> QED
    BY <2>1, <2>2 DEF Environment, OpenOrClose, PushHead, PushBase,
         Webhooks, BeginAccept, FinishAccept, BeginProcess, ProcEnqueue, ProcStaleSnapshots, ProcReadState,
         ProcStaleRows, ProcMarkDirty, ProcDone, ProcFails, ProcGivesUp
<1>4. \A g \in 1..MaxGen : DOMAIN inv'[g] = DOMAIN inv[g]
  <2>1. CASE inv' = inv
    BY <2>1
  <2>2. CASE ProcStaleRows
    BY <2>2 DEF ProcStaleRows, TablesOK
  <2> QED
    BY <2>1, <2>2 DEF Environment, OpenOrClose, PushHead, PushBase, FallQuiet, Heartbeat,
         Webhooks, BeginAccept, FinishAccept, BeginProcess, ProcEnqueue, ProcStaleSnapshots, ProcReadState,
         ProcMarkDirty, ProcDone, ProcFails, ProcGivesUp
<1>5. (\E p \in PRs : OpenOrClose(p)) \/ \A p \in PRs : github'[p].open = github[p].open
  <2>1. ASSUME NEW p \in PRs, PushHead(p) PROVE \A q \in PRs : github'[q].open = github[q].open
    BY <2>1 DEF PushHead, EnvOK, PullType
  <2>2. CASE github' = github
    BY <2>2
  <2> QED
    BY <2>1, <2>2 DEF Environment, PushBase, FallQuiet, Heartbeat,
         Webhooks, BeginAccept, FinishAccept, BeginProcess, ProcEnqueue, ProcStaleSnapshots, ProcReadState,
         ProcStaleRows, ProcMarkDirty, ProcDone, ProcFails, ProcGivesUp
<1> QED
  BY <1>1, <1>2, <1>3, <1>4, <1>5

\* The published rows are those of a generation there is.
LEMMA MembersAre == IInv => state.current \in Gens /\ Members \subseteq PRs
                            /\ (state.current # NoGen => state.current \in 1..MaxGen /\ Members = DOMAIN inv[state.current])
<1> SUFFICES ASSUME IInv PROVE /\ state.current \in Gens /\ Members \subseteq PRs
                               /\ state.current # NoGen => state.current \in 1..MaxGen /\ Members = DOMAIN inv[state.current]
  OBVIOUS
<1>1. state.current \in Gens /\ (state.current # NoGen => state.current \in 1..MaxGen)
  BY GenIs DEF IInv, EnvOK, StateOK
<1>2. \A g \in 1..MaxGen : DOMAIN inv[g] \subseteq PRs
  BY RowsAre DEF IInv, TablesOK
<1> QED
  BY <1>1, <1>2 DEF Members

LEMMA WebhooksOrderly ==
  ASSUME Orderly, OneByOne, Environment \/ Webhooks PROVE OrderlyParts'
<1> USE DEF Orderly, OrderlyParts
<1>1. IInv' /\ Announcing
  BY EnvironmentIInv, WebhooksIInv, WebhooksAnnounce
<1>2. /\ state'.current = state.current /\ state'.building = state.building
      /\ scan' = scan /\ refresh' = refresh /\ started' = started
      /\ lease'["fetch"].owner = lease["fetch"].owner
      /\ \A g \in 1..MaxGen : DOMAIN inv'[g] = DOMAIN inv[g]
  BY WebhooksFrame
<1>3. \/ Announced' /\ \A w \in Servers : AnnouncedAfter(w)'
      \/ \A p \in PRs : github'[p].open = github[p].open
  BY WebhooksFrame, NewEventAnnounces DEF OpenOrClose, EventKinds
<1>4. OneAlive' /\ NextGeneration'
  BY <1>2 DEF OneAlive, Alive, NextGeneration
<1>5. Members' = Members
  BY <1>2, MembersAre DEF Members
<1>6. PublishedOK'
  BY <1>1, <1>2, <1>3, <1>5 DEF PublishedOK, Announcing
<1>7. ASSUME NEW w \in Servers PROVE Owned(w)'
  <2>1. scan[w].pc \in Passing => scan[w].building \in 1..MaxGen
    BY GenIs DEF IInv, TablesOK, ScanType, ScanOK, Scanners
  <2>2. Owned(w)
    OBVIOUS
  <2> QED
    BY <1>2, <2>1, <2>2 DEF Owned, Passing
<1>8. ASSUME NEW w \in Servers PROVE ListingOK(w)'
  <2>1. ListingOK(w) /\ (scan[w].pc \in Passing => w \in started)
    BY DEF Owned
  <2> QED
    BY <1>1, <1>2, <1>3, <2>1 DEF ListingOK, Announcing
<1>9. ASSUME NEW w \in Servers PROVE FetchedOK(w)'
  <2>1. FetchedOK(w) /\ (refresh[w].pc \in {"indexing", "reading state", "reconciling"} => refresh[w].pr \in PRs)
    BY DEF IInv, TablesOK, RefreshOK
  <2> QED
    BY <1>1, <1>2, <1>3, <2>1 DEF FetchedOK, Announcing
<1> QED
  BY <1>1, <1>4, <1>6, <1>7, <1>8, <1>9 DEF Announcing

\* A process that is not alive has nothing under way.
LEMMA OthersOrderly ==
  ASSUME Orderly, NEW v \in Servers, ~Alive(v), scan'[v] = scan[v], refresh'[v] = refresh[v]
  PROVE  ~Alive(v)' /\ Owned(v)' /\ ListingOK(v)' /\ FetchedOK(v)'
<1>1. scan[v].pc \in {"new", "down"} /\ refresh[v].pc = "idle"
  BY DEF Orderly, OrderlyParts, Owned, Alive
<1> QED
  BY <1>1 DEF Alive, Owned, ListingOK, FetchedOK, Passing

\* A step of a process that publishes nothing and announces nothing.
LEMMA NothingPublished ==
  ASSUME Orderly, github' = github, state'.current = state.current, state'.dirty = state.dirty,
         givenUp'.dirty = givenUp.dirty,
         \A e \in Deliveries : events'[e].kind = events[e].kind /\ events'[e].stage = events[e].stage,
         proc'.pc = proc.pc, proc'.event = proc.event,
         state.current # NoGen => DOMAIN inv'[state.current] = DOMAIN inv[state.current]
  PROVE  OneProcessing' /\ PublishedOK' /\ (Announced => Announced')
<1> USE DEF Orderly, OrderlyParts
<1>1. Announced => Announced'
  BY DEF Announced, Coming
<1>2. Members' = Members
  BY DEF Members
<1> QED
  BY <1>1, <1>2 DEF OneProcessing, PublishedOK

\* A scan builds the generation after the published one.
LEMMA BuildsNext ==
  ASSUME Orderly, NEW w \in Servers, scan[w].pc \in Passing
  PROVE  /\ scan[w].building = state.current + 1 /\ scan[w].building \in 1..MaxGen
         /\ state.current # scan[w].building /\ scan[w].current = state.current
<1>1. scan[w].building # NoGen /\ scan[w].building \in Gens /\ state.current \in Gens
  BY DEF Orderly, IInv, TablesOK, ScanOK, ScanType, EnvOK, StateOK, Scanners
<1>2. scan[w].building = state.building /\ scan[w].current = state.current
  BY DEF Orderly, OrderlyParts, Owned
<1>3. \A v \in Servers : scan[v].pc # "completing"
  BY DEF Orderly, OrderlyParts, OneAlive, Alive, Passing
<1>4. state.building = state.current + 1
  BY <1>1, <1>2, <1>3 DEF Orderly, OrderlyParts, NextGeneration
<1> QED
  BY <1>1, <1>2, <1>4, GenIs DEF Gens

LEMMA StartOrderly ==
  ASSUME Orderly, OneByOne, NEW w \in Servers, Start(w) \/ Crash(w) PROVE OrderlyParts'
<1>0. Scanners = Servers /\ scan \in [Servers -> ScanType] /\ refresh \in [Servers -> RefreshType]
  BY DEF Orderly, IInv, TablesOK, OneByOne, Scanners
<1>1. scan' = [scan EXCEPT ![w] = scan'[w]] /\ refresh' = [refresh EXCEPT ![w] = refresh'[w]]
  BY <1>0 DEF Start, Crash, ScanMoves
<1>2. \A v \in Servers \ {w} : scan'[v] = scan[v] /\ refresh'[v] = refresh[v] /\ ~Alive(v)
  <2>1. \A v \in Servers \ {w} : scan'[v] = scan[v] /\ refresh'[v] = refresh[v]
    BY <1>0, <1>1
  <2>2. \A v \in Servers \ {w} : ~Alive(v)
    BY DEF Orderly, OrderlyParts, OneAlive, Start, Crash, OneByOne
  <2> QED
    BY <2>1, <2>2
<1>3. \A v \in Servers \ {w} : ~Alive(v)' /\ Owned(v)' /\ ListingOK(v)' /\ FetchedOK(v)'
  BY <1>2, OthersOrderly
<1>4. scan'[w].pc \in {"idle", "down"} /\ refresh'[w].pc = "idle"
  <2>1. CASE Start(w)
    <3>1. scan[w].pc = "new" /\ scan'[w].pc = "idle"
      BY <1>0, <2>1 DEF Start, ScanMoves, ScanType
    <3>2. refresh[w].pc = "idle"
      BY <3>1 DEF Orderly, OrderlyParts, Owned
    <3> QED
      BY <2>1, <3>1, <3>2 DEF Start
  <2>2. CASE Crash(w)
    BY <1>0, <2>2 DEF Crash, IdleScan, IdleRefresh
  <2> QED
    BY <2>1, <2>2
<1>5. Owned(w)' /\ ListingOK(w)' /\ FetchedOK(w)'
  BY <1>4 DEF Owned, ListingOK, FetchedOK, Passing
<1>6. OneAlive'
  BY <1>3 DEF OneAlive
<1>7. NextGeneration'
  <2>1. scan[w].pc # "completing"
    BY DEF Start, Crash, ScanMoves, OneByOne
  <2>2. \A v \in Servers \ {w} : scan[v].pc # "completing"
    BY <1>2 DEF Alive
  <2> QED
    BY <2>1, <2>2 DEF Orderly, OrderlyParts, NextGeneration, Start, Crash
<1>8. OneProcessing' /\ PublishedOK'
  BY NothingPublished DEF Start, Crash
<1> QED
  BY <1>3, <1>5, <1>6, <1>7, <1>8 DEF OrderlyParts

\* What a step of one live server must show: the others are not alive.
LEMMA StepOrderly ==
  ASSUME Orderly, OneByOne, NEW w \in Servers, Alive(w),
         scan' = [scan EXCEPT ![w] = scan'[w]], refresh' = [refresh EXCEPT ![w] = refresh'[w]],
         OneProcessing', PublishedOK', Owned(w)', ListingOK(w)', FetchedOK(w)',
         scan'[w].pc = "completing" \/ state'.building \in {NoGen, state'.current + 1}
  PROVE  OrderlyParts'
<1>1. \A v \in Servers \ {w} : scan'[v] = scan[v] /\ refresh'[v] = refresh[v] /\ ~Alive(v)
  <2>1. Servers \subseteq Scanners /\ scan \in [Scanners -> ScanType] /\ refresh \in [Servers -> RefreshType]
    BY DEF Orderly, IInv, TablesOK, Scanners
  <2>2. \A v \in Servers \ {w} : scan'[v] = scan[v] /\ refresh'[v] = refresh[v]
    BY <2>1
  <2>3. \A v \in Servers \ {w} : ~Alive(v)
    BY DEF Orderly, OrderlyParts, OneAlive
  <2> QED
    BY <2>2, <2>3
<1>2. \A v \in Servers \ {w} : ~Alive(v)' /\ Owned(v)' /\ ListingOK(v)' /\ FetchedOK(v)'
  BY <1>1, OthersOrderly
<1>3. OneAlive'
  BY <1>2 DEF OneAlive
<1>4. NextGeneration'
  BY DEF NextGeneration
<1> QED
  BY <1>2, <1>3, <1>4 DEF OrderlyParts

LEMMA AfterStays ==
  ASSUME UNCHANGED <<events, proc, state, givenUp>>, NEW w \in Servers, AnnouncedAfter(w) PROVE AnnouncedAfter(w)'
BY DEF AnnouncedAfter, ComingAfter, Coming, Kept, Owed

\* A generation under construction may be emptied and filled: readers do not see it.
LEMMA MembersStay ==
  ASSUME Orderly, UNCHANGED state, NEW w \in Servers, scan[w].pc \in Passing,
         \A g \in 1..MaxGen : g # scan[w].building /\ g = scan[w].current => DOMAIN inv'[g] = DOMAIN inv[g]
  PROVE  state.current # NoGen => DOMAIN inv'[state.current] = DOMAIN inv[state.current]
BY BuildsNext, MembersAre DEF Orderly

LEMMA ScanStepOrderly ==
  ASSUME Orderly, OneByOne, NEW w \in Scanners, ScanStep(w) PROVE OrderlyParts'
<1>0. /\ w \in Servers /\ Scanners = Servers /\ w \notin Operators
      /\ scan \in [Servers -> ScanType] /\ refresh \in [Servers -> RefreshType]
      /\ scan[w] \in ScanType /\ ScanOK(scan[w])
      /\ IInv /\ StateOK /\ EnvOK /\ TablesOK
      /\ Owned(w) /\ ListingOK(w) /\ FetchedOK(w)
  BY DEF Orderly, OrderlyParts, OneByOne, Scanners, IInv, TablesOK, EnvOK
<1> DEFINE s == scan[w]
<1>1. Alive(w) /\ scan' = [scan EXCEPT ![w] = scan'[w]] /\ refresh' = [refresh EXCEPT ![w] = refresh'[w]]
      /\ refresh' = refresh
  <2>1. refresh' = refresh
    BY DEF ScanStep, PickScan, AcquireScan, AcquireScanMisses, BeginScan, BeginRefreshNow, RefreshNowBlocked,
           ListPulls, BuildRows, PrepareGeneration, WriteBatch, EndWriting, UpdateSnapshots, CommitScan,
           CompleteScan, FailScan
  <2>2. Alive(w)
    BY <1>0 DEF ScanStep, PickScan, Idle, ScanMoves, AcquireScan, AcquireScanMisses, BeginScan, BeginRefreshNow,
           RefreshNowBlocked, ListPulls, BuildRows, PrepareGeneration, WriteBatch, EndWriting, UpdateSnapshots,
           CommitScan, CompleteScan, FailScan, Alive, Passing
  <2>3. \A v \in Servers \ {w} : scan'[v] = scan[v]
    BY <1>0 DEF ScanStep, PickScan, Idle, ScanMoves, AcquireScan, AcquireScanMisses, BeginScan, BeginRefreshNow,
           RefreshNowBlocked, ListPulls, BuildRows, PrepareGeneration, WriteBatch, EndWriting, UpdateSnapshots,
           CommitScan, CompleteScan, FailScan
  <2>4. scan' \in [Servers -> ScanType]
    BY <1>0, ScanStepIInv DEF IInv, TablesOK
  <2> QED
    BY <1>0, <2>1, <2>2, <2>3, <2>4
<1>2. s.pc # "completing" => state.building \in {NoGen, state.current + 1}
  BY <1>0, <1>1 DEF Orderly, OrderlyParts, NextGeneration, OneAlive, Alive
<1>3. s.pc # "idle" => refresh[w].pc = "idle"
  BY <1>0 DEF Owned
<1>4. CASE PickScan(w)
  <2>1. /\ scan'[w].pc = "acquiring" /\ scan'[w].current = state.current /\ scan'[w].building = state.building
        /\ refresh[w].pc = "idle" /\ s.pc = "idle"
    BY <1>0, <1>4 DEF PickScan, Idle, ScanType
  <2>2. OneProcessing' /\ PublishedOK'
    BY <1>4, NothingPublished DEF PickScan
  <2>3. Owned(w)' /\ ListingOK(w)' /\ FetchedOK(w)'
    BY <1>1, <1>4, <2>1 DEF PickScan, Owned, ListingOK, FetchedOK, Passing
  <2> QED
    BY <1>0, <1>1, <1>2, <1>4, <2>1, <2>2, <2>3, StepOrderly DEF PickScan
<1>5. CASE AcquireScan(w)
  <2>1. /\ scan'[w] = [s EXCEPT !.pc = "beginning"] /\ s.pc = "acquiring"
        /\ lease'["fetch"].owner = w /\ w \in started'
        /\ state'.current = state.current /\ state'.building = state.building /\ state'.dirty = state.dirty
    BY <1>0, <1>5 DEF AcquireScan, ScanMoves, ScanType, StartsScan, EnvOK, StateOK, Held, Kinds
  <2>2. /\ \A e \in Deliveries : events'[e].kind = events[e].kind /\ events'[e].stage = events[e].stage
        /\ proc'.pc = proc.pc /\ proc'.event = proc.event /\ givenUp'.dirty = givenUp.dirty
    BY <1>0, <1>5 DEF AcquireScan, StartsScan, EnvOK, EventType, ProcType
  <2>3. OneProcessing' /\ PublishedOK'
    BY <1>5, <2>1, <2>2, NothingPublished DEF AcquireScan
  <2>4. scan'[w].pc = "beginning" /\ scan'[w].current = state'.current /\ scan'[w].building = state'.building
    BY <1>0, <2>1 DEF Owned, ScanType
  <2>5. Owned(w)' /\ ListingOK(w)' /\ FetchedOK(w)'
    BY <1>1, <1>3, <2>1, <2>4 DEF Owned, ListingOK, FetchedOK, Passing
  <2> QED
    BY <1>0, <1>1, <1>2, <2>1, <2>3, <2>5, StepOrderly
<1>6. CASE AcquireScanMisses(w)
  <2>1. scan'[w].pc = "idle" /\ s.pc = "acquiring"
    BY <1>0, <1>6 DEF AcquireScanMisses, IdleScan
  <2>2. OneProcessing' /\ PublishedOK'
    BY <1>6, NothingPublished DEF AcquireScanMisses
  <2>3. Owned(w)' /\ ListingOK(w)' /\ FetchedOK(w)'
    BY <1>1, <1>3, <2>1 DEF Owned, ListingOK, FetchedOK, Passing
  <2> QED
    BY <1>0, <1>1, <1>2, <1>6, <2>1, <2>2, <2>3, StepOrderly DEF AcquireScanMisses
<1>7. CASE BeginScan(w)
  <2> DEFINE gen == BuildingGeneration(s.current, s.building)
  <2>1. s.pc = "beginning" /\ s.current = state.current /\ s.building = state.building
        /\ lease["fetch"].owner = w /\ w \in started
    BY <1>0, <1>7 DEF BeginScan, Owned
  <2>2. gen = state.current + 1
    BY <1>0, <1>2, <2>1, BoundsAssumption DEF BuildingGeneration, StateOK, Gens, NoGen
  <2>3. scan'[w] = [s EXCEPT !.pc = "listing", !.building = state.current + 1]
        /\ state' = [state EXCEPT !.building = state.current + 1]
    BY <1>0, <1>7, <2>1, <2>2 DEF BeginScan
  <2>4. /\ scan'[w].pc = "listing" /\ scan'[w].current = state'.current /\ scan'[w].building = state'.building
        /\ state'.current = state.current /\ state'.building = state.current + 1 /\ state'.dirty = state.dirty
    BY <1>0, <2>1, <2>3 DEF ScanType, StateOK
  <2>5. OneProcessing' /\ PublishedOK'
    BY <1>7, <2>4, NothingPublished DEF BeginScan
  <2>6. Owned(w)' /\ ListingOK(w)' /\ FetchedOK(w)'
    BY <1>1, <1>3, <1>7, <2>1, <2>4 DEF BeginScan, Owned, ListingOK, FetchedOK, Passing
  <2> QED
    BY <1>0, <1>1, <2>4, <2>5, <2>6, StepOrderly
<1>8. CASE ListPulls(w)
  <2>1. /\ scan'[w] = [s EXCEPT !.pc = "reading snapshots", !.listing = [p \in OpenPulls |-> github[p].rev]]
        /\ s.pc = "listing"
    BY <1>0, <1>8 DEF ListPulls
  <2>2. /\ scan'[w].pc = "reading snapshots" /\ scan'[w].current = s.current /\ scan'[w].building = s.building
        /\ DOMAIN scan'[w].listing = OpenPulls
    BY <1>0, <2>1 DEF ScanType
  <2>3. OneProcessing' /\ PublishedOK'
    BY <1>8, NothingPublished DEF ListPulls
  <2>4. Owned(w)' /\ FetchedOK(w)'
    BY <1>0, <1>1, <1>3, <1>8, <2>1, <2>2 DEF ListPulls, Owned, FetchedOK, Passing
  <2>5. ListingOK(w)'
    <3>1. \A p \in PRs : github[p].open \in BOOLEAN /\ (p \in OpenPulls <=> github[p].open)
      BY <1>0 DEF EnvOK, PullType, OpenPulls
    <3>2. \A p \in PRs : (p \in OpenPulls) = github[p].open
      BY <3>1
    <3>3. github' = github
      BY <1>8 DEF ListPulls
    <3> QED
      BY <2>2, <3>2, <3>3, Zenon DEF ListingOK
  <2> QED
    BY <1>0, <1>1, <1>2, <1>8, <2>1, <2>3, <2>4, <2>5, StepOrderly DEF ListPulls
<1>9. CASE BuildRows(w)
  <2>1. /\ scan'[w].pc = "preparing" /\ scan'[w].current = s.current /\ scan'[w].building = s.building
        /\ scan'[w].listing = s.listing /\ scan'[w].unwritten = DOMAIN s.listing /\ s.pc = "reading snapshots"
    BY <1>0, <1>9 DEF BuildRows, ScanType
  <2>2. OneProcessing' /\ PublishedOK'
    BY <1>9, NothingPublished DEF BuildRows
  <2>3. Owned(w)' /\ FetchedOK(w)'
    BY <1>0, <1>1, <1>3, <1>9, <2>1 DEF BuildRows, Owned, FetchedOK, Passing
  <2>4. ListingOK(w)'
    BY <1>0, <1>9, <2>1, AfterStays DEF BuildRows, ListingOK, Passing
  <2> QED
    BY <1>0, <1>1, <1>2, <1>9, <2>1, <2>2, <2>3, <2>4, StepOrderly DEF BuildRows
<1>10. CASE PrepareGeneration(w)
  <2>1. scan'[w] = [s EXCEPT !.pc = "writing"] /\ s.pc = "preparing"
    BY <1>0, <1>10 DEF PrepareGeneration, ScanMoves
  <2>2. /\ scan'[w].pc = "writing" /\ scan'[w].current = s.current /\ scan'[w].building = s.building
        /\ scan'[w].listing = s.listing /\ scan'[w].unwritten = s.unwritten
    BY <1>0, <2>1 DEF ScanType
  <2>3. s.building \in 1..MaxGen
    BY <1>0, <2>1, BuildsNext DEF Passing
  <2>4. /\ DOMAIN inv'[s.building] = {}
        /\ state.current # NoGen => DOMAIN inv'[state.current] = DOMAIN inv[state.current]
    BY <1>0, <1>10, <2>1, <2>3, NoRowsAre, MembersStay DEF PrepareGeneration, Passing
  <2>5. OneProcessing' /\ PublishedOK'
    BY <1>10, <2>4, NothingPublished DEF PrepareGeneration
  <2>6. Owned(w)' /\ FetchedOK(w)'
    BY <1>0, <1>1, <1>3, <1>10, <2>1, <2>2, <2>4 DEF PrepareGeneration, Owned, FetchedOK, Passing
  <2>7. ListingOK(w)'
    BY <1>0, <1>10, <2>1, <2>2, AfterStays DEF PrepareGeneration, ListingOK, Passing
  <2> QED
    BY <1>0, <1>1, <1>2, <1>10, <2>1, <2>5, <2>6, <2>7, StepOrderly DEF PrepareGeneration
<1>11. CASE WriteBatch(w)
  <2>1. PICK p \in s.unwritten :
          /\ inv' = [inv EXCEPT ![s.building] = Upsert(inv[s.building], p, s.rows[p])]
          /\ scan' = [scan EXCEPT ![w].unwritten = s.unwritten \ {p}]
    BY <1>0, <1>11, BuildsNext DEF WriteBatch, Passing, TablesOK
  <2>2. s.pc = "writing" /\ s.building \in 1..MaxGen
    BY <1>0, <1>11, BuildsNext DEF WriteBatch, Passing
  <2>3. /\ scan'[w].pc = "writing" /\ scan'[w].current = s.current /\ scan'[w].building = s.building
        /\ scan'[w].listing = s.listing /\ scan'[w].unwritten = s.unwritten \ {p}
    BY <1>0, <2>1, <2>2 DEF ScanType
  <2>4. DOMAIN s.rows = DOMAIN s.listing /\ p \in DOMAIN s.listing
    BY <1>0, <2>2 DEF ScanOK
  <2>5. /\ DOMAIN inv'[s.building] = DOMAIN inv[s.building] \cup {p}
        /\ \A g \in 1..MaxGen : g # s.building => inv'[g] = inv[g]
    BY <1>0, <2>1, <2>2 DEF TablesOK, Upsert
  <2>6. state.current # NoGen => DOMAIN inv'[state.current] = DOMAIN inv[state.current]
    BY <1>0, <1>11, <2>2, <2>5, MembersStay DEF WriteBatch, Passing
  <2>7. OneProcessing' /\ PublishedOK'
    BY <1>11, <2>6, NothingPublished DEF WriteBatch
  <2>8. Owned(w)' /\ FetchedOK(w)'
    <3>1. DOMAIN inv[s.building] = DOMAIN s.listing \ s.unwritten
      BY <1>0, <2>2 DEF Owned
    <3>2. DOMAIN inv'[s.building] = DOMAIN s.listing \ (s.unwritten \ {p})
      BY <2>4, <2>5, <3>1
    <3> QED
      BY <1>0, <1>1, <1>3, <1>11, <2>2, <2>3, <3>2 DEF WriteBatch, Owned, FetchedOK, Passing
  <2>9. ListingOK(w)'
    BY <1>0, <1>11, <2>2, <2>3, AfterStays DEF WriteBatch, ListingOK, Passing
  <2> QED
    BY <1>0, <1>1, <1>2, <1>11, <2>2, <2>7, <2>8, <2>9, StepOrderly DEF WriteBatch
<1>12. CASE EndWriting(w) \/ UpdateSnapshots(w)
  <2>1. /\ scan'[w] = [s EXCEPT !.pc = scan'[w].pc]
        /\ UNCHANGED <<github, inv, state, lease, events, proc, started, givenUp>>
        /\ \/ s.pc = "writing" /\ scan'[w].pc = "updating snapshots" /\ s.unwritten = {}
           \/ s.pc = "updating snapshots" /\ scan'[w].pc = "committing"
    <3>1. CASE EndWriting(w)
      <4>1. scan'[w] = [s EXCEPT !.pc = "updating snapshots"]
        BY <1>0, <3>1 DEF EndWriting, ScanMoves
      <4> QED
        BY <1>0, <3>1, <4>1 DEF EndWriting, ScanMoves, ScanType
    <3>2. CASE UpdateSnapshots(w)
      <4>1. scan'[w] = [s EXCEPT !.pc = "committing"]
        BY <1>0, <3>2 DEF UpdateSnapshots, ScanMoves
      <4> QED
        BY <1>0, <3>2, <4>1 DEF UpdateSnapshots, ScanMoves, ScanType
    <3> QED
      BY <1>12, <3>1, <3>2
  <2>2. /\ scan'[w].current = s.current /\ scan'[w].building = s.building
        /\ scan'[w].listing = s.listing /\ scan'[w].unwritten = s.unwritten
    BY <1>0, <2>1 DEF ScanType
  <2>3. OneProcessing' /\ PublishedOK'
    BY <2>1, NothingPublished
  <2>4. Owned(w)' /\ FetchedOK(w)'
    BY <1>0, <1>1, <1>3, <2>1, <2>2 DEF Owned, FetchedOK, Passing
  <2>5. ListingOK(w)'
    BY <1>0, <2>1, <2>2, AfterStays DEF ListingOK, Passing
  <2> QED
    BY <1>0, <1>1, <1>2, <2>1, <2>3, <2>4, <2>5, StepOrderly
<1>13. CASE CommitScan(w)
  <2>1. /\ scan'[w] = [s EXCEPT !.pc = "completing"] /\ s.pc = "committing"
        /\ state' = [RetainedDirty(state, w) EXCEPT !.current = s.building, !.counts = Counts(s.rows)]
        /\ UNCHANGED <<github, inv, lease, events, proc, started>>
    BY <1>0, <1>13 DEF CommitScan, ScanMoves
  <2>2. scan'[w].pc = "completing" /\ scan'[w].building = s.building /\ state'.current = s.building
    BY <1>0, <2>1 DEF ScanType, StateOK, RetainedDirty
  <2>3. s.building \in 1..MaxGen /\ s.building # NoGen
    BY <1>0, <2>1, BuildsNext, GenIs DEF Passing, ScanOK
  <2>4. Members' = DOMAIN s.listing
    BY <1>0, <2>1, <2>2, <2>3 DEF Members, Owned
  <2>5. state.dirty /\ w \in state.since => state'.dirty
    BY <1>0, <2>1 DEF StateOK, RetainedDirty
  <2>6. AnnouncedAfter(w) => Announced'
    BY <1>13, <2>1, <2>5 DEF CommitScan, RetainedDirty, AnnouncedAfter, Kept, Owed, ComingAfter, Coming, Announced
  <2>7. PublishedOK'
    BY <1>0, <2>1, <2>4, <2>6 DEF PublishedOK, ListingOK, Passing
  <2>8. OneProcessing'
    BY <2>1 DEF Orderly, OrderlyParts, OneProcessing
  <2>9. Owned(w)' /\ ListingOK(w)' /\ FetchedOK(w)'
    BY <1>0, <1>1, <1>3, <2>1, <2>2 DEF Owned, FetchedOK, ListingOK, Passing
  <2> QED
    BY <1>0, <1>1, <2>2, <2>7, <2>8, <2>9, StepOrderly
<1>14. CASE CompleteScan(w) \/ FailScan(w)
  <2>1. /\ scan'[w].pc \in {"idle", "down"} /\ s.pc \in Passing \cup {"completing"}
        /\ state' = ClearBuilding(w) /\ UNCHANGED <<github, inv, events, proc, givenUp>>
    BY <1>0, <1>14 DEF CompleteScan, FailScan, IdleScan
  <2>2. state'.building = NoGen /\ state'.current = state.current /\ state'.dirty = state.dirty
    BY <1>0, <2>1 DEF ClearBuilding, Owned, StateOK
  <2>3. OneProcessing' /\ PublishedOK'
    BY <2>1, <2>2, NothingPublished
  <2>4. Owned(w)' /\ ListingOK(w)' /\ FetchedOK(w)'
    BY <1>1, <1>3, <2>1 DEF Owned, FetchedOK, ListingOK, Passing
  <2> QED
    BY <1>0, <1>1, <2>2, <2>3, <2>4, StepOrderly
<1> QED
  BY <1>0, <1>4, <1>5, <1>6, <1>7, <1>8, <1>9, <1>10, <1>11, <1>12, <1>13, <1>14
     DEF ScanStep, BeginRefreshNow, RefreshNowBlocked

LEMMA ChosenKeeps ==
  ASSUME NEW w \in Servers, refresh \in [Servers -> RefreshType], ChooseCandidate(w)
  PROVE  /\ refresh[w].pc = "choosing" /\ refresh'[w].lane = refresh[w].lane /\ refresh'[w].gen = refresh[w].gen
         /\ refresh'[w].pc \in {"finishing", "fetching"}
<1> DEFINE r == refresh[w]
<1>1. ASSUME refresh' = [refresh EXCEPT ![w].pc = "finishing"]
      PROVE  refresh'[w].lane = r.lane /\ refresh'[w].gen = r.gen /\ refresh'[w].pc = "finishing"
  BY <1>1 DEF RefreshType
<1>2. ASSUME NEW p, refresh' = [refresh EXCEPT ![w].pc = "fetching", ![w].pr = p, ![w].row = inv[r.gen][p]]
      PROVE  refresh'[w].lane = r.lane /\ refresh'[w].gen = r.gen /\ refresh'[w].pc = "fetching"
  BY <1>2 DEF RefreshType
<1> QED
  BY <1>1, <1>2 DEF ChooseCandidate

\* The two ways a refresh ends up in what is published: nowhere, or by its own row.
LEMMA RefreshStepOrderly ==
  ASSUME Orderly, OneByOne, NEW w \in Servers, RefreshStep(w) PROVE OrderlyParts'
<1>0. /\ Scanners = Servers /\ scan \in [Servers -> ScanType] /\ refresh \in [Servers -> RefreshType]
      /\ refresh[w] \in RefreshType /\ RefreshOK(refresh[w])
      /\ IInv /\ EnvOK /\ StateOK /\ TablesOK /\ Owned(w) /\ FetchedOK(w)
  BY DEF Orderly, OrderlyParts, OneByOne, Scanners, IInv, TablesOK, EnvOK
<1> DEFINE r == refresh[w]
<1>1. /\ UNCHANGED <<github, events, proc, started, givenUp>> /\ lease'["fetch"].owner = lease["fetch"].owner
      /\ state'.current = state.current /\ state'.building = state.building /\ state'.dirty = state.dirty
  <2>1. lease'["fetch"].owner = lease["fetch"].owner
    BY <1>0 DEF RefreshStep, StartTargeted, PickBackfill, AcquireBackfill, AcquireBackfillMisses, ChooseCandidate,
       FetchPull, IndexPull, SyncPullFails, ReadState, ReconcileTargeted, FinishTargeted, ReconcileBackfill,
       AdvanceBackfill, FinishBackfill, FailBackfill, Released, EnvOK, Kinds
  <2>2. state'.current = state.current /\ state'.building = state.building /\ state'.dirty = state.dirty
    BY <1>0 DEF RefreshStep, StartTargeted, PickBackfill, AcquireBackfill, AcquireBackfillMisses, ChooseCandidate,
       FetchPull, IndexPull, SyncPullFails, ReadState, ReconcileTargeted, FinishTargeted, ReconcileBackfill,
       AdvanceBackfill, FinishBackfill, FailBackfill, StateOK
  <2>3. UNCHANGED <<github, events, proc, started, givenUp>>
    BY DEF RefreshStep, StartTargeted, PickBackfill, AcquireBackfill, AcquireBackfillMisses, ChooseCandidate,
       FetchPull, IndexPull, SyncPullFails, ReadState, ReconcileTargeted, FinishTargeted, ReconcileBackfill,
       AdvanceBackfill, FinishBackfill, FailBackfill
  <2> QED
    BY <2>1, <2>2, <2>3
<1>2. scan[w].pc = "idle" /\ scan' = [scan EXCEPT ![w] = scan'[w]] /\ scan'[w].pc \in {"idle", "down"}
      /\ (scan'[w].pc = "down" => refresh'[w].pc = "idle")
  <2>1. r.pc # "idle" => scan[w].pc = "idle"
    BY <1>0 DEF Owned
  <2>2. scan[w].pc = "idle"
    BY <2>1 DEF Idle, RefreshStep, StartTargeted, PickBackfill, AcquireBackfill, AcquireBackfillMisses,
       ChooseCandidate, FetchPull, IndexPull, SyncPullFails, ReadState, ReconcileTargeted, FinishTargeted,
       ReconcileBackfill, AdvanceBackfill, FinishBackfill, FailBackfill, RefreshMoves
  <2>3. CASE FailBackfill(w)
    BY <1>0, <2>2, <2>3 DEF FailBackfill, IdleRefresh, ScanType
  <2>4. CASE scan' = scan
    BY <1>0, <2>2, <2>4
  <2> QED
    BY <2>2, <2>3, <2>4 DEF RefreshStep, StartTargeted, PickBackfill, AcquireBackfill, AcquireBackfillMisses,
       ChooseCandidate, FetchPull, IndexPull, SyncPullFails, ReadState, ReconcileTargeted, FinishTargeted,
       ReconcileBackfill, AdvanceBackfill, FinishBackfill
<1>3. refresh' = [refresh EXCEPT ![w] = refresh'[w]]
  <2>1. refresh' \in [Servers -> RefreshType]
    BY <1>0, RefreshStepIInv DEF IInv, TablesOK
  <2>2. \A v \in Servers \ {w} : refresh'[v] = refresh[v]
    BY <1>0 DEF RefreshStep, StartTargeted, PickBackfill, AcquireBackfill, AcquireBackfillMisses,
       ChooseCandidate, FetchPull, IndexPull, SyncPullFails, ReadState, ReconcileTargeted, FinishTargeted,
       ReconcileBackfill, AdvanceBackfill, FinishBackfill, FailBackfill, RefreshMoves
  <2> QED
    BY <1>0, <2>1, <2>2
<1>4. Alive(w) /\ state.building \in {NoGen, state.current + 1}
  BY <1>2 DEF Alive, Orderly, OrderlyParts, NextGeneration, OneAlive
<1>5. refresh'[w].pc # "idle" /\ (refresh'[w].lane = "backfill" \/ refresh'[w].pc = "reconciling") =>
        refresh'[w].gen = state.current
  <2>1. CASE \E p \in PRs \cup {NoOne} : refresh'[w] = [IdleRefresh EXCEPT !.pc = "fetching", !.lane = "targeted", !.pr = p]
    BY <2>1 DEF IdleRefresh
  <2>2. CASE refresh'[w] = IdleRefresh
    BY <2>2 DEF IdleRefresh
  <2>3. CASE PickBackfill(w)
    BY <1>0, <2>3 DEF PickBackfill, IdleRefresh
  <2>4. CASE ReadState(w)
    BY <1>0, <2>4 DEF ReadState, RefreshType
  <2>5. CASE r.pc # "idle" /\ refresh'[w].lane = r.lane /\ refresh'[w].gen = r.gen /\
             (refresh'[w].pc = "reconciling" => r.lane = "backfill")
    BY <1>0, <2>5 DEF Owned
  <2>6. CASE IndexPull(w)
    <3>1. refresh'[w] = [r EXCEPT !.pc = IF r.lane = "targeted" THEN "reading state" ELSE "reconciling"] /\ r.pc = "indexing"
      BY <1>0, <2>6 DEF IndexPull, RefreshMoves
    <3>2. r.lane \in {"targeted", "backfill"}
      BY <1>0, <3>1 DEF RefreshOK, RefreshType
    <3> QED
      BY <1>0, <2>5, <3>1, <3>2 DEF RefreshType
  <2>7. CASE StartTargeted(w)
    BY <1>0, <2>1, <2>7 DEF StartTargeted, EnvOK
  <2>8. CASE AcquireBackfill(w) \/ ChooseCandidate(w) \/ FetchPull(w) \/ ReconcileTargeted(w) \/ ReconcileBackfill(w) \/ AdvanceBackfill(w)
    <3>1. CASE AcquireBackfill(w) \/ ReconcileTargeted(w) \/ AdvanceBackfill(w)
      <4>1. PICK pc \in {"choosing", "finishing"} : refresh' = [refresh EXCEPT ![w].pc = pc] /\ r.pc # "idle"
        BY <3>1 DEF AcquireBackfill, ReconcileTargeted, AdvanceBackfill, RefreshMoves
      <4>2. refresh'[w] = [r EXCEPT !.pc = pc]
        BY <1>0, <4>1
      <4> QED
        BY <1>0, <2>5, <4>1, <4>2 DEF RefreshType
    <3>2. CASE ChooseCandidate(w)
      <4>1. r.pc = "choosing" /\ refresh'[w].lane = r.lane /\ refresh'[w].gen = r.gen /\ refresh'[w].pc # "reconciling"
        BY <1>0, <3>2, ChosenKeeps
      <4> QED
        BY <2>5, <4>1
    <3>3. CASE FetchPull(w) \/ ReconcileBackfill(w)
      BY <1>0, <2>5, <3>3 DEF FetchPull, ReconcileBackfill, RefreshType
    <3> QED
      BY <2>8, <3>1, <3>2, <3>3
  <2>9. CASE SyncPullFails(w)
    BY <1>0, <2>2, <2>5, <2>9 DEF SyncPullFails, RefreshType
  <2>10. CASE AcquireBackfillMisses(w) \/ FinishTargeted(w) \/ FinishBackfill(w) \/ FailBackfill(w)
    BY <1>0, <2>2, <2>10 DEF AcquireBackfillMisses, FinishTargeted, FinishBackfill, FailBackfill
  <2> QED
    BY <2>3, <2>4, <2>6, <2>7, <2>8, <2>9, <2>10 DEF RefreshStep
<1>6. Owned(w)' /\ ListingOK(w)'
  BY <1>1, <1>2, <1>5 DEF Owned, ListingOK, Passing
<1>7. Announced' <=> Announced
  BY <1>1 DEF Announced, Coming
<1>8. FetchedOK(w)'
  <2>1. CASE FetchPull(w)
    <3>1. refresh'[w].pr = r.pr /\ refresh'[w].open = github[r.pr].open
      BY <1>0, <2>1 DEF FetchPull, RefreshType
    <3> QED
      BY <1>1, <3>1 DEF FetchedOK
  <2>2. ASSUME refresh'[w].pr = r.pr, refresh'[w].open = r.open, refresh'[w].lane = r.lane,
               r.pc \in {"indexing", "reading state"}
        PROVE  FetchedOK(w)'
    BY <1>0, <1>1, <1>7, <2>2 DEF FetchedOK
  <2>3. CASE IndexPull(w)
    <3>1. refresh'[w] = [r EXCEPT !.pc = IF r.lane = "targeted" THEN "reading state" ELSE "reconciling"] /\ r.pc = "indexing"
      BY <1>0, <2>3 DEF IndexPull, RefreshMoves
    <3> QED
      BY <1>0, <2>2, <3>1 DEF RefreshType
  <2>4. CASE ReadState(w)
    BY <1>0, <2>2, <2>4 DEF ReadState, RefreshType
  <2>5. CASE refresh'[w].pc \notin {"indexing", "reading state", "reconciling"}
    BY <2>5 DEF FetchedOK
  <2>6. CASE StartTargeted(w) \/ PickBackfill(w)
    BY <1>0, <2>5, <2>6 DEF StartTargeted, PickBackfill, IdleRefresh
  <2>7. CASE AcquireBackfill(w) \/ ReconcileTargeted(w) \/ AdvanceBackfill(w)
    <3>1. PICK pc \in {"choosing", "finishing"} : refresh' = [refresh EXCEPT ![w].pc = pc]
      BY <2>7 DEF AcquireBackfill, ReconcileTargeted, AdvanceBackfill, RefreshMoves
    <3>2. refresh'[w].pc = pc
      BY <1>0, <3>1 DEF RefreshType
    <3> QED
      BY <2>5, <3>2
  <2>8. CASE ChooseCandidate(w)
    BY <1>0, <2>5, <2>8, ChosenKeeps
  <2>9. CASE refresh' = [refresh EXCEPT ![w] = IdleRefresh]
    <3>1. refresh'[w].pc = "idle"
      BY <1>0, <2>9 DEF IdleRefresh
    <3> QED
      BY <2>5, <3>1
  <2>10. CASE SyncPullFails(w) /\ refresh' # [refresh EXCEPT ![w] = IdleRefresh]
    <3>1. refresh'[w].pc = "advancing"
      BY <1>0, <2>10 DEF SyncPullFails, RefreshType
    <3> QED
      BY <2>5, <3>1
  <2>11. CASE ReconcileBackfill(w)
    <3>1. refresh'[w].pc = "advancing"
      BY <1>0, <2>11 DEF ReconcileBackfill, RefreshType
    <3> QED
      BY <2>5, <3>1
  <2> QED
    BY <2>1, <2>3, <2>4, <2>6, <2>7, <2>8, <2>9, <2>10, <2>11
       DEF RefreshStep, AcquireBackfillMisses, FinishTargeted, FinishBackfill, FailBackfill
<1>9. OneProcessing'
  BY <1>1 DEF Orderly, OrderlyParts, OneProcessing
<1>10. PublishedOK'
  <2>1. CASE ReconcileTargeted(w)
    <3>1. r.pr \in PRs /\ r.gen \in 1..MaxGen /\ r.gen = state.current /\ state.current # NoGen
      BY <1>0, <2>1, GenIs DEF ReconcileTargeted, RefreshMoves, RefreshOK, RefreshType, Owned
    <3>2. DOMAIN inv'[r.gen] = IF r.open THEN DOMAIN inv[r.gen] \cup {r.pr} ELSE DOMAIN inv[r.gen] \ {r.pr}
      BY <1>0, <2>1, <3>1 DEF ReconcileTargeted, TablesOK, Upsert, Restrict
    <3>3. /\ Members' = DOMAIN inv'[r.gen] /\ Members = DOMAIN inv[r.gen]
          /\ \A p \in PRs \ {r.pr} : p \in Members' <=> p \in Members
          /\ r.pr \in Members' <=> r.open
      BY <1>1, <3>1, <3>2 DEF Members
    <3>4. r.open # github[r.pr].open => Announced
      BY <1>0, <2>1 DEF FetchedOK, ReconcileTargeted, RefreshMoves
    <3>5. ASSUME NEW p \in PRs, (p \in Members') # github'[p].open PROVE Announced'
      <4>1. r.open \in BOOLEAN /\ github[p].open \in BOOLEAN
        BY <1>0 DEF RefreshType, EnvOK, PullType
      <4>2. CASE p = r.pr
        <5>1. r.open # github[p].open
          BY <1>1, <3>3, <3>5, <4>1, <4>2
        <5> QED
          BY <1>7, <3>4, <4>2, <5>1
      <4>3. CASE p # r.pr
        <5>1. (p \in Members) # github[p].open
          BY <1>1, <3>3, <3>5, <4>1, <4>3
        <5> QED
          BY <1>7, <3>1, <5>1 DEF PublishedOK, Orderly, OrderlyParts
      <4> QED
        BY <4>2, <4>3
    <3> QED
      BY <3>5 DEF PublishedOK
  <2>2. ASSUME state.current # NoGen => DOMAIN inv'[state.current] = DOMAIN inv[state.current]
        PROVE  PublishedOK'
    BY <1>1, <2>2, NothingPublished
  <2>3. CASE inv' = inv
    BY <2>2, <2>3
  <2>4. CASE AdvanceBackfill(w)
    BY <1>0, <2>2, <2>4, MembersAre DEF AdvanceBackfill, TablesOK
  <2> QED
    BY <2>1, <2>3, <2>4 DEF RefreshStep, StartTargeted, PickBackfill, AcquireBackfill, AcquireBackfillMisses,
       ChooseCandidate, FetchPull, IndexPull, SyncPullFails, ReadState, FinishTargeted, ReconcileBackfill,
       FinishBackfill, FailBackfill
<1> QED
  BY <1>1, <1>2, <1>3, <1>4, <1>6, <1>8, <1>9, <1>10, StepOrderly

LEMMA InitOrderly == Init => Orderly
<1> SUFFICES ASSUME Init PROVE OrderlyParts
  BY InitIInv DEF Orderly
<1>1. \A w \in Servers : scan[w].pc = "new" /\ refresh[w].pc = "idle"
  BY DEF Init, Scanners, IdleScan, IdleRefresh
<1>2. OneAlive /\ \A w \in Servers : Owned(w) /\ ListingOK(w) /\ FetchedOK(w)
  BY <1>1 DEF OneAlive, Alive, Owned, ListingOK, FetchedOK, Passing
<1>3. NextGeneration /\ OneProcessing
  BY DEF Init, NextGeneration, OneProcessing, NoEvent
<1>4. PublishedOK
  <2>1. CASE state.current = NoGen
    BY <2>1 DEF PublishedOK
  <2>2. CASE state.current # NoGen
    <3>1. Members = OpenPulls
      BY <2>2, BoundsAssumption, SMTT(30) DEF Init, Members, NoGen
    <3>2. \A p \in PRs : github[p].open \in BOOLEAN
      BY DEF Init
    <3>3. \A p \in PRs : (p \in OpenPulls) = github[p].open
      BY <3>2 DEF OpenPulls
    <3> QED
      BY <3>1, <3>3, Zenon DEF PublishedOK
  <2> QED
    BY <2>1, <2>2
<1> QED
  BY <1>2, <1>3, <1>4 DEF OrderlyParts

LEMMA OrderlyStutters == ASSUME Orderly, UNCHANGED vars PROVE OrderlyParts'
<1>1. OneAlive' /\ NextGeneration' /\ OneProcessing'
  BY DEF vars, Orderly, OrderlyParts, OneAlive, Alive, NextGeneration, OneProcessing
<1>2. PublishedOK'
  BY DEF vars, Orderly, OrderlyParts, PublishedOK, Members, Announced, Coming
<1>3. ASSUME NEW w \in Servers PROVE Owned(w)' /\ ListingOK(w)' /\ FetchedOK(w)'
  <2>1. Owned(w) /\ ListingOK(w) /\ FetchedOK(w)
    BY DEF Orderly, OrderlyParts
  <2> QED
    BY <2>1, AfterStays DEF vars, Owned, ListingOK, FetchedOK, Announced, Coming
<1> QED
  BY <1>1, <1>2, <1>3 DEF OrderlyParts

\* The invariant of orderly histories: what is overtaken is announced.
THEOREM OrderlyInvariant == ASSUME OneByOne PROVE Spec => []Orderly
<1>1. ASSUME Orderly, Next PROVE OrderlyParts'
  <2>1. ASSUME NEW w \in Scanners, Start(w) \/ Crash(w) \/ ScanStep(w) PROVE OrderlyParts'
    <3>1. w \in Servers
      BY DEF OneByOne, Scanners
    <3> QED
      BY <1>1, <2>1, <3>1, StartOrderly, ScanStepOrderly
  <2>2. ASSUME NEW w \in Servers, RefreshStep(w) PROVE OrderlyParts'
    BY <1>1, <2>2, RefreshStepOrderly
  <2>3. CASE Environment \/ Webhooks
    BY <1>1, <2>3, WebhooksOrderly
  <2> QED
    BY <1>1, <2>1, <2>2, <2>3 DEF Next
<1>2. Orderly /\ [Next]_vars => Orderly'
  BY <1>1, NextIInv, OrderlyStutters DEF Orderly
<1> QED
  BY <1>2, InitOrderly, PTL DEF Spec

\* A change of the set of open pull requests is not forgotten, as long as no two servers
\* run at the same time: the inventory has it, is marked dirty, or a delivery is to come.
THEOREM ChangesAreAnnounced == ASSUME OneByOne PROVE Spec => []NoLostChange
<1>1. Orderly => NoLostChange
  BY DEF Orderly, OrderlyParts, PublishedOK, NoLostChange, Announced, Coming
<1> QED
  BY <1>1, OrderlyInvariant, PTL

-----------------------------------------------------------------------------
(* The refinement of OpenPullInventory *)

\* What the abstract inventory is told of a scan, and of the refreshes.
ListingOf(s) ==
  LET made == s.pc \in Passing \ {"listing"}
  IN  [made |-> made, pulls |-> IF made THEN DOMAIN s.listing ELSE {}]
Listed == [w \in Scanners |-> ListingOf(scan[w])]
Reconciled == {refresh[w].pr : w \in {v \in Servers : refresh[v].pc = "reconciling"}}
None == [made |-> FALSE, pulls |-> {}]

LEMMA ListingIs ==
  ASSUME NEW s
  PROVE  /\ s.pc \notin Passing \ {"listing"} => ListingOf(s) = None
         /\ s.pc \in Passing \ {"listing"} => ListingOf(s) = [made |-> TRUE, pulls |-> DOMAIN s.listing]
<1> DEFINE made == s.pc \in Passing \ {"listing"}
<1>1. CASE ~made
  <2>1. made = FALSE
    BY <1>1
  <2> HIDE DEF made
  <2>2. [made |-> made, pulls |-> IF made THEN DOMAIN s.listing ELSE {}] = None
    BY <2>1, Zenon DEF None
  <2> QED
    BY <1>1, <2>2 DEF ListingOf, made
<1>2. CASE made
  <2>1. made = TRUE
    BY <1>2
  <2> HIDE DEF made
  <2>2. [made |-> made, pulls |-> IF made THEN DOMAIN s.listing ELSE {}] = [made |-> TRUE, pulls |-> DOMAIN s.listing]
    BY <2>1, Zenon
  <2> QED
    BY <1>2, <2>2 DEF ListingOf, made
<1> QED
  BY <1>1, <1>2

\* The abstract steps, in terms of this module.
LEMMA Changes ==
  ASSUME OpenPulls' \subseteq PRs, state'.current = state.current, Members' = Members,
         Listed' = Listed, Reconciled' = Reconciled
  PROVE  Abstract!Next
BY DEF Abstract!Next, Abstract!Change, Listed, ListingOf, Reconciled

LEMMA Lists ==
  ASSUME NEW w \in Scanners, OpenPulls' = OpenPulls, state'.current = state.current, Members' = Members,
         \A v \in Scanners \ {w} : ListingOf(scan'[v]) = ListingOf(scan[v]),
         ListingOf(scan'[w]) \in {ListingOf(scan[w]), None, [made |-> TRUE, pulls |-> OpenPulls]},
         Reconciled' = Reconciled
  PROVE  [Abstract!Next]_(Abstract!vars)
<1>1. CASE ListingOf(scan'[w]) = ListingOf(scan[w])
  <2>1. Listed' = Listed
    BY <1>1 DEF Listed
  <2> QED
    BY <2>1 DEF Abstract!vars, Listed, ListingOf, Reconciled
<1>2. ASSUME NEW l \in {None, [made |-> TRUE, pulls |-> OpenPulls]}, ListingOf(scan'[w]) = l
      PROVE  Abstract!List(w)
  <2>1. Listed' = [Listed EXCEPT ![w] = l]
    BY <1>2 DEF Listed
  <2> QED
    BY <1>2, <2>1 DEF Abstract!List, Abstract!NoListing, Listed, ListingOf, Reconciled, None
<1> QED
  BY <1>1, <1>2 DEF Abstract!Next

LEMMA Publishes ==
  ASSUME NEW w \in Scanners, OpenPulls' = OpenPulls, ListingOf(scan[w]).made,
         state'.current \in Nat, state'.current > state.current, Members' = ListingOf(scan[w]).pulls,
         \A v \in Scanners \ {w} : ListingOf(scan'[v]) = ListingOf(scan[v]), ListingOf(scan'[w]) = None,
         Reconciled' = Reconciled
  PROVE  Abstract!Next
<1>1. Listed' = [Listed EXCEPT ![w] = None] /\ Listed[w] = ListingOf(scan[w])
  BY DEF Listed
<1>2. Abstract!Publish(w)
  BY <1>1 DEF Abstract!Publish, Abstract!NoListing, Listed, ListingOf, Reconciled, None
<1> QED
  BY <1>2 DEF Abstract!Next

LEMMA Refreshes ==
  ASSUME OpenPulls' = OpenPulls, state'.current = state.current, Listed' = Listed, Reconciled' \in SUBSET PRs,
         \/ Members' = Members
         \/ \E p \in PRs : /\ p \in Reconciled /\ Reconciled' = Reconciled \ {p}
                           /\ Members' \in {Members \cup {p}, Members \ {p}}
  PROVE  Abstract!Next
BY DEF Abstract!Next, Abstract!BeginRefresh, Abstract!Amend, Listed, ListingOf, Reconciled

\* Only one server refreshes.
LEMMA ReconciledIs ==
  ASSUME Orderly, NEW w \in Servers, scan[w].pc \notin {"new", "down"}
  PROVE  /\ \A v \in Servers \ {w} : refresh[v].pc = "idle"
         /\ Reconciled = IF refresh[w].pc = "reconciling" THEN {refresh[w].pr} ELSE {}
<1>1. \A v \in Servers \ {w} : refresh[v].pc = "idle"
  BY DEF Orderly, OrderlyParts, OneAlive, Alive, Owned
<1> QED
  BY <1>1 DEF Reconciled

LEMMA ReconciledInPRs == IInv => Reconciled \subseteq PRs
BY DEF IInv, TablesOK, RefreshOK, Reconciled

LEMMA InitAbstract == Init => Abstract!Init
<1> SUFFICES ASSUME Init PROVE Abstract!Init
  OBVIOUS
<1>1. OpenPulls \in SUBSET PRs
  BY DEF OpenPulls
<1>2. \/ state.current = 0 /\ Members = {}
      \/ state.current \in Nat \ {0} /\ Members = OpenPulls
  BY BoundsAssumption DEF Init, Members, NoGen
<1>3. Listed = [w \in Scanners |-> None]
  <2>1. \A w \in Scanners : scan[w].pc = "new"
    BY DEF Init, IdleScan
  <2> QED
    BY <2>1, ListingIs DEF Listed, Passing
<1>4. Reconciled = {}
  BY DEF Init, Reconciled, IdleRefresh
<1> QED
  BY <1>1, <1>2, <1>3, <1>4 DEF Abstract!Init, Abstract!NoListing, Listed, ListingOf, Reconciled, None

LEMMA WebhooksAbstract == ASSUME Orderly, OneByOne, Environment \/ Webhooks PROVE Abstract!Next
<1>1. state'.current = state.current /\ UNCHANGED <<scan, refresh>> /\ \A g \in 1..MaxGen : DOMAIN inv'[g] = DOMAIN inv[g]
  BY WebhooksFrame DEF Orderly
<1>2. Members' = Members
  BY <1>1, MembersAre DEF Members, Orderly
<1>3. OpenPulls' \subseteq PRs
  BY DEF OpenPulls
<1>4. Listed' = Listed /\ Reconciled' = Reconciled
  BY <1>1 DEF Listed, Reconciled
<1> QED
  BY <1>1, <1>2, <1>3, <1>4, Changes

LEMMA StartAbstract ==
  ASSUME Orderly, OneByOne, NEW w \in Servers, Start(w) \/ Crash(w) PROVE [Abstract!Next]_(Abstract!vars)
<1>0. Scanners = Servers /\ scan \in [Servers -> ScanType] /\ refresh \in [Servers -> RefreshType] /\ Owned(w)
  BY DEF Orderly, OrderlyParts, IInv, TablesOK, OneByOne, Scanners
<1>1. OpenPulls' = OpenPulls /\ state'.current = state.current /\ Members' = Members
  BY DEF Start, Crash, OpenPulls, Members
<1>2. \A v \in Scanners \ {w} : ListingOf(scan'[v]) = ListingOf(scan[v])
  BY <1>0 DEF Start, Crash, ScanMoves
<1>3. CASE Start(w)
  <2>1. scan[w].pc = "new" /\ scan'[w].pc = "idle"
    BY <1>0, <1>3 DEF Start, ScanMoves, ScanType
  <2>2. ListingOf(scan'[w]) = None
    BY <2>1, ListingIs DEF Passing
  <2>3. Reconciled' = Reconciled
    BY <1>3 DEF Start, Reconciled
  <2> QED
    BY <1>0, <1>1, <1>2, <2>2, <2>3, Lists
<1>4. CASE Crash(w)
  <2>1. scan'[w].pc = "down" /\ refresh'[w].pc = "idle" /\ scan[w].pc \notin {"new", "down"}
    BY <1>0, <1>4 DEF Crash, IdleScan, IdleRefresh, Alive
  <2>2. ListingOf(scan'[w]) = None
    BY <2>1, ListingIs DEF Passing
  <2>3. /\ \A v \in Servers \ {w} : refresh[v].pc = "idle"
        /\ Reconciled = IF refresh[w].pc = "reconciling" THEN {refresh[w].pr} ELSE {}
    BY <2>1, ReconciledIs
  <2>4. Reconciled' = {}
    BY <1>0, <1>4, <2>1, <2>3 DEF Crash, Reconciled
  <2>5. CASE refresh[w].pc = "reconciling"
    <3>1. ListingOf(scan[w]) = None
      BY <1>0, <2>5, ListingIs DEF Owned, Passing
    <3>2. Listed' = Listed
      BY <1>2, <2>2, <3>1 DEF Listed
    <3> QED
      BY <1>1, <2>4, <3>2, Refreshes
  <2>6. CASE refresh[w].pc # "reconciling"
    BY <1>0, <1>1, <1>2, <2>2, <2>3, <2>4, <2>6, Lists
  <2> QED
    BY <2>5, <2>6
<1> QED
  BY <1>3, <1>4

LEMMA ScanStepAbstract ==
  ASSUME Orderly, OneByOne, NEW w \in Scanners, ScanStep(w) PROVE [Abstract!Next]_(Abstract!vars)
<1>0. /\ w \in Servers /\ Scanners = Servers /\ w \notin Operators
      /\ scan \in [Servers -> ScanType] /\ scan[w] \in ScanType /\ ScanOK(scan[w])
      /\ IInv /\ StateOK /\ TablesOK /\ Owned(w)
  BY DEF Orderly, OrderlyParts, OneByOne, Scanners, IInv, TablesOK, EnvOK
<1> DEFINE s == scan[w]
<1>1. OpenPulls' = OpenPulls /\ Reconciled' = Reconciled
  BY DEF ScanStep, PickScan, AcquireScan, AcquireScanMisses, BeginScan, BeginRefreshNow, RefreshNowBlocked,
         ListPulls, BuildRows, PrepareGeneration, WriteBatch, EndWriting, UpdateSnapshots, CommitScan,
         CompleteScan, FailScan, OpenPulls, Reconciled
<1>2. \A v \in Scanners \ {w} : ListingOf(scan'[v]) = ListingOf(scan[v])
  BY <1>0 DEF ScanStep, PickScan, AcquireScan, AcquireScanMisses, BeginScan, BeginRefreshNow,
     RefreshNowBlocked, ListPulls, BuildRows, PrepareGeneration, WriteBatch, EndWriting, UpdateSnapshots,
     CommitScan, CompleteScan, FailScan, ScanMoves
<1>3. ASSUME state'.current = state.current, ~CommitScan(w) PROVE Members' = Members
  <2>1. CASE inv' = inv
    BY <1>3, <2>1 DEF Members
  <2>2. CASE PrepareGeneration(w)
    <3>1. s.pc = "preparing"
      BY <2>2 DEF PrepareGeneration, ScanMoves
    <3>2. state.current # NoGen => DOMAIN inv'[state.current] = DOMAIN inv[state.current]
      BY <1>0, <2>2, <3>1, MembersStay DEF PrepareGeneration, Passing
    <3> QED
      BY <1>3, <3>2 DEF Members
  <2>3. CASE WriteBatch(w)
    <3>1. s.pc = "writing"
      BY <2>3 DEF WriteBatch
    <3>2. \A g \in 1..MaxGen : g # s.building => inv'[g] = inv[g]
      BY <1>0, <2>3 DEF WriteBatch, TablesOK
    <3>3. state.current # NoGen => DOMAIN inv'[state.current] = DOMAIN inv[state.current]
      BY <1>0, <2>3, <3>1, <3>2, MembersStay DEF WriteBatch, Passing
    <3> QED
      BY <1>3, <3>3 DEF Members
  <2> QED
    BY <2>1, <2>2, <2>3 DEF ScanStep, PickScan, AcquireScan, AcquireScanMisses, BeginScan, BeginRefreshNow,
       RefreshNowBlocked, ListPulls, BuildRows, EndWriting, UpdateSnapshots, CommitScan, CompleteScan, FailScan
<1>4. ~CommitScan(w) => state'.current = state.current
  BY <1>0 DEF ScanStep, PickScan, AcquireScan, AcquireScanMisses, BeginScan, BeginRefreshNow,
       RefreshNowBlocked, ListPulls, BuildRows, PrepareGeneration, WriteBatch, EndWriting, UpdateSnapshots,
       CompleteScan, FailScan, ClearBuilding, StateOK
<1>5. CASE CommitScan(w)
  <2>1. /\ scan'[w] = [s EXCEPT !.pc = "completing"] /\ s.pc = "committing" /\ UNCHANGED inv
        /\ state' = [RetainedDirty(state, w) EXCEPT !.current = s.building, !.counts = Counts(s.rows)]
    BY <1>0, <1>5 DEF CommitScan, ScanMoves
  <2>2. state'.current = s.building /\ scan'[w].pc = "completing"
    BY <1>0, <2>1 DEF StateOK, RetainedDirty, ScanType
  <2>3. s.building = state.current + 1 /\ s.building \in 1..MaxGen /\ state.current \in Nat /\ s.building # NoGen
    <3>1. s.building = state.current + 1 /\ s.building \in 1..MaxGen /\ state.current \in Gens
      BY <1>0, <2>1, BuildsNext DEF Passing, StateOK
    <3> QED
      BY <3>1, GenIs DEF Gens
  <2>4. Members' = DOMAIN s.listing
    BY <1>0, <2>1, <2>2, <2>3 DEF Members, Owned
  <2>5. ListingOf(s).made /\ ListingOf(s).pulls = DOMAIN s.listing /\ ListingOf(scan'[w]) = None
    <3>1. s.pc \in Passing \ {"listing"} /\ scan'[w].pc \notin Passing \ {"listing"}
      BY <2>1, <2>2 DEF Passing
    <3>2. ListingOf(s) = [made |-> TRUE, pulls |-> DOMAIN s.listing] /\ ListingOf(scan'[w]) = None
      BY <3>1, ListingIs
    <3> QED
      BY <3>2
  <2> QED
    BY <1>0, <1>1, <1>2, <2>2, <2>3, <2>4, <2>5, Publishes
<1>6. CASE ~CommitScan(w)
  <2>1. ListingOf(scan'[w]) \in {ListingOf(s), None, [made |-> TRUE, pulls |-> OpenPulls]}
    <3>1. CASE scan'[w].pc \notin Passing \ {"listing"}
      BY <3>1, ListingIs
    <3>2. CASE ListPulls(w)
      <4>1. scan'[w] = [s EXCEPT !.pc = "reading snapshots", !.listing = [p \in OpenPulls |-> github[p].rev]]
        BY <1>0, <3>2 DEF ListPulls
      <4>2. scan'[w].pc = "reading snapshots" /\ DOMAIN scan'[w].listing = OpenPulls
        BY <1>0, <4>1 DEF ScanType
      <4> QED
        BY <4>2, ListingIs DEF Passing
    <3>3. CASE scan'[w].listing = s.listing /\ s.pc \in Passing \ {"listing"} /\ scan'[w].pc \in Passing \ {"listing"}
      BY <3>3 DEF ListingOf
    <3>4. CASE BuildRows(w)
      BY <1>0, <3>3, <3>4 DEF BuildRows, ScanType, Passing
    <3>5. CASE PrepareGeneration(w) \/ EndWriting(w) \/ UpdateSnapshots(w)
      <4>1. PICK pc \in {"writing", "updating snapshots", "committing"} : scan' = [scan EXCEPT ![w].pc = pc]
        BY <3>5 DEF PrepareGeneration, EndWriting, UpdateSnapshots, ScanMoves
      <4>2. s.pc \in {"preparing", "writing", "updating snapshots"}
        BY <3>5 DEF PrepareGeneration, EndWriting, UpdateSnapshots, ScanMoves
      <4>3. scan'[w] = [s EXCEPT !.pc = pc]
        BY <1>0, <4>1
      <4> QED
        BY <1>0, <3>3, <4>2, <4>3 DEF ScanType, Passing
    <3>6. CASE WriteBatch(w)
      <4>1. PICK p \in s.unwritten : scan' = [scan EXCEPT ![w].unwritten = s.unwritten \ {p}]
        BY <1>0, <3>6 DEF WriteBatch
      <4>2. scan'[w] = [s EXCEPT !.unwritten = s.unwritten \ {p}] /\ s.pc = "writing"
        BY <1>0, <3>6, <4>1 DEF WriteBatch
      <4> QED
        BY <1>0, <3>3, <4>2 DEF ScanType, Passing
    <3>7. CASE PickScan(w)
      BY <1>0, <3>1, <3>7 DEF PickScan, ScanType, Passing
    <3>8. CASE AcquireScan(w) \/ BeginScan(w)
      <4>1. scan'[w].pc \in {"beginning", "listing"}
        BY <1>0, <3>8 DEF AcquireScan, BeginScan, ScanMoves, ScanType
      <4> QED
        BY <3>1, <4>1 DEF Passing
    <3>9. CASE AcquireScanMisses(w) \/ CompleteScan(w) \/ FailScan(w)
      <4>1. scan'[w].pc \in {"idle", "down"}
        BY <1>0, <3>9 DEF AcquireScanMisses, CompleteScan, FailScan, IdleScan
      <4> QED
        BY <3>1, <4>1 DEF Passing
    <3> QED
      BY <1>0, <1>6, <3>2, <3>4, <3>5, <3>6, <3>7, <3>8, <3>9 DEF ScanStep, BeginRefreshNow, RefreshNowBlocked
  <2> QED
    BY <1>1, <1>2, <1>3, <1>4, <1>6, <2>1, Lists
<1> QED
  BY <1>5, <1>6

LEMMA RefreshStepAbstract ==
  ASSUME Orderly, OneByOne, NEW w \in Servers, RefreshStep(w) PROVE [Abstract!Next]_(Abstract!vars)
<1>0. /\ Scanners = Servers /\ scan \in [Servers -> ScanType] /\ refresh \in [Servers -> RefreshType]
      /\ refresh[w] \in RefreshType /\ RefreshOK(refresh[w]) /\ IInv /\ EnvOK /\ StateOK /\ TablesOK /\ Owned(w)
  BY DEF Orderly, OrderlyParts, OneByOne, Scanners, IInv, TablesOK, EnvOK
<1> DEFINE r == refresh[w]
<1>1. OpenPulls' = OpenPulls /\ state'.current = state.current
  BY <1>0 DEF RefreshStep, StartTargeted, PickBackfill, AcquireBackfill, AcquireBackfillMisses, ChooseCandidate,
     FetchPull, IndexPull, SyncPullFails, ReadState, ReconcileTargeted, FinishTargeted, ReconcileBackfill,
     AdvanceBackfill, FinishBackfill, FailBackfill, StateOK, OpenPulls
<1>2. Listed' = Listed
  <2>1. CASE FailBackfill(w)
    <3>1. r.pc # "idle" /\ scan' = [scan EXCEPT ![w].pc = "down"]
      BY <2>1 DEF FailBackfill
    <3>2. scan[w].pc = "idle" /\ scan'[w].pc = "down"
      BY <1>0, <3>1 DEF Owned, ScanType
    <3>3. ListingOf(scan[w]) = None /\ ListingOf(scan'[w]) = None
      BY <3>2, ListingIs DEF Passing
    <3>4. \A v \in Scanners \ {w} : scan'[v] = scan[v]
      BY <1>0, <3>1
    <3>5. \A v \in Scanners : ListingOf(scan'[v]) = ListingOf(scan[v])
      BY <3>3, <3>4
    <3> QED
      BY <3>5 DEF Listed
  <2>2. CASE scan' = scan
    BY <2>2 DEF Listed
  <2> QED
    BY <2>1, <2>2 DEF RefreshStep, StartTargeted, PickBackfill, AcquireBackfill, AcquireBackfillMisses,
       ChooseCandidate, FetchPull, IndexPull, SyncPullFails, ReadState, ReconcileTargeted, FinishTargeted,
       ReconcileBackfill, AdvanceBackfill, FinishBackfill
<1>3. Reconciled' \in SUBSET PRs
  <2>1. IInv'
    BY <1>0, RefreshStepIInv
  <2> QED
    BY <2>1 DEF IInv, TablesOK, RefreshOK, Reconciled
<1>4. CASE ReconcileTargeted(w)
  <2>1. /\ r.pc = "reconciling" /\ r.pr \in PRs /\ r.gen \in 1..MaxGen
        /\ r.gen = state.current /\ state.current # NoGen
    BY <1>0, <1>4, GenIs DEF ReconcileTargeted, RefreshMoves, RefreshOK, RefreshType, Owned
  <2>2. DOMAIN inv'[r.gen] \in {DOMAIN inv[r.gen] \cup {r.pr}, DOMAIN inv[r.gen] \ {r.pr}}
    BY <1>0, <1>4, <2>1 DEF ReconcileTargeted, TablesOK, Upsert, Restrict
  <2>3. Members' \in {Members \cup {r.pr}, Members \ {r.pr}}
    BY <1>1, <2>1, <2>2 DEF Members
  <2>4. scan[w].pc = "idle"
    BY <1>0, <2>1 DEF Owned
  <2>5. (\A v \in Servers \ {w} : refresh[v].pc = "idle") /\ Reconciled = {r.pr}
    BY <2>1, <2>4, ReconciledIs
  <2>6. refresh'[w].pc = "finishing" /\ \A v \in Servers \ {w} : refresh'[v] = refresh[v]
    BY <1>0, <1>4 DEF ReconcileTargeted, RefreshMoves, RefreshType
  <2>7. Reconciled' = {}
    BY <2>5, <2>6 DEF Reconciled
  <2> QED
    BY <1>1, <1>2, <2>1, <2>3, <2>5, <2>7, Refreshes
<1>5. ASSUME ~ReconcileTargeted(w) PROVE Members' = Members
  <2>1. CASE inv' = inv
    BY <1>1, <2>1 DEF Members
  <2>2. CASE AdvanceBackfill(w)
    <3>1. \A g \in 1..MaxGen : DOMAIN inv'[g] = DOMAIN inv[g]
      BY <1>0, <2>2 DEF AdvanceBackfill, TablesOK
    <3> QED
      BY <1>0, <1>1, <3>1, MembersAre DEF Members
  <2> QED
    BY <1>5, <2>1, <2>2 DEF RefreshStep, StartTargeted, PickBackfill, AcquireBackfill, AcquireBackfillMisses,
       ChooseCandidate, FetchPull, IndexPull, SyncPullFails, ReadState, FinishTargeted, ReconcileBackfill,
       FinishBackfill, FailBackfill
<1> QED
  BY <1>1, <1>2, <1>3, <1>4, <1>5, Refreshes

\* While one server at a time runs, readers see whole generations only, each a listing
\* of GitHub, amended by the refreshes of single pull requests.
THEOREM InventoryIsPublished == ASSUME OneByOne PROVE Spec => Published
<1>1. Orderly /\ [Next]_vars => [Abstract!Next]_(Abstract!vars)
  <2> SUFFICES ASSUME Orderly, [Next]_vars PROVE [Abstract!Next]_(Abstract!vars)
    OBVIOUS
  <2>1. ASSUME NEW w \in Scanners, Start(w) \/ Crash(w) \/ ScanStep(w)
        PROVE  [Abstract!Next]_(Abstract!vars)
    <3>1. w \in Servers
      BY DEF OneByOne, Scanners
    <3> QED
      BY <2>1, <3>1, StartAbstract, ScanStepAbstract
  <2>2. ASSUME NEW w \in Servers, RefreshStep(w) PROVE [Abstract!Next]_(Abstract!vars)
    BY <2>2, RefreshStepAbstract
  <2>3. CASE Environment \/ Webhooks
    BY <2>3, WebhooksAbstract
  <2>4. CASE UNCHANGED vars
    BY <2>4 DEF vars, Abstract!vars, OpenPulls, Members
  <2> QED
    BY <2>1, <2>2, <2>3, <2>4 DEF Next
<1> QED
  BY <1>1, InitAbstract, OrderlyInvariant, PTL DEF Spec, Published, Abstract!Spec
=============================================================================
