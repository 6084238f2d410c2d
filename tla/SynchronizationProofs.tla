----------------------- MODULE SynchronizationProofs ------------------------
(***************************************************************************)
(* Proofs about the synchronization of a workspace (WorkspaceSync) and the *)
(* report cache (ReportCache), for any records, object types, jobs, page   *)
(* sizes, keys, requests, workspaces and bounds.                           *)
(***************************************************************************)
EXTENDS MCSync, NaturalsInduction, WellFoundedInduction, FiniteSetTheorems, TLAPS

-----------------------------------------------------------------------------
(* Synchronization: the invariant                                          *)

\* Stamps of changes, and the pages a search may answer with.
Stamps == 0..MaxStamp
Pages == UNION {[S -> Stamps] : S \in SUBSET Records}
\* The stages of a pass that has read its cursor.
Begun == {"read", "fetched", "done"}

\* The states of a run.
RunState ==
    {NoRun} \cup
    [name: Names, at: 1..(Len(ObjectTypes) + 1), stage: {"start"}, failed: BOOLEAN] \cup
    [name: Names, at: 1..Len(ObjectTypes), failed: BOOLEAN, stage: Begun, full: BOOLEAN,
     since: Stamps, newest: Stamps, after: Nat, pages: Nat, more: BOOLEAN, page: Pages,
     before: [Records -> Stamps] \cup {<<>>}]

\* The types of the synchronization.
SyncTyped ==
    /\ stamp \in Stamps \ {0}
    /\ portal \in [Records -> Stamps]
    /\ mirror \in [Records -> Stamps]
    /\ cursor \in [Types -> [modified: Stamps, synced: BOOLEAN, fullDue: BOOLEAN]]
    /\ jobs \in [Names -> 0..SyncAttempts]
    /\ run \in RunState
    /\ run # NoRun => jobs[run.name] > 0

\* Nothing is newer than the last change.
StampsFit == \A r \in Records : portal[r] <= stamp /\ mirror[r] <= stamp

\* The pass that runs.
Passing == run # NoRun /\ run.stage \in Begun

\* A page that was fetched holds versions the portal has had.
PageFits ==
    Passing => /\ \A r \in DOMAIN run.page : run.page[r] <= stamp
               /\ run.stage # "fetched" => run.page = NoPage
               /\ run.stage = "done" => ~run.more

\* A full pass has stored, or holds in its page, what it has gone by, as far as
\* it has not changed since the pass began.
FullPassFits ==
    Passing /\ run.full =>
        /\ run.before \in [Records -> Stamps]
        /\ \A r \in Records :
              /\ run.before[r] <= stamp
              /\ r \in DOMAIN run.page /\ portal[r] # 0 /\ portal[r] = run.before[r] => run.page[r] = portal[r]
              /\ r \in Live(CurrentType) /\ portal[r] = run.before[r] /\ (r <= run.after \/ ~run.more) =>
                    mirror[r] = portal[r] \/ r \in DOMAIN run.page

\* The inductive invariant of the synchronization.
SyncInv == SyncTyped /\ StampsFit /\ PageFits /\ FullPassFits

-----------------------------------------------------------------------------
(* Synchronization: numbers, runs and pages                                *)

\* A set of natural numbers that is not empty has a least element.
LEMMA LeastNumber ==
  ASSUME NEW T \in SUBSET Nat, T # {} PROVE \E m \in T : \A n \in T : m <= n
<1> DEFINE R == OpToRel(<, Nat)
<1>1. IsWellFoundedOn(R, Nat)
  BY NatLessThanWellFounded
<1>2. \A k, m \in Nat : k < m => <<k, m>> \in R
  BY DEF OpToRel
<1> HIDE DEF R
<1>3. PICK m \in T : \A y \in T : <<y, m>> \notin R
  BY <1>1, WFMin
<1>4. \A n \in T : ~(n < m)
  BY <1>2, <1>3
<1> QED BY <1>4

\* A finite set of numbers that is not empty has a largest one.
LEMMA LargestNumber ==
  ASSUME NEW S \in SUBSET Int, IsFiniteSet(S), S # {} PROVE Max(S) \in S /\ \A n \in S : n <= Max(S)
<1> DEFINE above(m) == {n \in S : n > m}
           T == {Cardinality(above(m)) : m \in S}
<1>1. \A m \in S : IsFiniteSet(above(m)) /\ Cardinality(above(m)) \in Nat
  <2> TAKE m \in S
  <2>1. above(m) \in SUBSET S
    OBVIOUS
  <2> QED BY <2>1, FS_Subset, FS_CardinalityType
<1>2. T \in SUBSET Nat /\ T # {}
  BY <1>1
<1>3. PICK c \in T : \A d \in T : c <= d
  BY <1>2, LeastNumber
<1>4. PICK m \in S : c = Cardinality(above(m))
  BY <1>3
<1>5. ASSUME NEW n \in S, n > m PROVE FALSE
  <2>0. n \in Int /\ m \in Int /\ \A q \in S : q \in Int
    BY <1>4
  <2>1. above(n) \in SUBSET above(m) /\ n \in above(m) /\ n \notin above(n)
    <3> HIDE DEF T
    <3>1. \A q \in S : q > n => q > m
      BY <1>5, <2>0
    <3>2. ~(n > n)
      BY <2>0
    <3> QED BY <1>5, <3>1, <3>2
  <2>2. Cardinality(above(n)) \in T
    OBVIOUS
  <2> HIDE DEF T
  <2>3. Cardinality(above(m)) <= Cardinality(above(n))
    BY <1>3, <1>4, <2>2
  <2> HIDE DEF above
  <2>4. Cardinality(above(n)) < Cardinality(above(m))
    BY <1>1, <2>1, FS_Subset
  <2> QED BY <1>1, <2>3, <2>4
<1>6. m \in S /\ \A n \in S : n <= m
  BY <1>5
<1>7. Max(S) \in S /\ \A n \in S : Max(S) >= n
  <2>1. \E x \in S : \A y \in S : x >= y
    BY <1>6
  <2> HIDE DEF above
  <2> QED BY <2>1 DEF Max
<1> QED BY <1>7

\* The largest of some stamps is one of them.
LEMMA LargestStamp ==
  ASSUME NEW S \in SUBSET Int, IsFiniteSet(S), S # {}, NEW bound \in Int, \A n \in S : n <= bound
  PROVE  Max(S) \in S /\ Max(S) <= bound
BY LargestNumber

\* What is known of a run by its stage.
LEMMA RunIs ==
  ASSUME SyncTyped, run # NoRun
  PROVE  /\ run.name \in Names /\ run.at \in 1..(Len(ObjectTypes) + 1) /\ run.failed \in BOOLEAN
         /\ run.stage \in {"start"} \cup Begun
         /\ run.stage \in Begun => /\ run.at \in 1..Len(ObjectTypes) /\ run.full \in BOOLEAN /\ run.since \in Stamps
                                   /\ run.newest \in Stamps /\ run.after \in Nat /\ run.more \in BOOLEAN
                                   /\ run.page \in Pages /\ run.before \in [Records -> Stamps] \cup {<<>>}
                                   /\ run \in [name: Names, at: 1..Len(ObjectTypes), failed: BOOLEAN, stage: Begun, full: BOOLEAN,
                                               since: Stamps, newest: Stamps, after: Nat, pages: Nat, more: BOOLEAN, page: Pages,
                                               before: [Records -> Stamps] \cup {<<>>}]
BY DEF SyncTyped, RunState, Begun

\* A page holds stamps of records.
LEMMA PageIs ==
  ASSUME NEW p \in Pages PROVE DOMAIN p \in SUBSET Records /\ \A r \in DOMAIN p : p[r] \in Stamps
BY DEF Pages

\* An empty page holds no record.
LEMMA NoPageIs == NoPage \in Pages /\ DOMAIN NoPage = {}
<1>1. NoPage \in [{} -> Stamps]
  BY DEF NoPage
<1>2. {} \in SUBSET Records
  OBVIOUS
<1> QED BY <1>1, <1>2 DEF Pages, NoPage

-----------------------------------------------------------------------------
(* Synchronization: the steps                                              *)

\* The invariant holds before the first synchronization.
LEMMA SyncInitially == SyncInit => SyncInv
<1> SUFFICES ASSUME SyncInit PROVE SyncInv
  OBVIOUS
<1>0. 1 \in Stamps /\ 0 \in Stamps /\ 0 \in 0..SyncAttempts
  BY SyncAssumption DEF Stamps
<1>1. run = NoRun /\ portal = [r \in Records |-> 1] /\ stamp = 1 /\ mirror = [r \in Records |-> 0]
      /\ cursor = [t \in Types |-> NoCursor] /\ jobs = [n \in Names |-> 0]
  BY DEF SyncInit
<1>2. NoCursor \in [modified: Stamps, synced: BOOLEAN, fullDue: BOOLEAN]
  BY <1>0 DEF NoCursor
<1>3. SyncTyped
  BY <1>0, <1>1, <1>2 DEF SyncTyped, RunState
<1>4. StampsFit
  BY <1>1 DEF StampsFit
<1> QED BY <1>1, <1>3, <1>4 DEF SyncInv, PageFits, FullPassFits, Passing

\* A step that leaves the portal, the mirror and the run alone.
LEMMA QuietKeeps ==
  ASSUME SyncInv, UNCHANGED <<portal, stamp, mirror, run>>,
         cursor' \in [Types -> [modified: Stamps, synced: BOOLEAN, fullDue: BOOLEAN]],
         jobs' \in [Names -> 0..SyncAttempts], \A n \in Names : jobs[n] > 0 => jobs'[n] > 0
  PROVE  SyncInv'
<1>1. SyncTyped'
  BY RunIs DEF SyncInv, SyncTyped
<1>2. StampsFit' /\ PageFits'
  BY DEF SyncInv, StampsFit, PageFits, Passing
<1>3. FullPassFits'
  BY DEF SyncInv, FullPassFits, Passing, Live, CurrentType
<1> QED BY <1>1, <1>2, <1>3 DEF SyncInv

\* A step after which no pass is under way.
LEMMA BetweenPassesKeeps ==
  ASSUME SyncInv, UNCHANGED <<portal, stamp, mirror>>,
         cursor' \in [Types -> [modified: Stamps, synced: BOOLEAN, fullDue: BOOLEAN]],
         jobs' \in [Names -> 0..SyncAttempts],
         \/ run' = NoRun
         \/ /\ run' \in [name: Names, at: 1..(Len(ObjectTypes) + 1), stage: {"start"}, failed: BOOLEAN]
            /\ jobs'[run'.name] > 0
  PROVE  SyncInv'
<1>1. SyncTyped'
  BY DEF SyncInv, SyncTyped, RunState
<1>2. ~Passing'
  BY DEF Passing, Begun
<1>3. StampsFit'
  BY DEF SyncInv, StampsFit
<1> QED BY <1>1, <1>2, <1>3 DEF SyncInv, PageFits, FullPassFits

\* An add to the queue leaves a waiting job as it is.
LEMMA WaitingIs ==
  ASSUME SyncTyped, NEW name \in Names
  PROVE  Waiting(name) \in [Names -> 0..SyncAttempts] /\ \A n \in Names : jobs[n] > 0 => Waiting(name)[n] > 0
BY SyncAssumption DEF Waiting, SyncTyped

\* Whatever a user of HubSpot changes is newer than what the pass has seen.
LEMMA EditKeeps ==
  ASSUME SyncInv, NEW r \in Records, EditRecord(r) PROVE SyncInv'
<1>0. SyncTyped /\ StampsFit /\ PageFits /\ FullPassFits /\ run' = run /\ mirror' = mirror /\ cursor' = cursor /\ jobs' = jobs
  BY DEF SyncInv, EditRecord
<1>1. PICK gap \in 1..(Overlap + 1) : /\ stamp + gap <= MaxStamp /\ stamp' = stamp + gap
                                      /\ portal' = [portal EXCEPT ![r] = stamp + gap]
  BY DEF EditRecord
<1>2. stamp \in Nat \ {0} /\ gap \in Nat \ {0} /\ MaxStamp \in Nat /\ stamp' \in Stamps \ {0} /\ stamp' > stamp /\ stamp' \in Nat
  BY <1>0, <1>1, SyncAssumption DEF SyncTyped, Stamps
<1>3. /\ portal' \in [Records -> Stamps] /\ portal'[r] = stamp'
      /\ \A q \in Records \ {r} : portal'[q] = portal[q]
  BY <1>0, <1>1, <1>2 DEF SyncTyped
<1>4. SyncTyped'
  BY <1>0, <1>2, <1>3 DEF SyncTyped
<1>5. StampsFit'
  <2>1. \A q \in Records : portal[q] \in Nat /\ mirror[q] \in Nat
    BY <1>0 DEF SyncTyped, Stamps
  <2> QED BY <1>0, <1>2, <1>3, <2>1 DEF StampsFit
<1>6. PageFits'
  <2> SUFFICES ASSUME Passing, NEW q \in DOMAIN run.page PROVE run.page[q] <= stamp'
    BY <1>0 DEF PageFits, Passing
  <2>1. run.page[q] \in Nat /\ run.page[q] <= stamp
    BY <1>0, RunIs, PageIs DEF Passing, PageFits, Stamps
  <2> QED BY <1>2, <2>1
<1>7. FullPassFits'
  <2> SUFFICES ASSUME Passing, run.full, NEW q \in Records
      PROVE  /\ run.before \in [Records -> Stamps] /\ run.before[q] <= stamp'
             /\ q \in DOMAIN run.page /\ portal'[q] # 0 /\ portal'[q] = run.before[q] => run.page[q] = portal'[q]
             /\ TypeOf[q] = CurrentType /\ portal'[q] # 0 /\ portal'[q] = run.before[q] /\ (q <= run.after \/ ~run.more) =>
                  mirror[q] = portal'[q] \/ q \in DOMAIN run.page
    BY <1>0 DEF FullPassFits, Passing, Live, CurrentType
  <2>1. run.before \in [Records -> Stamps] /\ run.before[q] <= stamp /\ run.before[q] \in Nat
    BY <1>0 DEF FullPassFits, Stamps
  <2>2. run.before[q] < stamp'
    BY <1>2, <2>1
  <2>3. CASE q = r
    BY <1>2, <1>3, <2>1, <2>2, <2>3
  <2>4. CASE q # r
    BY <1>0, <1>2, <1>3, <2>1, <2>2, <2>4 DEF FullPassFits, Live
  <2> QED BY <2>3, <2>4
<1> QED BY <1>4, <1>5, <1>6, <1>7 DEF SyncInv

\* A record is deleted in HubSpot.
LEMMA DeletionKeeps ==
  ASSUME SyncInv, NEW r \in Records, DeleteRecord(r) PROVE SyncInv'
<1>0. SyncTyped /\ StampsFit /\ PageFits /\ FullPassFits
      /\ run' = run /\ mirror' = mirror /\ cursor' = cursor /\ jobs' = jobs /\ stamp' = stamp
      /\ portal' = [portal EXCEPT ![r] = 0]
  BY DEF SyncInv, DeleteRecord
<1>1. 0 \in Stamps /\ stamp \in Nat
  BY <1>0, SyncAssumption DEF Stamps, SyncTyped
<1>2. portal' \in [Records -> Stamps] /\ portal'[r] = 0 /\ \A q \in Records \ {r} : portal'[q] = portal[q]
  BY <1>0, <1>1 DEF SyncTyped
<1>3. SyncTyped'
  BY <1>0, <1>2 DEF SyncTyped
<1>4. StampsFit'
  BY <1>0, <1>1, <1>2 DEF StampsFit
<1>5. PageFits'
  BY <1>0 DEF PageFits, Passing
<1>6. FullPassFits'
  <2> SUFFICES ASSUME Passing, run.full, NEW q \in Records
      PROVE  /\ run.before \in [Records -> Stamps] /\ run.before[q] <= stamp
             /\ q \in DOMAIN run.page /\ portal'[q] # 0 /\ portal'[q] = run.before[q] => run.page[q] = portal'[q]
             /\ TypeOf[q] = CurrentType /\ portal'[q] # 0 /\ portal'[q] = run.before[q] /\ (q <= run.after \/ ~run.more) =>
                  mirror[q] = portal'[q] \/ q \in DOMAIN run.page
    BY <1>0 DEF FullPassFits, Passing, Live, CurrentType
  <2>1. CASE q = r
    BY <1>0, <1>2, <2>1 DEF FullPassFits
  <2>2. CASE q # r
    BY <1>0, <1>2, <2>2 DEF FullPassFits, Live
  <2> QED BY <2>1, <2>2
<1> QED BY <1>3, <1>4, <1>5, <1>6 DEF SyncInv

\* A full pass falls due.
LEMMA IntervalKeeps ==
  ASSUME SyncInv, IntervalPasses PROVE SyncInv'
BY QuietKeeps DEF IntervalPasses, SyncInv, SyncTyped

\* A full reconciliation is asked for.
LEMMA ReconciliationKeeps ==
  ASSUME SyncInv, NEW t \in Types, ReconciliationFallsDue(t) PROVE SyncInv'
<1> DEFINE c == [cursor[t] EXCEPT !.fullDue = TRUE]
<1>1. cursor[t] \in [modified: Stamps, synced: BOOLEAN, fullDue: BOOLEAN]
  BY DEF SyncInv, SyncTyped
<1>2. c \in [modified: Stamps, synced: BOOLEAN, fullDue: BOOLEAN]
  BY <1>1
<1>3. cursor' = [cursor EXCEPT ![t] = c]
  BY DEF ReconciliationFallsDue
<1> HIDE DEF c
<1>4. cursor' \in [Types -> [modified: Stamps, synced: BOOLEAN, fullDue: BOOLEAN]]
  BY <1>2, <1>3 DEF SyncInv, SyncTyped
<1> QED BY <1>4, QuietKeeps DEF ReconciliationFallsDue, SyncInv, SyncTyped

\* The scheduler adds its job.
LEMMA ScheduleKeeps ==
  ASSUME SyncInv, ScheduleDueWorkspace PROVE SyncInv'
<1>1. PICK name \in Names : jobs' = Waiting(name)
  BY DEF ScheduleDueWorkspace, Names
<1>2. SyncTyped /\ UNCHANGED <<portal, stamp, mirror, cursor, run>>
  BY DEF ScheduleDueWorkspace, SyncInv
<1> QED BY <1>1, <1>2, WaitingIs, QuietKeeps DEF SyncTyped

\* A user asks for a synchronization.
LEMMA PostKeeps ==
  ASSUME SyncInv, NEW name \in Names, PostSync(name) PROVE SyncInv'
<1>1. jobs' = Waiting(name) \/ jobs' = jobs
  BY DEF PostSync
<1>2. SyncTyped /\ UNCHANGED <<portal, stamp, mirror, cursor, run>>
  BY DEF PostSync, SyncInv
<1>3. jobs' \in [Names -> 0..SyncAttempts] /\ \A n \in Names : jobs[n] > 0 => jobs'[n] > 0
  BY <1>1, <1>2, WaitingIs DEF SyncTyped
<1> QED BY <1>2, <1>3, QuietKeeps DEF SyncTyped

\* The worker takes a job from the queue.
LEMMA StartKeeps ==
  ASSUME SyncInv, NEW name \in Names, StartRun(name) PROVE SyncInv'
<1>1. /\ run' = [name |-> name, at |-> 1, stage |-> "start", failed |-> FALSE] /\ jobs[name] > 0
      /\ UNCHANGED <<portal, stamp, mirror, cursor, jobs>>
  BY DEF StartRun
<1>2. 1 \in 1..(Len(ObjectTypes) + 1)
  BY SyncAssumption
<1>3. run' \in [name: Names, at: 1..(Len(ObjectTypes) + 1), stage: {"start"}, failed: BOOLEAN] /\ jobs'[run'.name] > 0
  BY <1>1, <1>2
<1> QED BY <1>1, <1>3, BetweenPassesKeeps DEF SyncInv, SyncTyped

\* The type that is worked on is one of the workspace's.
LEMMA CurrentTypeIs ==
  ASSUME SyncTyped, Passing PROVE CurrentType \in Types /\ Len(ObjectTypes) \in Nat
BY RunIs, SyncAssumption DEF Passing, CurrentType, Types

\* The run goes on to its next object type.
LEMMA NextTypeIs ==
  ASSUME SyncTyped, Passing
  PROVE  NextType \in [name: Names, at: 1..(Len(ObjectTypes) + 1), stage: {"start"}, failed: BOOLEAN]
<1>1. run # NoRun /\ run.at \in 1..Len(ObjectTypes) /\ run.name \in Names /\ run.failed \in BOOLEAN
  BY RunIs DEF Passing
<1>2. Len(ObjectTypes) \in Nat
  BY SyncAssumption
<1>3. run.at + 1 \in 1..(Len(ObjectTypes) + 1)
  BY <1>1, <1>2
<1> QED BY <1>1, <1>3 DEF NextType

\* The cursor of a type is updated after its last page.
LEMMA UpdateKeeps ==
  ASSUME SyncInv, UpdateCursor PROVE SyncInv'
<1> DEFINE c == [modified |-> IF run.newest = 0 THEN cursor[CurrentType].modified ELSE run.newest,
                 synced |-> TRUE,
                 fullDue |-> IF run.full THEN FALSE ELSE cursor[CurrentType].fullDue]
<1>0. SyncTyped /\ Passing /\ jobs[run.name] > 0
  BY DEF SyncInv, UpdateCursor, Passing, Begun, SyncTyped
<1>1. run' = NextType /\ cursor' = [cursor EXCEPT ![CurrentType] = c] /\ UNCHANGED <<portal, stamp, mirror, jobs>>
  BY DEF UpdateCursor
<1>2. run.newest \in Stamps /\ cursor[CurrentType] \in [modified: Stamps, synced: BOOLEAN, fullDue: BOOLEAN]
  BY <1>0, RunIs, CurrentTypeIs DEF SyncTyped, Passing
<1>3. c \in [modified: Stamps, synced: BOOLEAN, fullDue: BOOLEAN]
  BY <1>2
<1> HIDE DEF c
<1>4. cursor' \in [Types -> [modified: Stamps, synced: BOOLEAN, fullDue: BOOLEAN]]
  BY <1>0, <1>1, <1>3, CurrentTypeIs DEF SyncTyped
<1>5. /\ run' \in [name: Names, at: 1..(Len(ObjectTypes) + 1), stage: {"start"}, failed: BOOLEAN]
      /\ jobs'[run'.name] > 0
  BY <1>0, <1>1, NextTypeIs DEF NextType
<1> QED BY <1>0, <1>1, <1>4, <1>5, BetweenPassesKeeps DEF SyncTyped

\* A type fails: its cursor stays and the run goes on.
LEMMA TypeFailureKeeps ==
  ASSUME SyncInv, TypeFails PROVE SyncInv'
<1>0. SyncTyped /\ Passing /\ jobs[run.name] > 0
  BY DEF SyncInv, TypeFails, Passing, Begun, SyncTyped
<1>1. UNCHANGED <<portal, stamp, mirror, cursor, jobs>>
  BY DEF TypeFails
<1>2. PICK skipped \in BOOLEAN : run' = [NextType EXCEPT !.failed = run.failed \/ ~skipped]
  BY DEF TypeFails
<1>3. NextType \in [name: Names, at: 1..(Len(ObjectTypes) + 1), stage: {"start"}, failed: BOOLEAN] /\ NextType.name = run.name
  BY <1>0, NextTypeIs DEF NextType
<1>4. PICK f \in BOOLEAN : f = (run.failed \/ ~skipped)
  OBVIOUS
<1>5. run' = [NextType EXCEPT !.failed = f]
  BY <1>2, <1>4
<1>6. /\ run' \in [name: Names, at: 1..(Len(ObjectTypes) + 1), stage: {"start"}, failed: BOOLEAN]
      /\ jobs'[run'.name] > 0
  BY <1>0, <1>1, <1>3, <1>5
<1> QED BY <1>0, <1>1, <1>6, BetweenPassesKeeps DEF SyncTyped

\* A run ends; one that failed is tried again.
LEMMA EndRunKeeps ==
  ASSUME SyncInv, EndRun PROVE SyncInv'
<1>0. SyncTyped /\ run # NoRun /\ jobs[run.name] > 0
  BY DEF SyncInv, EndRun, SyncTyped
<1>1. run' = NoRun /\ UNCHANGED <<portal, stamp, mirror, cursor>>
      /\ jobs' = [jobs EXCEPT ![run.name] = IF run.failed THEN jobs[run.name] - 1 ELSE 0]
  BY DEF EndRun
<1>2. run.name \in Names /\ jobs[run.name] \in 0..SyncAttempts /\ SyncAttempts \in Nat
  BY <1>0, RunIs, SyncAssumption DEF SyncTyped
<1>3. jobs[run.name] - 1 \in 0..SyncAttempts /\ 0 \in 0..SyncAttempts
  BY <1>0, <1>2
<1>4. jobs' \in [Names -> 0..SyncAttempts]
  BY <1>0, <1>1, <1>3 DEF SyncTyped
<1> QED BY <1>0, <1>1, <1>4, BetweenPassesKeeps DEF SyncTyped

\* The worker dies: the job is taken again from its beginning.
LEMMA WorkerDeathKeeps ==
  ASSUME SyncInv, WorkerDies PROVE SyncInv'
BY BetweenPassesKeeps DEF WorkerDies, SyncInv, SyncTyped

\* Where an incremental pass begins is a stamp.
LEMMA SinceIs ==
  ASSUME NEW m \in Stamps PROVE Max({0, m - Overlap}) \in Stamps
<1> DEFINE S == {0, m - Overlap}
<1>1. m \in Nat /\ m <= MaxStamp /\ Overlap \in Nat /\ MaxStamp \in Nat
  BY SyncAssumption DEF Stamps
<1>2. S \in SUBSET Int /\ S # {} /\ IsFiniteSet(S)
  <2>1. S \in SUBSET ((0 - Overlap)..MaxStamp)
    BY <1>1
  <2>2. IsFiniteSet((0 - Overlap)..MaxStamp)
    BY <1>1, FS_Interval
  <2>3. IsFiniteSet(S)
    BY <2>1, <2>2, FS_Subset
  <2> QED BY <1>1, <2>3
<1>3. \A n \in S : n <= MaxStamp
  BY <1>1
<1>4. Max(S) \in Int /\ Max(S) <= MaxStamp /\ 0 <= Max(S)
  <2> HIDE DEF S
  <2>1. Max(S) \in S /\ \A n \in S : n <= Max(S)
    BY <1>2, LargestNumber
  <2> QED BY <1>2, <1>3, <2>1 DEF S
<1> QED BY <1>1, <1>4 DEF Stamps

\* A pass begins: it reads the cursor and chooses between changes and everything.
LEMMA BeginKeeps ==
  ASSUME SyncInv, BeginType PROVE SyncInv'
<1> DEFINE t == CurrentType
           since == Max({0, cursor[t].modified - Overlap})
           full == ShouldFullSync(t)
           new == [name |-> run.name, at |-> run.at, failed |-> run.failed, stage |-> "read", full |-> full,
                   since |-> since, newest |-> IF full THEN 0 ELSE since,
                   after |-> 0, pages |-> 0, more |-> TRUE, page |-> NoPage, before |-> IF full THEN portal ELSE <<>>]
<1>0. SyncTyped /\ StampsFit /\ run # NoRun /\ run.at <= Len(ObjectTypes) /\ jobs[run.name] > 0
      /\ UNCHANGED <<portal, stamp, mirror, cursor, jobs>>
  BY DEF SyncInv, SyncTyped, BeginType
<1>1. run' = new
  BY DEF BeginType
<1>2. run.at \in 1..Len(ObjectTypes) /\ run.name \in Names /\ run.failed \in BOOLEAN
  BY <1>0, RunIs, SyncAssumption
<1>3. CurrentType \in Types
  BY <1>2 DEF CurrentType, Types
<1>4. cursor[t] \in [modified: Stamps, synced: BOOLEAN, fullDue: BOOLEAN]
  BY <1>0, <1>3 DEF SyncTyped
<1>5. since \in Stamps
  BY <1>4, SinceIs
<1>6. full \in BOOLEAN
  BY <1>4 DEF ShouldFullSync
<1>7. 0 \in Stamps /\ portal \in [Records -> Stamps] /\ NoPage \in Pages /\ DOMAIN NoPage = {}
  BY <1>0, NoPageIs, SyncAssumption DEF Stamps, SyncTyped
<1> HIDE DEF since, full
<1>8. new \in [name: Names, at: 1..Len(ObjectTypes), failed: BOOLEAN, stage: Begun, full: BOOLEAN,
               since: Stamps, newest: Stamps, after: Nat, pages: Nat, more: BOOLEAN, page: Pages,
               before: [Records -> Stamps] \cup {<<>>}]
  BY <1>2, <1>5, <1>6, <1>7 DEF Begun
<1>9. /\ new.name = run.name /\ new.page = NoPage /\ new.stage = "read" /\ new.after = 0 /\ new.more = TRUE
      /\ new.full => new.before = portal
  OBVIOUS
<1> HIDE DEF new
<1>10. SyncTyped'
  BY <1>0, <1>1, <1>8, <1>9 DEF SyncTyped, RunState
<1>11. StampsFit'
  BY <1>0 DEF StampsFit
<1>12. PageFits'
  BY <1>1, <1>7, <1>9 DEF PageFits
<1>13. FullPassFits'
  <2>1. \A r \in Records : r > 0
    BY SyncAssumption
  <2>2. \A r \in Records : portal[r] <= stamp
    BY <1>0 DEF StampsFit
  <2>0. new.full => new.before \in [Records -> Stamps]
    BY <1>7, <1>9
  <2> SUFFICES ASSUME new.full, NEW r \in Records
      PROVE  new.before[r] <= stamp /\ r \notin DOMAIN new.page /\ ~(r <= new.after \/ ~new.more)
    <3>1. run'.full = new.full /\ run'.before = new.before /\ run'.page = new.page /\ run'.after = new.after /\ run'.more = new.more
          /\ stamp' = stamp
      BY <1>0, <1>1
    <3> QED BY <2>0, <3>1 DEF FullPassFits
  <2>3. ~(r <= 0) /\ r \in Nat
    BY <2>1, SyncAssumption
  <2> QED BY <1>0, <1>7, <1>9, <2>2, <2>3
<1> QED BY <1>10, <1>11, <1>12, <1>13 DEF SyncInv

\* In a listing by id, the first page has every record up to its last, and all of a
\* listing that does not go on.
LEMMA FirstPageIs ==
  ASSUME NEW rest \in SUBSET Records, run.full
  PROVE  /\ FirstOf(rest) \in SUBSET rest
         /\ \A m \in FirstOf(rest), r \in rest : r <= m => r \in FirstOf(rest)
         /\ ~(Cardinality(rest) > PageSize) => FirstOf(rest) = rest
<1> DEFINE before(r) == {q \in rest : q < r}
<1>1. rest \in SUBSET Nat /\ IsFiniteSet(rest) /\ Cardinality(rest) \in Nat /\ PageSize \in Nat
  BY SyncAssumption, FS_Subset, FS_CardinalityType
<1>2. \A r \in rest : Place(r, rest) = Cardinality(before(r))
  BY DEF Place, Earlier
<1>3. ASSUME NEW r \in rest
      PROVE  before(r) \in SUBSET rest /\ r \notin before(r) /\ IsFiniteSet(before(r)) /\ Cardinality(before(r)) \in Nat
             /\ Cardinality(before(r)) < Cardinality(rest)
  <2>1. before(r) \in SUBSET rest /\ r \notin before(r)
    BY <1>1
  <2> HIDE DEF before
  <2> QED BY <1>1, <2>1, FS_Subset, FS_CardinalityType
<1>4. ASSUME NEW m \in FirstOf(rest), NEW r \in rest, r <= m PROVE r \in FirstOf(rest)
  <2>1. m \in rest /\ Cardinality(before(m)) < PageSize
    BY <1>2 DEF FirstOf
  <2>2. before(r) \in SUBSET before(m)
    <3> SUFFICES ASSUME NEW q \in rest, q < r PROVE q < m
      OBVIOUS
    <3>1. q \in Nat /\ r \in Nat /\ m \in Nat
      BY <1>1, <2>1
    <3> QED BY <1>4, <3>1
  <2>3. Cardinality(before(r)) <= Cardinality(before(m)) /\ Cardinality(before(r)) \in Nat /\ Cardinality(before(m)) \in Nat
    BY <1>3, <2>1, <2>2, FS_Subset
  <2> HIDE DEF before
  <2> QED BY <1>1, <1>2, <2>1, <2>3 DEF FirstOf
<1>5. ~(Cardinality(rest) > PageSize) => FirstOf(rest) = rest
  <2> SUFFICES ASSUME ~(Cardinality(rest) > PageSize), NEW r \in rest PROVE Place(r, rest) < PageSize
    BY DEF FirstOf
  <2>1. Cardinality(before(r)) \in Nat /\ Cardinality(before(r)) < Cardinality(rest) /\ Place(r, rest) = Cardinality(before(r))
    BY <1>2, <1>3
  <2> HIDE DEF before
  <2> QED BY <1>1, <2>1
<1> QED BY <1>4, <1>5 DEF FirstOf

\* A page is fetched.
LEMMA FetchKeeps ==
  ASSUME SyncInv, FetchPage PROVE SyncInv'
<1> DEFINE rest == IF run.full THEN Listed ELSE {r \in Found : Place(r, Found) >= run.after}
           ids == FirstOf(rest)
           page == [r \in ids |-> portal[r]]
           more == Cardinality(rest) > PageSize
           after == IF ids = {} THEN run.after ELSE IF run.full THEN Max(ids) ELSE run.after + Cardinality(ids)
           new == [run EXCEPT !.stage = "fetched", !.page = page, !.more = more, !.after = after]
<1>0. SyncTyped /\ StampsFit /\ PageFits /\ FullPassFits /\ run # NoRun /\ run.stage = "read" /\ Passing
      /\ UNCHANGED <<portal, stamp, mirror, cursor, jobs>>
  BY DEF SyncInv, FetchPage, Passing, Begun
<1>1. run' = new
  BY DEF FetchPage
<1>2. rest \in SUBSET Records /\ IsFiniteSet(Records)
  BY SyncAssumption DEF Listed, Found, Live
<1>3. ids \in SUBSET rest
  BY DEF FirstOf
<1>4. page \in Pages /\ DOMAIN page = ids /\ \A r \in ids : page[r] = portal[r]
  <2>1. \A r \in ids : portal[r] \in Stamps
    BY <1>0, <1>2, <1>3 DEF SyncTyped
  <2> HIDE DEF ids
  <2>2. page \in [ids -> Stamps] /\ ids \in SUBSET Records
    BY <1>2, <1>3, <2>1
  <2> QED BY <2>2 DEF Pages
<1>5. more \in BOOLEAN
  OBVIOUS
<1>6. after \in Nat /\ (run.full => \A r \in ids : r <= after) /\ (run.full /\ ids # {} => after \in ids)
  <2>1. run.after \in Nat
    BY <1>0, RunIs DEF Begun
  <2> HIDE DEF rest, ids
  <2>2. ids \in SUBSET Records /\ IsFiniteSet(ids) /\ Cardinality(ids) \in Nat /\ ids \in SUBSET Nat /\ ids \in SUBSET Int
    <3>1. ids \in SUBSET Records
      BY <1>2, <1>3
    <3>2. IsFiniteSet(ids)
      BY <1>2, <3>1, FS_Subset
    <3> QED BY <3>1, <3>2, FS_CardinalityType, SyncAssumption
  <2>3. ids # {} => Max(ids) \in ids /\ \A n \in ids : n <= Max(ids)
    BY <2>2, LargestNumber
  <2>4. CASE ids = {}
    BY <2>1, <2>4
  <2>5. CASE ids # {} /\ run.full
    BY <2>2, <2>3, <2>5
  <2>6. CASE ids # {} /\ ~run.full
    BY <2>1, <2>2, <2>6
  <2> QED BY <2>4, <2>5, <2>6
<1>7. run.full => rest = {r \in Live(CurrentType) : r > run.after}
  BY DEF Listed
<1>8. run.full => /\ \A m \in ids, r \in rest : r <= m => r \in ids
                  /\ ~more => ids = rest
  BY <1>2, FirstPageIs
<1> HIDE DEF rest, ids, page, more, after
<1>9. /\ new \in [name: Names, at: 1..Len(ObjectTypes), failed: BOOLEAN, stage: Begun, full: BOOLEAN,
                  since: Stamps, newest: Stamps, after: Nat, pages: Nat, more: BOOLEAN, page: Pages,
                  before: [Records -> Stamps] \cup {<<>>}]
      /\ new.name = run.name /\ new.at = run.at /\ new.full = run.full /\ new.before = run.before /\ new.stage = "fetched"
      /\ new.page = page /\ new.more = more /\ new.after = after
  BY <1>0, <1>4, <1>5, <1>6, RunIs DEF Begun
<1> HIDE DEF new
<1>10. SyncTyped'
  BY <1>0, <1>1, <1>9 DEF SyncTyped, RunState
<1>11. StampsFit'
  BY <1>0 DEF StampsFit
<1>12. PageFits'
  BY <1>0, <1>1, <1>2, <1>3, <1>4, <1>9 DEF PageFits, StampsFit
<1>13. FullPassFits'
  <2> SUFFICES ASSUME run.full, NEW r \in Records
      PROVE  /\ run.before \in [Records -> Stamps] /\ run.before[r] <= stamp
             /\ r \in ids /\ portal[r] # 0 /\ portal[r] = run.before[r] => page[r] = portal[r]
             /\ r \in Live(CurrentType) /\ portal[r] = run.before[r] /\ (r <= after \/ ~more) =>
                  mirror[r] = portal[r] \/ r \in ids
    BY <1>0, <1>1, <1>4, <1>9 DEF FullPassFits, Live, CurrentType
  <2>1. run.before \in [Records -> Stamps] /\ run.before[r] <= stamp
    BY <1>0 DEF FullPassFits
  <2>2. ASSUME r \in Live(CurrentType), portal[r] = run.before[r], r <= after \/ ~more, r \notin ids
        PROVE  mirror[r] = portal[r]
    <3>1. run.page = NoPage /\ DOMAIN NoPage = {}
      BY <1>0, NoPageIs DEF PageFits
    <3>2. r <= run.after => mirror[r] = portal[r]
      BY <1>0, <2>2, <3>1 DEF FullPassFits
    <3>3. r \in Nat /\ run.after \in Nat
      BY <1>0, RunIs, SyncAssumption DEF Begun
    <3>4. CASE r \in rest
      <4>1. more /\ r <= after
        BY <1>8, <2>2, <3>4
      <4>2. ids = {}
        BY <1>6, <1>8, <2>2, <3>4, <4>1
      <4>3. after = run.after
        BY <4>2 DEF after
      <4> QED BY <3>2, <4>1, <4>3
    <3>5. CASE r \notin rest
      BY <1>7, <2>2, <3>2, <3>3, <3>5
    <3> QED BY <3>4, <3>5
  <2> QED BY <1>4, <2>1, <2>2
<1> QED BY <1>10, <1>11, <1>12, <1>13 DEF SyncInv

\* A page is stored, and it was not the last one the pass may ask for.
LEMMA StoredPageKeeps ==
  ASSUME SyncInv, PersistPage, ~(run.more /\ run.pages + 1 >= PageLimit) PROVE SyncInv'
<1> DEFINE page == run.page
           S == {run.newest} \cup {page[r] : r \in DOMAIN page}
           stage == IF run.more THEN "read" ELSE "done"
           pages == run.pages + 1
           new == [run EXCEPT !.stage = stage, !.pages = pages, !.newest = Max(S), !.page = NoPage]
<1>0. SyncTyped /\ StampsFit /\ PageFits /\ FullPassFits /\ run # NoRun /\ run.stage = "fetched" /\ Passing
      /\ UNCHANGED <<portal, stamp, cursor, jobs>>
      /\ mirror' = [r \in Records |-> IF r \in DOMAIN page THEN page[r] ELSE mirror[r]]
  BY DEF SyncInv, PersistPage, Passing, Begun
<1>1. run' = new
  BY DEF PersistPage
<1>2. page \in Pages /\ run.newest \in Stamps /\ run.more \in BOOLEAN /\ pages \in Nat
  BY <1>0, RunIs DEF Begun
<1>3. DOMAIN page \in SUBSET Records /\ \A r \in DOMAIN page : page[r] \in Stamps
  BY <1>2, PageIs
<1>4. Max(S) \in Stamps
  <2>1. IsFiniteSet(Stamps)
    BY SyncAssumption, FS_Interval DEF Stamps
  <2>2. S \in SUBSET Stamps
    BY <1>2, <1>3
  <2>3. IsFiniteSet(S)
    <3> HIDE DEF S
    <3> QED BY <2>1, <2>2, FS_Subset
  <2>4. S \in SUBSET Stamps /\ S # {} /\ S \in SUBSET Int
    BY <1>2, <1>3 DEF Stamps
  <2> HIDE DEF S
  <2>5. Max(S) \in S
    BY <2>3, <2>4, LargestNumber
  <2> QED BY <2>4, <2>5
<1>5. stage \in Begun /\ stage # "fetched" /\ (stage = "done" => ~run.more)
  BY <1>2 DEF Begun
<1>6. NoPage \in Pages /\ DOMAIN NoPage = {}
  BY NoPageIs
<1> HIDE DEF S, stage, pages
<1>7. /\ new \in [name: Names, at: 1..Len(ObjectTypes), failed: BOOLEAN, stage: Begun, full: BOOLEAN,
                  since: Stamps, newest: Stamps, after: Nat, pages: Nat, more: BOOLEAN, page: Pages,
                  before: [Records -> Stamps] \cup {<<>>}]
      /\ new.name = run.name /\ new.at = run.at /\ new.full = run.full /\ new.before = run.before /\ new.stage = stage
      /\ new.page = NoPage /\ new.more = run.more /\ new.after = run.after
  BY <1>0, <1>2, <1>4, <1>5, <1>6, RunIs DEF Begun
<1> HIDE DEF new
<1>8. /\ mirror' \in [Records -> Stamps]
      /\ \A r \in Records : mirror'[r] = IF r \in DOMAIN page THEN page[r] ELSE mirror[r]
  BY <1>0, <1>3 DEF SyncTyped
<1>9. SyncTyped'
  BY <1>0, <1>1, <1>7, <1>8 DEF SyncTyped, RunState
<1>10. StampsFit'
  BY <1>0, <1>8 DEF StampsFit, PageFits
<1>11. PageFits'
  BY <1>1, <1>5, <1>6, <1>7 DEF PageFits
<1>12. FullPassFits'
  <2> SUFFICES ASSUME run.full, NEW r \in Records
      PROVE  /\ run.before \in [Records -> Stamps] /\ run.before[r] <= stamp
             /\ r \in Live(CurrentType) /\ portal[r] = run.before[r] /\ (r <= run.after \/ ~run.more) =>
                  mirror'[r] = portal[r]
    BY <1>0, <1>1, <1>6, <1>7 DEF FullPassFits, Live, CurrentType
  <2>1. run.before \in [Records -> Stamps] /\ run.before[r] <= stamp
    BY <1>0 DEF FullPassFits
  <2>2. ASSUME r \in Live(CurrentType), portal[r] = run.before[r], r <= run.after \/ ~run.more
        PROVE  mirror'[r] = portal[r]
    <3>1. CASE r \in DOMAIN page
      BY <1>0, <1>8, <2>2, <3>1 DEF FullPassFits, Live
    <3>2. CASE r \notin DOMAIN page
      BY <1>0, <1>8, <2>2, <3>2 DEF FullPassFits
    <3> QED BY <3>1, <3>2
  <2> QED BY <2>1, <2>2
<1> QED BY <1>9, <1>10, <1>11, <1>12 DEF SyncInv

\* A page is stored and the pass gives up at its limit: the run goes on without it.
LEMMA PageLimitKeeps ==
  ASSUME SyncInv, PersistPage, run.more /\ run.pages + 1 >= PageLimit PROVE SyncInv'
<1>0. SyncTyped /\ StampsFit /\ PageFits /\ Passing /\ jobs[run.name] > 0
      /\ UNCHANGED <<portal, stamp, cursor, jobs>>
      /\ mirror' = [r \in Records |-> IF r \in DOMAIN run.page THEN run.page[r] ELSE mirror[r]]
  BY DEF SyncInv, SyncTyped, PersistPage, Passing, Begun
<1>1. run' = [NextType EXCEPT !.failed = TRUE]
  BY DEF PersistPage
<1>2. NextType \in [name: Names, at: 1..(Len(ObjectTypes) + 1), stage: {"start"}, failed: BOOLEAN]
      /\ NextType.name = run.name
  BY <1>0, NextTypeIs DEF NextType
<1>3. run' \in [name: Names, at: 1..(Len(ObjectTypes) + 1), stage: {"start"}, failed: BOOLEAN]
      /\ run'.name = run.name
  BY <1>1, <1>2
<1>4. run.page \in Pages
  BY <1>0, RunIs DEF Passing
<1>5. \A r \in DOMAIN run.page : run.page[r] \in Stamps
  BY <1>4, PageIs
<1>6. /\ mirror' \in [Records -> Stamps]
      /\ \A r \in Records : mirror'[r] = IF r \in DOMAIN run.page THEN run.page[r] ELSE mirror[r]
  BY <1>0, <1>5 DEF SyncTyped
<1>7. SyncTyped'
  BY <1>0, <1>3, <1>6 DEF SyncTyped, RunState
<1>8. StampsFit'
  BY <1>0, <1>6 DEF StampsFit, PageFits
<1>9. ~Passing'
  BY <1>3 DEF Passing, Begun
<1> QED BY <1>7, <1>8, <1>9 DEF SyncInv, PageFits, FullPassFits

\* A page is stored.
LEMMA PersistKeeps ==
  ASSUME SyncInv, PersistPage PROVE SyncInv'
BY StoredPageKeeps, PageLimitKeeps

\* Every step of portal, queue and worker preserves the invariant.
LEMMA SyncNextKeeps == SyncInv /\ [SyncNext]_syncVars => SyncInv'
<1> SUFFICES ASSUME SyncInv, [SyncNext]_syncVars PROVE SyncInv'
  OBVIOUS
<1>1. CASE SyncNext
  BY <1>1, EditKeeps, DeletionKeeps, IntervalKeeps, ReconciliationKeeps, ScheduleKeeps, PostKeeps, StartKeeps,
     BeginKeeps, FetchKeeps, PersistKeeps, UpdateKeeps, EndRunKeeps, TypeFailureKeeps, WorkerDeathKeeps
     DEF SyncNext, RunStep
<1>2. CASE UNCHANGED syncVars
  BY <1>2, QuietKeeps DEF syncVars, SyncInv, SyncTyped
<1> QED BY <1>1, <1>2

\* The invariant holds in every reachable state.
LEMMA SyncAlways == SyncSpec => []SyncInv
BY SyncInitially, SyncNextKeeps, PTL DEF SyncSpec

-----------------------------------------------------------------------------
(* Synchronization: the theorems                                           *)

\* The type invariant of the synchronization holds in every reachable state.
THEOREM SyncTypeCorrect == SyncSpec => []SyncTypeOK
<1>1. SyncInv => SyncTypeOK
  <2> SUFFICES ASSUME SyncInv PROVE SyncTypeOK
    OBVIOUS
  <2>1. run # NoRun => /\ jobs[run.name] > 0 /\ run.at \in 1..(Len(ObjectTypes) + 1)
                       /\ run.stage \in {"start", "read", "fetched", "done"}
    BY RunIs DEF SyncInv, SyncTyped, Begun
  <2> QED BY <2>1 DEF SyncInv, SyncTypeOK, SyncTyped, StampsFit, Stamps
<1> QED BY SyncAlways, <1>1, PTL

\* A full pass that has stored its last page has stored every record of its type
\* that stayed in the portal unchanged since it began.
THEOREM FullPassCorrect == SyncSpec => []FullPassIsComplete
<1>1. SyncInv => FullPassIsComplete
  <2> SUFFICES ASSUME SyncInv, run # NoRun, run.stage = "done", run.full,
                      NEW r \in Live(CurrentType), portal[r] = run.before[r]
      PROVE  mirror[r] = portal[r]
    BY DEF FullPassIsComplete
  <2>1. Passing /\ ~run.more /\ run.page = NoPage
    BY DEF SyncInv, PageFits, Passing, Begun
  <2>2. r \in Records /\ r \notin DOMAIN run.page
    BY <2>1, NoPageIs DEF Live
  <2> QED BY <2>1, <2>2 DEF SyncInv, FullPassFits
<1> QED BY SyncAlways, <1>1, PTL

-----------------------------------------------------------------------------
(* The cache: the invariant                                                *)

\* The cache as a function; a key without a report has NoEntry.
Entries == [Keys -> Entry \cup {NoEntry}]

\* The states of a request.
ReaderState ==
    [stage: {"new"}] \cup
    [stage: {"answered"}, value: Nat, earlier: Nat] \cup
    [stage: {"coalesced"}, key: Keys, asked: Nat, load: Readers] \cup
    [stage: {"loading", "read"}, key: Keys, asked: Nat, began: Nat, value: Nat, overtaken: BOOLEAN]

\* The types of the cache without its capacity.
CacheTyped ==
    /\ time \in Nat
    /\ data \in [Workspaces -> Seq(Nat)]
    /\ resolved \in Entries
    /\ inflight \in [Keys -> Readers \cup {NoReader}]
    /\ reader \in [Readers -> ReaderState]
    /\ notices \subseteq Workspaces
    /\ cleared \in [Workspaces -> Nat]

\* No two entries have one place in the order of the Map, and no place is left out.
SeatsDiffer(entries) == \A k, j \in Held(entries) : entries[k].seat = entries[j].seat => k = j
SeatsFilled(entries) == \A k \in Held(entries) : entries[k].seat <= Cardinality(Held(entries))

\* The value has all that changed in the workspace before a moment.
AsFresh(w, value, since) == \A t \in Nat : t < since => CurrentAt(w, t) <= value

\* What a report may be that the cache holds for a key.
ReportFits(k, value, expiresAt, overtaken) ==
    /\ value <= Latest(WorkspaceOf[k])
    /\ overtaken \/ value >= cleared[WorkspaceOf[k]]
    /\ expiresAt <= time + Ttl
    /\ \A t \in Nat : t + Ttl + LoadTime < expiresAt => CurrentAt(WorkspaceOf[k], t) <= value

\* Every entry is of a report that was current when its load began, or later.
EntriesFit ==
    \A k \in Held(resolved) :
        ReportFits(k, resolved[k].value, resolved[k].expiresAt, resolved[k].overtaken)

\* What a load has read, and whether an invalidation has overtaken it.
LoadsFit ==
    \A r \in Loading :
        /\ reader[r].asked = reader[r].began /\ reader[r].began <= time
        /\ time <= reader[r].began + LoadTime
        /\ reader[r].stage = "read" =>
              /\ reader[r].value <= Latest(WorkspaceOf[reader[r].key])
              /\ AsFresh(WorkspaceOf[reader[r].key], reader[r].value, reader[r].began)
              /\ reader[r].overtaken \/ reader[r].value >= cleared[WorkspaceOf[reader[r].key]]

\* A request that waits has found a load of its report under way.
WaitsFit ==
    \A r \in Readers : reader[r].stage = "coalesced" =>
        /\ reader[r].load \in Loading
        /\ reader[reader[r].load].key = reader[r].key
        /\ reader[r].asked <= reader[reader[r].load].began + LoadTime

\* A load that others wait for is under way and of their key.
InflightFits ==
    \A k \in Keys : inflight[k] # NoReader => inflight[k] \in Loading /\ reader[inflight[k]].key = k

\* A workspace was cleared only of changes that have happened.
ClearedFits == \A w \in Workspaces : cleared[w] <= Latest(w)

\* The inductive invariant of the cache.
CacheInv ==
    /\ CacheTyped /\ SeatsDiffer(resolved) /\ SeatsFilled(resolved) /\ Cardinality(Held(resolved)) <= Capacity
    /\ EntriesFit /\ LoadsFit /\ WaitsFit /\ InflightFits /\ ClearedFits /\ StalenessIsBounded

-----------------------------------------------------------------------------
(* The cache: its operators                                                *)

\* Every part of the Map is finite.
LEMMA KeysFinite ==
  ASSUME NEW S \in SUBSET Keys PROVE IsFiniteSet(S) /\ Cardinality(S) \in Nat
BY CacheAssumption, FS_Subset, FS_CardinalityType

\* A seat that is taken belongs to an entry.
LEMMA HeldIsEntry ==
  ASSUME NEW entries \in Entries
  PROVE  /\ Held(entries) \in SUBSET Keys
         /\ \A k \in Held(entries) : entries[k] \in Entry /\ entries[k].seat \in Nat \ {0}
         /\ \A k \in Keys \ Held(entries) : entries[k] = NoEntry
BY DEF Entries, Held, Entry, NoEntry

\* What is kept of the Map keeps its reports and its order.
LEMMA KeptIs ==
  ASSUME NEW entries \in Entries, SeatsDiffer(entries), NEW S \in SUBSET Held(entries)
  PROVE  /\ Kept(entries, S) \in Entries /\ Held(Kept(entries, S)) = S
         /\ SeatsDiffer(Kept(entries, S)) /\ SeatsFilled(Kept(entries, S))
         /\ \A k \in S : /\ Kept(entries, S)[k].value = entries[k].value
                         /\ Kept(entries, S)[k].expiresAt = entries[k].expiresAt
                         /\ Kept(entries, S)[k].overtaken = entries[k].overtaken
                         /\ Kept(entries, S)[k].seat <= Cardinality(S)
<1> DEFINE upTo(k) == {j \in S : entries[j].seat <= entries[k].seat}
           kept == [k \in Keys |-> IF k \in S THEN [entries[k] EXCEPT !.seat = Cardinality(upTo(k))] ELSE NoEntry]
<1>1. Kept(entries, S) = kept
  BY DEF Kept
<1>2. S \in SUBSET Keys /\ \A k \in S : entries[k] \in Entry /\ entries[k].seat \in Nat \ {0}
  BY HeldIsEntry
<1>3. ASSUME NEW k \in S
      PROVE  Cardinality(upTo(k)) \in Nat \ {0} /\ Cardinality(upTo(k)) <= Cardinality(S)
  <2>1. upTo(k) \in SUBSET Keys /\ upTo(k) \in SUBSET S /\ k \in upTo(k)
    BY <1>2
  <2>2. IsFiniteSet(upTo(k)) /\ Cardinality(upTo(k)) \in Nat /\ IsFiniteSet(S)
    BY <1>2, <2>1, KeysFinite
  <2>3. Cardinality(upTo(k)) # 0
    BY <2>1, <2>2, FS_EmptySet
  <2>4. Cardinality(upTo(k)) <= Cardinality(S)
    BY <2>1, <2>2, FS_Subset
  <2> QED BY <2>2, <2>3, <2>4
<1>4. ASSUME NEW k \in S, NEW j \in S, entries[k].seat < entries[j].seat
      PROVE  Cardinality(upTo(k)) # Cardinality(upTo(j))
  <2>1. upTo(k) \in SUBSET upTo(j) /\ j \in upTo(j) /\ j \notin upTo(k) /\ upTo(j) \in SUBSET Keys
    BY <1>2, <1>4
  <2>2. IsFiniteSet(upTo(j))
    BY <2>1, KeysFinite
  <2> HIDE DEF upTo
  <2> QED BY <2>1, <2>2, FS_Subset
<1> HIDE DEF upTo
<1>5. \A k \in S : /\ kept[k] \in Entry /\ kept[k].seat = Cardinality(upTo(k)) /\ kept[k].value = entries[k].value
                   /\ kept[k].expiresAt = entries[k].expiresAt /\ kept[k].overtaken = entries[k].overtaken
  BY <1>2, <1>3 DEF Entry
<1>6. \A k \in Keys \ S : kept[k] = NoEntry
  OBVIOUS
<1>7. kept \in Entries
  BY <1>5 DEF Entries
<1> HIDE DEF kept
<1>8. Held(kept) = S
  BY <1>2, <1>3, <1>5, <1>6 DEF Held, NoEntry
<1>9. SeatsDiffer(kept)
  <2> SUFFICES ASSUME NEW k \in S, NEW j \in S, kept[k].seat = kept[j].seat PROVE k = j
    BY <1>8 DEF SeatsDiffer
  <2>1. ~(entries[k].seat < entries[j].seat) /\ ~(entries[j].seat < entries[k].seat)
    BY <1>4, <1>5
  <2>2. entries[k].seat = entries[j].seat
    BY <1>2, <2>1
  <2> QED BY <2>2 DEF SeatsDiffer
<1>10. SeatsFilled(kept)
  BY <1>3, <1>5, <1>8 DEF SeatsFilled
<1> QED BY <1>1, <1>3, <1>5, <1>7, <1>8, <1>9, <1>10

\* A hit leaves the Map as it was, but for its order.
LEMMA TouchIs ==
  ASSUME NEW entries \in Entries, SeatsDiffer(entries), NEW k \in Held(entries)
  PROVE  /\ Touch(entries, k) \in Entries /\ Held(Touch(entries, k)) = Held(entries)
         /\ SeatsDiffer(Touch(entries, k)) /\ SeatsFilled(Touch(entries, k))
         /\ \A j \in Held(entries) : /\ Touch(entries, k)[j].value = entries[j].value
                                     /\ Touch(entries, k)[j].expiresAt = entries[j].expiresAt
                                     /\ Touch(entries, k)[j].overtaken = entries[j].overtaken
<1> DEFINE S == Held(entries) \ {k}
           rest == Kept(entries, S)
           e == [entries[k] EXCEPT !.seat = Cardinality(S) + 1]
           new == [rest EXCEPT ![k] = e]
<1>1. Touch(entries, k) = new
  BY DEF Touch, AtTheEnd
<1>2. S \in SUBSET Held(entries) /\ S \in SUBSET Keys /\ entries[k] \in Entry /\ k \in Keys
  BY HeldIsEntry
<1>3. Cardinality(S) \in Nat
  BY <1>2, KeysFinite
<1>4. /\ rest \in Entries /\ Held(rest) = S /\ SeatsDiffer(rest)
      /\ \A j \in S : /\ rest[j].value = entries[j].value
                      /\ rest[j].expiresAt = entries[j].expiresAt
                      /\ rest[j].overtaken = entries[j].overtaken
                      /\ rest[j].seat <= Cardinality(S)
  BY <1>2, KeptIs
<1>5. /\ e \in Entry /\ e.seat = Cardinality(S) + 1 /\ e.value = entries[k].value
      /\ e.expiresAt = entries[k].expiresAt /\ e.overtaken = entries[k].overtaken
  <2>1. Cardinality(S) + 1 \in Nat \ {0}
    BY <1>3
  <2> QED BY <1>2, <2>1 DEF Entry
<1>6. \A j \in S : rest[j].seat \in Nat \ {0}
  BY <1>4, HeldIsEntry
<1>7. S = Held(entries) \ {k}
  OBVIOUS
<1> HIDE DEF e, rest, S
<1>8. new \in Entries /\ new[k] = e /\ \A j \in Keys \ {k} : new[j] = rest[j]
  BY <1>2, <1>4, <1>5 DEF Entries
<1> HIDE DEF new
<1>9. \A j \in Keys : j \in Held(new) <=> j = k \/ j \in Held(rest)
  BY <1>3, <1>5, <1>7, <1>8 DEF Held
<1>10. Held(new) = Held(entries)
  BY <1>2, <1>4, <1>7, <1>9, HeldIsEntry DEF Held
<1>11. SeatsDiffer(new)
  <2>1. ASSUME NEW j \in S PROVE new[j] = rest[j] /\ new[j].seat # new[k].seat
    <3>1. j \in Keys /\ j # k
      BY <1>2, <1>7
    <3>2. new[j] = rest[j]
      BY <1>8, <3>1
    <3>3. rest[j].seat \in Nat /\ rest[j].seat <= Cardinality(S)
      BY <1>4, <1>6
    <3>4. new[k].seat = Cardinality(S) + 1
      BY <1>5, <1>8
    <3> QED BY <1>3, <3>2, <3>3, <3>4
  <2>2. \A i, j \in S : rest[i].seat = rest[j].seat => i = j
    BY <1>4 DEF SeatsDiffer
  <2>3. \A j \in Held(new) : j = k \/ j \in S
    BY <1>7, <1>10
  <2> QED BY <2>1, <2>2, <2>3 DEF SeatsDiffer
<1>12. SeatsFilled(new)
  <2>1. Held(entries) \in SUBSET Keys /\ k \in Held(entries)
    BY HeldIsEntry
  <2>2. Cardinality(S) = Cardinality(Held(entries)) - 1 /\ Cardinality(Held(entries)) \in Nat
    BY <1>7, <2>1, KeysFinite, FS_RemoveElement
  <2>3. ASSUME NEW j \in Held(new) PROVE new[j].seat <= Cardinality(Held(entries))
    <3>1. CASE j = k
      BY <1>5, <1>8, <2>2, <3>1
    <3>2. CASE j # k
      <4>1. j \in S /\ new[j] = rest[j]
        BY <1>2, <1>7, <1>8, <1>10, <2>1, <3>2
      <4> QED BY <1>4, <1>6, <2>2, <4>1
    <3> QED BY <3>1, <3>2
  <2> QED BY <1>10, <2>3 DEF SeatsFilled
<1> QED BY <1>1, <1>2, <1>4, <1>5, <1>7, <1>8, <1>10, <1>11, <1>12

\* The newest entries that are kept are no more than the capacity.
LEMMA CapacityHolds ==
  ASSUME NEW entries \in Entries, SeatsDiffer(entries)
  PROVE  /\ EnforceCapacity(entries) \in Entries 
         /\ SeatsDiffer(EnforceCapacity(entries)) /\ SeatsFilled(EnforceCapacity(entries))
         /\ Held(EnforceCapacity(entries)) \in SUBSET Held(entries)
         /\ Cardinality(Held(EnforceCapacity(entries))) <= Capacity
         /\ \A k \in Held(EnforceCapacity(entries)) :
               /\ EnforceCapacity(entries)[k].value = entries[k].value
               /\ EnforceCapacity(entries)[k].expiresAt = entries[k].expiresAt
               /\ EnforceCapacity(entries)[k].overtaken = entries[k].overtaken
<1> DEFINE S == {k \in Held(entries) : Cardinality(Newer(entries, k)) < Capacity}
<1>1. EnforceCapacity(entries) = Kept(entries, S) /\ S \in SUBSET Held(entries)
  BY DEF EnforceCapacity
<1>2. Held(entries) \in SUBSET Keys /\ \A k \in Held(entries) : entries[k].seat \in Nat
  BY HeldIsEntry
<1>3. Cardinality(S) <= Capacity
  <2>1. CASE S = {}
    BY <2>1, FS_EmptySet, CacheAssumption
  <2>2. CASE S # {}
    <3> DEFINE T == {entries[k].seat : k \in S}
    <3>1. T \in SUBSET Nat /\ T # {}
      BY <1>2, <2>2
    <3>2. PICK m \in T : \A n \in T : m <= n
      BY <3>1, LeastNumber
    <3>3. PICK k \in S : entries[k].seat = m
      BY <3>2
    <3>4. \A j \in S \ {k} : entries[j].seat > entries[k].seat
      BY <1>2, <3>2, <3>3 DEF SeatsDiffer
    <3>5. S \ {k} \in SUBSET Newer(entries, k) /\ Newer(entries, k) \in SUBSET Keys /\ S \in SUBSET Keys
      BY <1>2, <3>4 DEF Newer
    <3>6. IsFiniteSet(Newer(entries, k)) /\ IsFiniteSet(S) /\ Cardinality(Newer(entries, k)) \in Nat /\ Cardinality(S) \in Nat
      BY <3>5, KeysFinite
    <3>7. Cardinality(S \ {k}) <= Cardinality(Newer(entries, k))
      BY <3>5, <3>6, FS_Subset
    <3>8. Cardinality(S \ {k}) = Cardinality(S) - 1
      BY <3>3, <3>6, FS_RemoveElement
    <3>9. Cardinality(Newer(entries, k)) < Capacity /\ Capacity \in Nat
      BY <3>3, CacheAssumption
    <3> HIDE DEF S
    <3> QED BY <3>6, <3>7, <3>8, <3>9
  <2> QED BY <2>1, <2>2
<1> HIDE DEF S
<1> QED BY <1>1, <1>3, KeptIs

\* How old an answer may be.
LEMMA AnswerIsFresh ==
  ASSUME CacheTyped, NEW k \in Keys, NEW asked \in Nat, NEW value \in Nat,
         value # 0 => \A t \in Nat : t + Ttl + LoadTime = asked => CurrentAt(WorkspaceOf[k], t) <= value
  PROVE  /\ Answer(k, asked, value) \in ReaderState /\ Answer(k, asked, value).stage = "answered"
         /\ Answer(k, asked, value).value = value
         /\ value # 0 => value >= Answer(k, asked, value).earlier
<1> DEFINE w == WorkspaceOf[k]
           earlier == IF asked >= Ttl + LoadTime THEN CurrentAt(w, asked - Ttl - LoadTime) ELSE 0
<1>1. Answer(k, asked, value) = [stage |-> "answered", value |-> value, earlier |-> earlier]
  BY DEF Answer
<1>2. w \in Workspaces /\ Ttl \in Nat /\ LoadTime \in Nat
  BY CacheAssumption DEF Workspaces
<1>3. \A t \in Nat : CurrentAt(w, t) \in Nat
  <2> TAKE t \in Nat
  <2>1. data[w] \in Seq(Nat) /\ DOMAIN data[w] = 1 .. Len(data[w]) /\ Len(data[w]) \in Nat
    BY <1>2 DEF CacheTyped
  <2>2. IsFiniteSet(1 .. Len(data[w]))
    BY <2>1, FS_Interval
  <2>3. {i \in DOMAIN data[w] : data[w][i] <= t} \in SUBSET (1 .. Len(data[w]))
    BY <2>1
  <2>4. IsFiniteSet({i \in DOMAIN data[w] : data[w][i] <= t})
    BY <2>2, <2>3, FS_Subset
  <2> QED BY <2>4, FS_CardinalityType DEF CurrentAt
<1>4. earlier \in Nat /\ (value # 0 => value >= earlier)
  <2>1. CASE asked >= Ttl + LoadTime
    <3>1. asked - Ttl - LoadTime \in Nat /\ (asked - Ttl - LoadTime) + Ttl + LoadTime = asked
      BY <1>2, <2>1
    <3>2. earlier = CurrentAt(w, asked - Ttl - LoadTime)
      BY <2>1
    <3>3. CurrentAt(w, asked - Ttl - LoadTime) \in Nat
      BY <1>3, <3>1
    <3>4. value # 0 => CurrentAt(w, asked - Ttl - LoadTime) <= value
      BY <3>1
    <3> QED BY <3>2, <3>3, <3>4
  <2>2. CASE ~(asked >= Ttl + LoadTime)
    BY <2>2
  <2> QED BY <2>1, <2>2
<1> HIDE DEF earlier
<1> QED BY <1>1, <1>4 DEF ReaderState

\* The versions of a workspace that were current at a moment are some of its versions.
LEMMA CurrentIsKnown ==
  ASSUME CacheTyped, NEW w \in Workspaces, NEW t \in Nat PROVE CurrentAt(w, t) \in Nat /\ CurrentAt(w, t) <= Latest(w)
<1>1. data[w] \in Seq(Nat) /\ DOMAIN data[w] = 1 .. Len(data[w]) /\ Len(data[w]) \in Nat
  BY DEF CacheTyped
<1>2. IsFiniteSet(1 .. Len(data[w])) /\ Cardinality(1 .. Len(data[w])) = Len(data[w])
  BY <1>1, FS_Interval
<1>3. {i \in DOMAIN data[w] : data[w][i] <= t} \in SUBSET (1 .. Len(data[w]))
  BY <1>1
<1>4. /\ IsFiniteSet({i \in DOMAIN data[w] : data[w][i] <= t})
      /\ Cardinality({i \in DOMAIN data[w] : data[w][i] <= t}) <= Len(data[w])
  BY <1>2, <1>3, FS_Subset
<1> QED BY <1>4, FS_CardinalityType DEF CurrentAt, Latest

-----------------------------------------------------------------------------
(* The cache: the steps                                                    *)

\* The invariant holds of an empty cache.
LEMMA CacheInitially == CacheInit => CacheInv
<1> SUFFICES ASSUME CacheInit PROVE CacheInv
  OBVIOUS
<1>1. /\ time = 0 /\ data = [w \in Workspaces |-> <<0>>] /\ resolved = [k \in Keys |-> NoEntry]
      /\ inflight = [k \in Keys |-> NoReader] /\ reader = [r \in Readers |-> NewRequest]
      /\ notices = {} /\ cleared = [w \in Workspaces |-> 1]
  BY DEF CacheInit
<1>2. CacheTyped
  <2>1. NewRequest \in ReaderState
    BY DEF NewRequest, ReaderState
  <2>2. <<0>> \in Seq(Nat)
    OBVIOUS
  <2> QED BY <1>1, <2>1, <2>2 DEF CacheTyped, Entries
<1>3. Held(resolved) = {}
  BY <1>1 DEF Held, NoEntry
<1>4. SeatsDiffer(resolved) /\ SeatsFilled(resolved) /\ EntriesFit /\ Cardinality(Held(resolved)) <= Capacity
  BY <1>3, FS_EmptySet, CacheAssumption DEF SeatsDiffer, SeatsFilled, EntriesFit
<1>5. Loading = {} /\ \A r \in Readers : reader[r].stage = "new"
  BY <1>1 DEF Loading, NewRequest
<1>6. LoadsFit /\ WaitsFit /\ InflightFits /\ StalenessIsBounded
  BY <1>1, <1>5 DEF LoadsFit, WaitsFit, InflightFits, StalenessIsBounded
<1>7. ClearedFits
  BY <1>1 DEF ClearedFits, Latest
<1> QED BY <1>2, <1>4, <1>6, <1>7 DEF CacheInv

\* What a request is tells what it has.
LEMMA Requests ==
  ASSUME CacheTyped
  PROVE  /\ \A r \in Loading : /\ r \in Readers /\ reader[r].stage \in {"loading", "read"}
                               /\ reader[r].key \in Keys /\ reader[r].asked \in Nat /\ reader[r].began \in Nat
                               /\ reader[r].value \in Nat /\ reader[r].overtaken \in BOOLEAN
                               /\ WorkspaceOf[reader[r].key] \in Workspaces
         /\ \A r \in Readers : reader[r].stage = "coalesced" => reader[r].key \in Keys /\ reader[r].asked \in Nat
         /\ \A r \in Readers : reader[r].stage = "answered" => reader[r].value \in Nat /\ reader[r].earlier \in Nat
         /\ \A k \in Keys : WorkspaceOf[k] \in Workspaces
         /\ Ttl \in Nat \ {0} /\ LoadTime \in Nat /\ time \in Nat
<1>1. \A k \in Keys : WorkspaceOf[k] \in Workspaces
  BY DEF Workspaces
<1>2. \A r \in Readers : reader[r] \in ReaderState
  BY DEF CacheTyped
<1>3. \A r \in Loading : r \in Readers /\ reader[r] \in ReaderState /\ reader[r].stage \in {"loading", "read"}
  BY <1>2 DEF Loading
<1>4. \A r \in Loading : /\ reader[r].key \in Keys /\ reader[r].asked \in Nat /\ reader[r].began \in Nat
                         /\ reader[r].value \in Nat /\ reader[r].overtaken \in BOOLEAN
  BY <1>3 DEF ReaderState
<1>5. \A r \in Readers : reader[r].stage = "coalesced" => reader[r].key \in Keys /\ reader[r].asked \in Nat
  BY <1>2 DEF ReaderState
<1>6. \A r \in Readers : reader[r].stage = "answered" => reader[r].value \in Nat /\ reader[r].earlier \in Nat
  BY <1>2 DEF ReaderState
<1> QED BY <1>1, <1>3, <1>4, <1>5, <1>6, CacheAssumption DEF CacheTyped

\* The Map keeps its promise as long as its reports stay what they were.
LEMMA EntriesStay ==
  ASSUME CacheTyped, EntriesFit, resolved' \in Entries, UNCHANGED <<time, data, cleared>>,
         Held(resolved') \in SUBSET Held(resolved),
         \A k \in Held(resolved') : /\ resolved'[k].value = resolved[k].value
                                    /\ resolved'[k].expiresAt = resolved[k].expiresAt
                                    /\ resolved'[k].overtaken = resolved[k].overtaken
  PROVE  EntriesFit' /\ (Cardinality(Held(resolved)) <= Capacity => Cardinality(Held(resolved')) <= Capacity)
<1>1. Held(resolved) \in SUBSET Keys
  BY HeldIsEntry DEF CacheTyped
<1>2. /\ IsFiniteSet(Held(resolved)) /\ Cardinality(Held(resolved)) \in Nat
      /\ IsFiniteSet(Held(resolved')) /\ Cardinality(Held(resolved')) \in Nat
  BY <1>1, KeysFinite
<1>3. Cardinality(Held(resolved')) <= Cardinality(Held(resolved))
  BY <1>2, FS_Subset
<1>4. Held(resolved)' = Held(resolved')
  BY DEF Held
<1>5. ASSUME NEW k \in Held(resolved)'
      PROVE  ReportFits(k, resolved[k].value, resolved[k].expiresAt, resolved[k].overtaken)'
  <2>1. ReportFits(k, resolved[k].value, resolved[k].expiresAt, resolved[k].overtaken)
    BY <1>4, <1>5 DEF EntriesFit
  <2>2. resolved'[k].value = resolved[k].value /\ resolved'[k].expiresAt = resolved[k].expiresAt
        /\ resolved'[k].overtaken = resolved[k].overtaken
    BY <1>4, <1>5
  <2> QED BY <2>1, <2>2 DEF ReportFits, Latest, CurrentAt
<1>6. EntriesFit'
  BY <1>5 DEF EntriesFit
<1> QED BY <1>2, <1>3, <1>6, CacheAssumption

\* A change of the data is later than everything that was read before.
LEMMA DataStays ==
  ASSUME CacheTyped, NEW w \in Workspaces, DataChange(w), NEW u \in Workspaces
  PROVE  /\ data' \in [Workspaces -> Seq(Nat)] /\ Latest(u)' >= Latest(u) /\ Latest(u) \in Nat /\ Latest(u)' \in Nat
         /\ \A t \in Nat : t < time => CurrentAt(u, t)' = CurrentAt(u, t)
<1>1. data' = [data EXCEPT ![w] = Append(data[w], time)] /\ data[w] \in Seq(Nat) /\ data[u] \in Seq(Nat) /\ time \in Nat
  BY DEF DataChange, CacheTyped
<1>2. data' \in [Workspaces -> Seq(Nat)]
  BY <1>1 DEF CacheTyped
<1>3. u # w => data'[u] = data[u]
  BY <1>1 DEF CacheTyped
<1>4. data'[w] = Append(data[w], time)
  BY <1>1 DEF CacheTyped
<1>5. Latest(u)' >= Latest(u) /\ Latest(u) \in Nat /\ Latest(u)' \in Nat
  <2>1. CASE u = w
    BY <1>1, <1>4, <2>1 DEF Latest
  <2>2. CASE u # w
    BY <1>1, <1>3, <2>2 DEF Latest
  <2> QED BY <2>1, <2>2
<1>6. ASSUME NEW t \in Nat, t < time PROVE CurrentAt(u, t)' = CurrentAt(u, t)
  <2>1. CASE u # w
    BY <1>3, <2>1 DEF CurrentAt
  <2>2. CASE u = w
    <3>1. \A i : i \in DOMAIN data'[u] /\ data'[u][i] <= t <=> i \in DOMAIN data[u] /\ data[u][i] <= t
      <4>1. DOMAIN data[w] = 1 .. Len(data[w]) /\ DOMAIN Append(data[w], time) = 1 .. (Len(data[w]) + 1) /\ Len(data[w]) \in Nat
        BY <1>1
      <4>2. \A i \in 1 .. Len(data[w]) : Append(data[w], time)[i] = data[w][i]
        BY <1>1
      <4>3. Append(data[w], time)[Len(data[w]) + 1] = time
        BY <1>1
      <4>4. ~(time <= t)
        BY <1>1, <1>6
      <4>5. \A i : i \in 1 .. (Len(data[w]) + 1) <=> i \in 1 .. Len(data[w]) \/ i = Len(data[w]) + 1
        BY <4>1
      <4> QED BY <1>4, <2>2, <4>1, <4>2, <4>3, <4>4, <4>5
    <3>2. {i \in DOMAIN data'[u] : data'[u][i] <= t} = {i \in DOMAIN data[u] : data[u][i] <= t}
      BY <3>1
    <3> QED BY <3>2 DEF CurrentAt
  <2> QED BY <2>1, <2>2
<1> QED BY <1>2, <1>5, <1>6

\* Synchronized data changes: reports become older, none becomes newer.
LEMMA DataChangeKeeps ==
  ASSUME CacheInv, NEW w \in Workspaces, DataChange(w) PROVE CacheInv'
<1>0. CacheTyped /\ EntriesFit /\ LoadsFit /\ ClearedFits
  BY DEF CacheInv
<1>1. UNCHANGED <<time, resolved, inflight, reader, cleared>> /\ notices' = notices \cup {w}
  BY DEF DataChange
<1>2. CacheTyped'
  BY <1>0, <1>1, DataStays DEF CacheTyped
<1>3. SeatsDiffer(resolved)' /\ SeatsFilled(resolved)' /\ (Cardinality(Held(resolved)) <= Capacity)' /\ WaitsFit' /\ InflightFits' /\ StalenessIsBounded'
      /\ Held(resolved)' = Held(resolved) /\ Loading' = Loading
  BY <1>1 DEF CacheInv, SeatsDiffer, SeatsFilled, Held, WaitsFit, InflightFits, StalenessIsBounded, Loading
<1>4. EntriesFit'
  <2> SUFFICES ASSUME NEW k \in Held(resolved)
      PROVE ReportFits(k, resolved[k].value, resolved[k].expiresAt, resolved[k].overtaken)'
    BY <1>3 DEF EntriesFit
  <2> DEFINE u == WorkspaceOf[k]
  <2>1. /\ ReportFits(k, resolved[k].value, resolved[k].expiresAt, resolved[k].overtaken)
        /\ resolved[k] \in Entry /\ u \in Workspaces
    BY <1>0, HeldIsEntry, Requests DEF EntriesFit, CacheTyped
  <2>2. resolved[k].value \in Nat /\ resolved[k].expiresAt \in Nat /\ Ttl \in Nat /\ LoadTime \in Nat /\ time \in Nat
    BY <1>0, <2>1, Requests DEF Entry
  <2>3. /\ Latest(u)' >= Latest(u) /\ Latest(u) \in Nat /\ Latest(u)' \in Nat
        /\ \A t \in Nat : t < time => CurrentAt(u, t)' = CurrentAt(u, t)
    BY <1>0, <2>1, DataStays
  <2>4. \A t \in Nat : t + Ttl + LoadTime < resolved[k].expiresAt => t < time
    BY <2>1, <2>2 DEF ReportFits
  <2>5. \A t \in Nat : t + Ttl + LoadTime < resolved[k].expiresAt => CurrentAt(u, t)' <= resolved[k].value
    BY <2>1, <2>3, <2>4 DEF ReportFits
  <2>6. resolved[k].value <= Latest(u)' /\ (resolved[k].overtaken \/ resolved[k].value >= cleared[u]) /\ resolved[k].expiresAt <= time + Ttl
    BY <2>1, <2>2, <2>3 DEF ReportFits
  <2> QED BY <1>1, <2>5, <2>6 DEF ReportFits
<1>5. LoadsFit'
  <2> SUFFICES ASSUME NEW r \in Loading, reader[r].stage = "read"
      PROVE  LET u == WorkspaceOf[reader[r].key]
             IN  /\ reader[r].value <= Len(data'[u])
                 /\ \A t \in Nat : t < reader[r].began =>
                        Cardinality({i \in DOMAIN data'[u] : data'[u][i] <= t}) <= reader[r].value
    BY <1>0, <1>1, <1>3 DEF LoadsFit, AsFresh, Latest, CurrentAt
  <2>u. PICK u \in Workspaces : u = WorkspaceOf[reader[r].key]
    BY <1>0, Requests
  <2>1. reader[r].value \in Nat /\ reader[r].began \in Nat /\ reader[r].began <= time
        /\ reader[r].value <= Latest(u) /\ AsFresh(u, reader[r].value, reader[r].began) /\ time \in Nat
    BY <1>0, <2>u, Requests DEF LoadsFit
  <2>2. /\ Latest(u)' >= Latest(u) /\ Latest(u) \in Nat /\ Latest(u)' \in Nat
        /\ \A t \in Nat : t < time => CurrentAt(u, t)' = CurrentAt(u, t)
    BY <1>0, DataStays
  <2>3. \A t \in Nat : t < reader[r].began => CurrentAt(u, t)' <= reader[r].value
    BY <2>1, <2>2 DEF AsFresh
  <2>4. reader[r].value <= Latest(u)'
    BY <2>1, <2>2
  <2> QED BY <2>u, <2>3, <2>4 DEF Latest, CurrentAt
<1>6. ClearedFits'
  <2> SUFFICES ASSUME NEW u \in Workspaces PROVE cleared[u] <= Latest(u)'
    BY <1>1 DEF ClearedFits
  <2>1. cleared[u] <= Latest(u) /\ cleared[u] \in Nat
    BY <1>0 DEF ClearedFits, CacheTyped
  <2>2. Latest(u)' >= Latest(u) /\ Latest(u) \in Nat /\ Latest(u)' \in Nat
    BY <1>0, DataStays
  <2> QED BY <2>1, <2>2
<1> QED BY <1>2, <1>3, <1>4, <1>5, <1>6 DEF CacheInv

\* An invalidation leaves only reports of other workspaces, and marks the loads.
LEMMA InvalidationKeeps ==
  ASSUME CacheInv, NEW w \in Workspaces, InvalidationArrives(w) PROVE CacheInv'
<1> DEFINE S == {k \in Held(resolved) : WorkspaceOf[k] # w}
<1>0. /\ CacheTyped /\ EntriesFit /\ LoadsFit /\ ClearedFits /\ WaitsFit /\ InflightFits /\ StalenessIsBounded
      /\ SeatsDiffer(resolved) /\ resolved \in Entries
  BY DEF CacheInv, CacheTyped
<1>1. /\ resolved' = Kept(resolved, S) /\ cleared' = [cleared EXCEPT ![w] = Latest(w)]
      /\ reader' = [r \in Readers |->
                    IF r \in Loading /\ WorkspaceOf[reader[r].key] = w
                    THEN [reader[r] EXCEPT !.overtaken = TRUE] ELSE reader[r]]
      /\ notices' = notices \ {w} /\ UNCHANGED <<time, data, inflight>>
  BY DEF InvalidationArrives, ClearWorkspace
<1>2. /\ resolved' \in Entries /\ Held(resolved') = S /\ SeatsDiffer(resolved') /\ SeatsFilled(resolved')
      /\ \A k \in S : /\ resolved'[k].value = resolved[k].value
                      /\ resolved'[k].expiresAt = resolved[k].expiresAt
                      /\ resolved'[k].overtaken = resolved[k].overtaken
  BY <1>0, <1>1, KeptIs
<1>3. \A u \in Workspaces : Latest(u) \in Nat /\ Latest(u)' = Latest(u)
  BY <1>0, <1>1 DEF CacheTyped, Latest
<1>4. cleared' \in [Workspaces -> Nat] /\ cleared'[w] = Latest(w) /\ \A u \in Workspaces \ {w} : cleared'[u] = cleared[u]
  BY <1>0, <1>1, <1>3 DEF CacheTyped
<1>5. ASSUME NEW r \in Readers
      PROVE  /\ reader'[r] \in ReaderState /\ reader'[r].stage = reader[r].stage
             /\ r \notin Loading => reader'[r] = reader[r]
             /\ r \in Loading => /\ reader'[r].key = reader[r].key /\ reader'[r].asked = reader[r].asked
                                 /\ reader'[r].began = reader[r].began /\ reader'[r].value = reader[r].value
                                 /\ WorkspaceOf[reader[r].key] # w => reader'[r].overtaken = reader[r].overtaken
                                 /\ WorkspaceOf[reader[r].key] = w => reader'[r].overtaken = TRUE
  <2>1. reader[r] \in ReaderState
    BY <1>0 DEF CacheTyped
  <2>2. CASE r \in Loading /\ WorkspaceOf[reader[r].key] = w
    <3>1. reader'[r] = [reader[r] EXCEPT !.overtaken = TRUE]
      BY <1>1, <2>2
    <3>2. reader[r].stage \in {"loading", "read"}
      BY <2>2 DEF Loading
    <3> QED BY <2>1, <2>2, <3>1, <3>2 DEF ReaderState
  <2>3. CASE ~(r \in Loading /\ WorkspaceOf[reader[r].key] = w)
    <3>1. reader'[r] = reader[r]
      BY <1>1, <2>3
    <3> QED BY <2>1, <2>3, <3>1
  <2> QED BY <2>2, <2>3
<1>6. CacheTyped'
  BY <1>0, <1>1, <1>2, <1>4, <1>5 DEF CacheTyped
<1>7. Loading' = Loading
  BY <1>5 DEF Loading
<1>8. EntriesFit'
  <2> SUFFICES ASSUME NEW k \in S
      PROVE ReportFits(k, resolved[k].value, resolved[k].expiresAt, resolved[k].overtaken)'
    BY <1>2 DEF EntriesFit, Held
  <2>1. ReportFits(k, resolved[k].value, resolved[k].expiresAt, resolved[k].overtaken) /\ k \in Keys /\ WorkspaceOf[k] # w
        /\ WorkspaceOf[k] \in Workspaces
    BY <1>0, HeldIsEntry, Requests DEF EntriesFit
  <2>2. cleared'[WorkspaceOf[k]] = cleared[WorkspaceOf[k]]
    BY <1>4, <2>1
  <2> QED BY <1>1, <1>2, <2>1, <2>2 DEF ReportFits, Latest, CurrentAt
<1>9. Cardinality(Held(resolved')) <= Capacity
  <2>1. Held(resolved) \in SUBSET Keys /\ Held(resolved') \in SUBSET Held(resolved)
    BY <1>0, <1>2, HeldIsEntry
  <2>2. IsFiniteSet(Held(resolved)) /\ Cardinality(Held(resolved)) \in Nat
        /\ IsFiniteSet(Held(resolved')) /\ Cardinality(Held(resolved')) \in Nat
    BY <2>1, KeysFinite
  <2>3. Cardinality(Held(resolved')) <= Cardinality(Held(resolved))
    BY <2>1, <2>2, FS_Subset
  <2> QED BY <2>2, <2>3, CacheAssumption DEF CacheInv
<1>10. LoadsFit'
  <2> SUFFICES ASSUME NEW r \in Loading
      PROVE  /\ reader'[r].asked = reader'[r].began /\ reader'[r].began <= time'
             /\ time' <= reader'[r].began + LoadTime
             /\ reader'[r].stage = "read" =>
                   /\ reader'[r].value <= Latest(WorkspaceOf[reader'[r].key])
                   /\ AsFresh(WorkspaceOf[reader'[r].key], reader'[r].value, reader'[r].began)
                   /\ reader'[r].overtaken \/ reader'[r].value >= cleared'[WorkspaceOf[reader'[r].key]]
    <3>1. data' = data
      BY <1>1
    <3> QED BY <1>7, <3>1 DEF LoadsFit, AsFresh, Latest, CurrentAt
  <2> DEFINE u == WorkspaceOf[reader[r].key]
  <2>1. /\ r \in Readers /\ u \in Workspaces /\ reader'[r].key = reader[r].key
        /\ reader[r].value \in Nat /\ cleared[u] \in Nat
    BY <1>0, <1>5, Requests DEF CacheTyped
  <2>2. reader'[r].stage = reader[r].stage /\ reader'[r].asked = reader[r].asked
        /\ reader'[r].began = reader[r].began /\ reader'[r].value = reader[r].value
    BY <1>5, <2>1
  <2>3. reader[r].asked = reader[r].began /\ reader[r].began <= time /\ time <= reader[r].began + LoadTime
    BY <1>0 DEF LoadsFit
  <2>4. reader[r].stage = "read" =>
           /\ reader[r].value <= Latest(u)
           /\ AsFresh(u, reader[r].value, reader[r].began)
           /\ reader[r].overtaken \/ reader[r].value >= cleared[u]
    BY <1>0 DEF LoadsFit
  <2>5. reader'[r].stage = "read" => reader'[r].overtaken \/ reader'[r].value >= cleared'[u]
    <3>1. CASE u = w
      BY <1>5, <2>1, <3>1
    <3>2. CASE u # w
      <4>1. cleared'[u] = cleared[u] /\ reader'[r].overtaken = reader[r].overtaken
        BY <1>4, <1>5, <2>1, <3>2
      <4> QED BY <2>2, <2>4, <4>1
    <3> QED BY <3>1, <3>2
  <2> HIDE DEF u
  <2> QED BY <1>1, <2>1, <2>2, <2>3, <2>4, <2>5 DEF u
<1>11. WaitsFit'
  <2> SUFFICES ASSUME NEW r \in Readers, reader'[r].stage = "coalesced"
      PROVE  /\ reader'[r].load \in Loading
             /\ reader'[reader'[r].load].key = reader'[r].key
             /\ reader'[r].asked <= reader'[reader'[r].load].began + LoadTime
    BY <1>7 DEF WaitsFit
  <2>1. reader[r].stage = "coalesced" /\ r \notin Loading /\ reader'[r] = reader[r]
    BY <1>5 DEF Loading
  <2> DEFINE q == reader[r].load
  <2>2. q \in Loading /\ q \in Readers /\ reader[q].key = reader[r].key /\ reader[r].asked <= reader[q].began + LoadTime
    BY <1>0, <2>1 DEF WaitsFit, Loading
  <2>3. reader'[q].key = reader[q].key /\ reader'[q].began = reader[q].began
    BY <1>5, <2>2
  <2> QED BY <2>1, <2>2, <2>3
<1>12. InflightFits'
  <2>1. \A r \in Loading : r \in Readers
    BY DEF Loading
  <2> QED BY <1>0, <1>1, <1>5, <1>7, <2>1 DEF InflightFits
<1>13. StalenessIsBounded'
  <2>1. \A r \in Readers : reader'[r].stage = "answered" => reader'[r] = reader[r]
    BY <1>5 DEF Loading
  <2> QED BY <1>0, <1>5, <2>1 DEF StalenessIsBounded
<1>14. ClearedFits'
  <2>1. \A u \in Workspaces : cleared'[u] <= Latest(u)
    BY <1>0, <1>3, <1>4 DEF ClearedFits
  <2> QED BY <1>3, <2>1 DEF ClearedFits
<1> QED BY <1>2, <1>6, <1>8, <1>9, <1>10, <1>11, <1>12, <1>13, <1>14 DEF CacheInv

\* Time passes: entries expire.
LEMMA TimeKeeps ==
  ASSUME CacheInv, TimeAdvances PROVE CacheInv'
<1>0. CacheTyped /\ EntriesFit /\ LoadsFit
  BY DEF CacheInv
<1>1. /\ \A r \in Loading : time < reader[r].began + LoadTime
      /\ time' = time + 1 /\ UNCHANGED <<data, resolved, inflight, reader, notices, cleared>>
  BY DEF TimeAdvances
<1>2. CacheTyped'
  BY <1>0, <1>1 DEF CacheTyped
<1>3. SeatsDiffer(resolved)' /\ SeatsFilled(resolved)' /\ (Cardinality(Held(resolved)) <= Capacity)' /\ WaitsFit' /\ InflightFits' /\ StalenessIsBounded'
      /\ ClearedFits' /\ Held(resolved)' = Held(resolved) /\ Loading' = Loading
  BY <1>1 DEF CacheInv, SeatsDiffer, SeatsFilled, Held, WaitsFit, InflightFits, StalenessIsBounded, Loading, ClearedFits, Latest
<1>4. EntriesFit'
  <2> SUFFICES ASSUME NEW k \in Held(resolved)
      PROVE ReportFits(k, resolved[k].value, resolved[k].expiresAt, resolved[k].overtaken)'
    BY <1>3 DEF EntriesFit
  <2>1. /\ ReportFits(k, resolved[k].value, resolved[k].expiresAt, resolved[k].overtaken)
        /\ resolved[k] \in Entry
    BY <1>0, HeldIsEntry DEF EntriesFit, CacheTyped
  <2>2. resolved[k].expiresAt \in Nat /\ Ttl \in Nat /\ time \in Nat
    BY <1>0, <2>1, Requests DEF Entry
  <2>3. resolved[k].expiresAt <= time' + Ttl
    BY <1>1, <2>1, <2>2 DEF ReportFits
  <2> QED BY <1>1, <2>1, <2>3 DEF ReportFits, Latest, CurrentAt
<1>5. LoadsFit'
  <2>1. \A r \in Loading : reader[r].began <= time' /\ time' <= reader[r].began + LoadTime
    BY <1>0, <1>1, Requests DEF LoadsFit
  <2> QED BY <1>0, <1>1, <1>3, <2>1 DEF LoadsFit, AsFresh, CurrentAt, Latest
<1> QED BY <1>2, <1>3, <1>4, <1>5 DEF CacheInv

\* A message on the channel is lost.
LEMMA LossKeeps ==
  ASSUME CacheInv, NEW w \in Workspaces, InvalidationIsLost(w) PROVE CacheInv'
BY DEF CacheInv, InvalidationIsLost, CacheTyped, SeatsDiffer, SeatsFilled, Held, EntriesFit, ReportFits, LoadsFit, AsFresh,
       WaitsFit, InflightFits, Loading, ClearedFits, Latest, CurrentAt, StalenessIsBounded

\* A request is answered, waits for a load or starts one.
LEMMA RequestMoves ==
  ASSUME CacheInv, NEW r \in Readers, reader[r].stage = "new", UNCHANGED <<time, data, cleared>>,
         NEW X \in ReaderState, X.stage \in {"answered", "coalesced", "loading"}, reader' = [reader EXCEPT ![r] = X],
         X.stage = "answered" => (X.value # 0 => X.value >= X.earlier),
         X.stage = "coalesced" => /\ X.load \in Loading /\ reader[X.load].key = X.key
                                  /\ X.asked <= reader[X.load].began + LoadTime,
         X.stage = "loading" => X.asked = X.began /\ X.began = time,
         inflight' \in [Keys -> Readers \cup {NoReader}],
         \A k \in Keys : inflight'[k] = inflight[k] \/ (inflight'[k] = r /\ X.stage = "loading" /\ X.key = k)
  PROVE  reader' \in [Readers -> ReaderState] /\ LoadsFit' /\ WaitsFit' /\ InflightFits' /\ StalenessIsBounded' /\ ClearedFits'
<1>0. CacheTyped /\ LoadsFit /\ WaitsFit /\ InflightFits /\ ClearedFits /\ StalenessIsBounded
  BY DEF CacheInv
<1>1. /\ reader' \in [Readers -> ReaderState] /\ reader'[r] = X
      /\ \A q \in Readers \ {r} : reader'[q] = reader[q]
  BY <1>0 DEF CacheTyped
<1>2. data' = data /\ time' = time /\ cleared' = cleared /\ LoadTime \in Nat /\ time \in Nat
  BY <1>0, Requests
<1>3. /\ \A q \in Loading : q \in Readers \ {r} /\ q \in Loading' /\ reader'[q] = reader[q]
      /\ \A q \in Loading' : q \in Loading \/ (q = r /\ X.stage = "loading")
      /\ X.stage = "loading" => r \in Loading'
  BY <1>1 DEF Loading
<1>4. LoadsFit'
  <2> SUFFICES ASSUME NEW q \in Loading'
      PROVE  /\ reader'[q].asked = reader'[q].began /\ reader'[q].began <= time
             /\ time <= reader'[q].began + LoadTime
             /\ reader'[q].stage = "read" =>
                   /\ reader'[q].value <= Latest(WorkspaceOf[reader'[q].key])
                   /\ AsFresh(WorkspaceOf[reader'[q].key], reader'[q].value, reader'[q].began)
                   /\ reader'[q].overtaken \/ reader'[q].value >= cleared[WorkspaceOf[reader'[q].key]]
    BY <1>2 DEF LoadsFit, AsFresh, Latest, CurrentAt
  <2>1. CASE q \in Loading
    <3>1. reader'[q] = reader[q]
      BY <1>3, <2>1
    <3> QED BY <1>0, <2>1, <3>1 DEF LoadsFit
  <2>2. CASE q = r /\ X.stage = "loading"
    BY <1>1, <1>2, <2>2
  <2> QED BY <1>3, <2>1, <2>2
<1>5. WaitsFit'
  <2> SUFFICES ASSUME NEW q \in Readers, reader'[q].stage = "coalesced"
      PROVE  /\ reader'[q].load \in Loading'
             /\ reader'[reader'[q].load].key = reader'[q].key
             /\ reader'[q].asked <= reader'[reader'[q].load].began + LoadTime
    BY DEF WaitsFit
  <2>1. /\ reader'[q].load \in Loading /\ reader[reader'[q].load].key = reader'[q].key
        /\ reader'[q].asked <= reader[reader'[q].load].began + LoadTime
    BY <1>0, <1>1, <1>2 DEF WaitsFit
  <2> QED BY <1>3, <2>1
<1>6. InflightFits'
  <2> SUFFICES ASSUME NEW k \in Keys, inflight'[k] # NoReader
      PROVE  inflight'[k] \in Loading' /\ reader'[inflight'[k]].key = k
    BY DEF InflightFits
  <2>1. CASE inflight'[k] = inflight[k]
    BY <1>0, <1>3, <2>1 DEF InflightFits
  <2>2. CASE inflight'[k] = r /\ X.stage = "loading" /\ X.key = k
    BY <1>1, <1>3, <2>2
  <2> QED BY <2>1, <2>2
<1>7. StalenessIsBounded'
  BY <1>0, <1>1 DEF StalenessIsBounded
<1>8. ClearedFits'
  BY <1>0, <1>2 DEF ClearedFits, Latest
<1> QED BY <1>1, <1>4, <1>5, <1>6, <1>7, <1>8

\* A request is answered from the cache, waits for a load or begins one.
LEMMA RequestKeeps ==
  ASSUME CacheInv, NEW r \in Readers, NEW k \in Keys, NEW refresh \in BOOLEAN, Request(r, k, refresh) PROVE CacheInv'
<1> DEFINE S == {j \in Held(resolved) : Fresh(resolved[j])}
           entries == Kept(resolved, S)
           waiting == [stage |-> "coalesced", key |-> k, asked |-> time, load |-> inflight[k]]
           started == [stage |-> "loading", key |-> k, asked |-> time, began |-> time, value |-> 0, overtaken |-> FALSE]
<1>0. /\ CacheTyped /\ EntriesFit /\ LoadsFit /\ WaitsFit /\ InflightFits /\ resolved \in Entries
      /\ SeatsDiffer(resolved) /\ Cardinality(Held(resolved)) <= Capacity
      /\ inflight \in [Keys -> Readers \cup {NoReader}]
  BY DEF CacheInv, CacheTyped
<1>1. UNCHANGED <<time, data, notices, cleared>> /\ reader[r].stage = "new"
  BY DEF Request
<1>2. \/ /\ k \in Held(entries) /\ resolved' = Touch(entries, k) /\ inflight' = inflight
         /\ reader' = [reader EXCEPT ![r] = Answer(k, time, entries[k].value)]
      \/ /\ inflight[k] # NoReader /\ resolved' = entries /\ inflight' = inflight
         /\ reader' = [reader EXCEPT ![r] = waiting]
      \/ /\ resolved' = entries /\ inflight' = [inflight EXCEPT ![k] = r]
         /\ reader' = [reader EXCEPT ![r] = started]
  BY DEF Request, DeleteExpired
<1>3. /\ entries \in Entries /\ Held(entries) = S /\ SeatsDiffer(entries) /\ SeatsFilled(entries)
      /\ \A j \in S : /\ entries[j].value = resolved[j].value
                      /\ entries[j].expiresAt = resolved[j].expiresAt
                      /\ entries[j].overtaken = resolved[j].overtaken
  BY <1>0, KeptIs
<1>4. time \in Nat /\ LoadTime \in Nat /\ WorkspaceOf[k] \in Workspaces /\ Ttl \in Nat
  BY <1>0, Requests
<1>5. S \in SUBSET Held(resolved) /\ \A j \in S : Fresh(resolved[j])
  OBVIOUS
<1> HIDE DEF entries, S
<1>6. /\ resolved' \in Entries /\ Held(resolved') = S /\ SeatsDiffer(resolved') /\ SeatsFilled(resolved')
      /\ \A j \in S : /\ resolved'[j].value = resolved[j].value
                      /\ resolved'[j].expiresAt = resolved[j].expiresAt
                      /\ resolved'[j].overtaken = resolved[j].overtaken
  <2>1. CASE k \in Held(entries) /\ resolved' = Touch(entries, k)
    BY <1>3, <2>1, TouchIs
  <2>2. CASE resolved' = entries
    BY <1>3, <2>2
  <2> QED BY <1>2, <2>1, <2>2
<1>7. EntriesFit' /\ Cardinality(Held(resolved')) <= Capacity
  BY <1>0, <1>1, <1>5, <1>6, EntriesStay
<1>8. /\ reader' \in [Readers -> ReaderState] /\ LoadsFit' /\ WaitsFit' /\ InflightFits' /\ StalenessIsBounded' /\ ClearedFits'
      /\ inflight' \in [Keys -> Readers \cup {NoReader}]
  <2>1. CASE /\ k \in Held(entries) /\ inflight' = inflight
             /\ reader' = [reader EXCEPT ![r] = Answer(k, time, entries[k].value)]
    <3> DEFINE v == entries[k].value
               X == Answer(k, time, v)
    <3>1. k \in Held(resolved) /\ Fresh(resolved[k]) /\ v = resolved[k].value /\ resolved[k] \in Entry
      BY <1>0, <1>3, <1>5, <2>1, HeldIsEntry
    <3>2. ReportFits(k, resolved[k].value, resolved[k].expiresAt, resolved[k].overtaken)
      BY <1>0, <3>1 DEF EntriesFit
    <3>3. v \in Nat /\ resolved[k].expiresAt \in Nat /\ resolved[k].expiresAt > time
      BY <3>1 DEF Entry, Fresh
    <3>4. \A t \in Nat : t + Ttl + LoadTime = time => CurrentAt(WorkspaceOf[k], t) <= v
      BY <3>1, <3>2, <3>3 DEF ReportFits
    <3> HIDE DEF v
    <3>5. X \in ReaderState /\ X.stage = "answered" /\ X.value = v /\ (v # 0 => v >= X.earlier)
      BY <1>0, <1>4, <3>3, <3>4, AnswerIsFresh
    <3>6. reader' = [reader EXCEPT ![r] = X]
      BY <2>1 DEF v
    <3> HIDE DEF X
    <3> QED BY <1>0, <1>1, <2>1, <3>5, <3>6, RequestMoves
  <2>2. CASE /\ inflight[k] # NoReader /\ inflight' = inflight
             /\ reader' = [reader EXCEPT ![r] = waiting]
    <3> DEFINE q == inflight[k]
    <3>1. q \in Loading /\ reader[q].key = k /\ q \in Readers
      BY <1>0, <2>2 DEF InflightFits, Loading
    <3>2. time <= reader[q].began + LoadTime
      BY <1>0, <3>1 DEF LoadsFit
    <3>3. /\ waiting \in ReaderState /\ waiting.stage = "coalesced" /\ waiting.load = q /\ waiting.key = k
          /\ waiting.asked = time
      BY <1>4, <3>1 DEF ReaderState
    <3> HIDE DEF waiting, q
    <3> QED BY <1>0, <1>1, <2>2, <3>1, <3>2, <3>3, RequestMoves
  <2>3. CASE inflight' = [inflight EXCEPT ![k] = r] /\ reader' = [reader EXCEPT ![r] = started]
    <3>1. /\ started \in ReaderState /\ started.stage = "loading" /\ started.key = k
          /\ started.asked = started.began /\ started.began = time
      BY <1>4 DEF ReaderState
    <3>2. inflight' \in [Keys -> Readers \cup {NoReader}] /\ \A j \in Keys : inflight'[j] = inflight[j] \/ (inflight'[j] = r /\ j = k)
      BY <1>0, <2>3
    <3> HIDE DEF started
    <3> QED BY <1>1, <2>3, <3>1, <3>2, RequestMoves
  <2> QED BY <1>2, <2>1, <2>2, <2>3
<1>9. CacheTyped'
  BY <1>0, <1>1, <1>6, <1>8 DEF CacheTyped
<1> QED BY <1>6, <1>7, <1>8, <1>9 DEF CacheInv

\* A load reads the data.
LEMMA ReadKeeps ==
  ASSUME CacheInv, NEW r \in Readers, LoaderReads(r) PROVE CacheInv'
<1> DEFINE X == [reader[r] EXCEPT !.stage = "read", !.value = Latest(WorkspaceOf[reader[r].key])]
<1>0. CacheTyped /\ EntriesFit /\ LoadsFit /\ WaitsFit /\ InflightFits /\ ClearedFits /\ StalenessIsBounded
  BY DEF CacheInv
<1>1. reader[r].stage = "loading" /\ reader' = [reader EXCEPT ![r] = X] /\ UNCHANGED <<time, data, resolved, inflight, notices, cleared>>
  BY DEF LoaderReads
<1>2. r \in Loading /\ reader[r] \in ReaderState
  BY <1>0, <1>1 DEF Loading, CacheTyped
<1>u. PICK u \in Workspaces : u = WorkspaceOf[reader[r].key]
  BY <1>0, <1>2, Requests
<1>3. Latest(u) \in Nat
  BY <1>0 DEF CacheTyped, Latest
<1>4. /\ X \in ReaderState /\ X.stage = "read" /\ X.value = Latest(u) /\ X.key = reader[r].key
      /\ X.asked = reader[r].asked /\ X.began = reader[r].began
  BY <1>1, <1>2, <1>3, <1>u DEF ReaderState
<1> HIDE DEF X
<1>5. reader' \in [Readers -> ReaderState] /\ reader'[r] = X /\ \A q \in Readers \ {r} : reader'[q] = reader[q]
  BY <1>0, <1>1, <1>4 DEF CacheTyped
<1>6. /\ Loading' = Loading
      /\ \A q \in Loading : q \in Readers /\ reader'[q].key = reader[q].key /\ reader'[q].began = reader[q].began
                              /\ reader'[q].asked = reader[q].asked
  BY <1>1, <1>2, <1>4, <1>5 DEF Loading
<1>7. CacheTyped'
  BY <1>0, <1>1, <1>5 DEF CacheTyped
<1>8. EntriesFit' /\ SeatsDiffer(resolved)' /\ SeatsFilled(resolved)' /\ (Cardinality(Held(resolved)) <= Capacity)' /\ ClearedFits'
  BY <1>1 DEF CacheInv, EntriesFit, ReportFits, SeatsDiffer, SeatsFilled, Held, ClearedFits, Latest, CurrentAt
<1>9. LoadsFit'
  <2>1. data' = data /\ time' = time /\ cleared' = cleared
    BY <1>1
  <2> SUFFICES ASSUME NEW q \in Loading
      PROVE  /\ reader'[q].asked = reader'[q].began /\ reader'[q].began <= time
             /\ time <= reader'[q].began + LoadTime
             /\ reader'[q].stage = "read" =>
                   /\ reader'[q].value <= Latest(WorkspaceOf[reader'[q].key])
                   /\ AsFresh(WorkspaceOf[reader'[q].key], reader'[q].value, reader'[q].began)
                   /\ reader'[q].overtaken \/ reader'[q].value >= cleared[WorkspaceOf[reader'[q].key]]
    BY <1>6, <2>1 DEF LoadsFit, AsFresh, Latest, CurrentAt
  <2>2. CASE q # r
    <3>1. reader'[q] = reader[q]
      BY <1>5, <1>6, <2>2
    <3> QED BY <1>0, <3>1 DEF LoadsFit
  <2>3. CASE q = r
    <3>1. reader[r].asked = reader[r].began /\ reader[r].began <= time /\ time <= reader[r].began + LoadTime
      BY <1>0, <1>2 DEF LoadsFit
    <3>2. AsFresh(u, Latest(u), reader[r].began)
      BY <1>0, CurrentIsKnown DEF AsFresh
    <3>3. cleared[u] <= Latest(u) /\ cleared[u] \in Nat
      BY <1>0 DEF ClearedFits, CacheTyped
    <3>4. /\ reader'[q].value = Latest(u) /\ WorkspaceOf[reader'[q].key] = u /\ reader'[q].began = reader[r].began
          /\ reader'[q].asked = reader[r].asked
      BY <1>4, <1>5, <1>u, <2>3
    <3> QED BY <1>3, <3>1, <3>2, <3>3, <3>4
  <2> QED BY <2>2, <2>3
<1>10. WaitsFit'
  <2>1. \A q \in Readers : reader'[q].stage = "coalesced" => reader'[q] = reader[q]
    BY <1>4, <1>5
  <2> QED BY <1>0, <1>6, <2>1 DEF WaitsFit
<1>11. InflightFits'
  BY <1>0, <1>1, <1>6 DEF InflightFits
<1>12. StalenessIsBounded'
  BY <1>0, <1>4, <1>5 DEF StalenessIsBounded
<1> QED BY <1>7, <1>8, <1>9, <1>10, <1>11, <1>12 DEF CacheInv

\* A load that settles answers the requests that wait for it.
LEMMA SettleKeeps ==
  ASSUME CacheInv, NEW r \in Loading, NEW v \in Nat,
         v # 0 => AsFresh(WorkspaceOf[reader[r].key], v, reader[r].began),
         inflight' = Settled(r), reader' = Answered(r, v), UNCHANGED <<time, data, cleared>>
  PROVE  /\ reader' \in [Readers -> ReaderState] /\ inflight' \in [Keys -> Readers \cup {NoReader}]
         /\ LoadsFit' /\ WaitsFit' /\ InflightFits' /\ StalenessIsBounded' /\ ClearedFits'
<1> DEFINE waits(q) == reader[q].stage = "coalesced" /\ reader[q].load = r
<1>0. CacheTyped /\ LoadsFit /\ WaitsFit /\ InflightFits /\ ClearedFits /\ StalenessIsBounded
  BY DEF CacheInv
<1>1. data' = data /\ time' = time /\ cleared' = cleared
  OBVIOUS
<1>2. /\ r \in Readers /\ reader[r].stage \in {"loading", "read"} /\ reader[r].key \in Keys /\ reader[r].began \in Nat
      /\ reader[r].asked = reader[r].began /\ LoadTime \in Nat /\ Ttl \in Nat \ {0}
  BY <1>0, Requests DEF LoadsFit
<1>3. ASSUME NEW q \in Readers, q = r \/ waits(q)
      PROVE  /\ reader'[q] \in ReaderState /\ reader'[q].stage = "answered"
             /\ reader'[q].value # 0 => reader'[q].value >= reader'[q].earlier
  <2>1. reader'[q] = Answer(reader[q].key, reader[q].asked, v)
    BY <1>3 DEF Answered
  <2>2. reader[q].key = reader[r].key /\ reader[q].asked \in Nat /\ reader[q].asked <= reader[r].began + LoadTime
    <3>1. CASE q = r
      BY <1>0, <1>2, <3>1, Requests
    <3>2. CASE waits(q)
      BY <1>0, <3>2, Requests DEF WaitsFit
    <3> QED BY <1>3, <3>1, <3>2
  <2>3. v # 0 => \A t \in Nat : t + Ttl + LoadTime = reader[q].asked => CurrentAt(WorkspaceOf[reader[q].key], t) <= v
    <3> SUFFICES ASSUME v # 0, NEW t \in Nat, t + Ttl + LoadTime = reader[q].asked
        PROVE CurrentAt(WorkspaceOf[reader[q].key], t) <= v
      OBVIOUS
    <3>1. t < reader[r].began
      BY <1>2, <2>2
    <3> QED BY <2>2, <3>1 DEF AsFresh
  <2> QED BY <1>0, <1>2, <2>1, <2>2, <2>3, AnswerIsFresh
<1>4. \A q \in Readers : ~(q = r \/ waits(q)) => reader'[q] = reader[q]
  BY DEF Answered
<1>5. \A q \in Readers : reader[q] \in ReaderState
  BY <1>0 DEF CacheTyped
<1>6. reader' \in [Readers -> ReaderState]
  <2>1. \A q \in Readers : reader'[q] \in ReaderState
    BY <1>3, <1>4, <1>5
  <2>2. reader' = [q \in Readers |-> reader'[q]]
    BY DEF Answered
  <2> QED BY <2>1, <2>2
<1>7. /\ \A k \in Keys : inflight'[k] = IF inflight[k] = r THEN NoReader ELSE inflight[k]
      /\ inflight' \in [Keys -> Readers \cup {NoReader}]
  BY <1>0 DEF Settled, CacheTyped
<1>8. Loading' = Loading \ {r} /\ \A q \in Loading' : reader'[q] = reader[q]
  <2>1. \A q \in Readers : q = r \/ waits(q) => reader'[q].stage = "answered" /\ (q # r => q \notin Loading)
    BY <1>3 DEF Loading
  <2> HIDE DEF waits
  <2> QED BY <1>2, <1>4, <2>1 DEF Loading
<1>9. LoadsFit'
  BY <1>0, <1>1, <1>8 DEF LoadsFit, AsFresh, Latest, CurrentAt
<1>10. WaitsFit'
  <2>1. \A q \in Readers : reader'[q].stage = "coalesced" => reader'[q] = reader[q] /\ ~waits(q)
    BY <1>3, <1>4
  <2>2. \A q \in Readers : reader'[q].stage = "coalesced" =>
           reader'[q].load \in Loading' /\ reader'[reader'[q].load] = reader[reader[q].load]
    BY <1>0, <1>8, <2>1 DEF WaitsFit
  <2> HIDE DEF waits
  <2> QED BY <1>0, <2>1, <2>2 DEF WaitsFit
<1>11. InflightFits'
  BY <1>0, <1>7, <1>8 DEF InflightFits
<1>12. StalenessIsBounded'
  <2> SUFFICES ASSUME NEW q \in Readers, reader'[q].stage = "answered" /\ reader'[q].value # 0
      PROVE reader'[q].value >= reader'[q].earlier
    BY DEF StalenessIsBounded
  <2>1. CASE q = r \/ waits(q)
    BY <1>3, <2>1
  <2>2. CASE ~(q = r \/ waits(q))
    BY <1>0, <1>4, <2>2 DEF StalenessIsBounded
  <2> QED BY <2>1, <2>2
<1>13. ClearedFits'
  BY <1>0, <1>1 DEF ClearedFits, Latest
<1> QED BY <1>6, <1>7, <1>9, <1>10, <1>11, <1>12, <1>13

\* A load that fails leaves the cache alone and wakes those that wait.
LEMMA FailureKeeps ==
  ASSUME CacheInv, NEW r \in Readers, LoadFails(r) PROVE CacheInv'
<1>1. r \in Loading /\ inflight' = Settled(r) /\ reader' = Answered(r, 0) /\ UNCHANGED <<time, data, resolved, notices, cleared>>
  BY DEF LoadFails, Loading
<1>2. /\ reader' \in [Readers -> ReaderState] /\ inflight' \in [Keys -> Readers \cup {NoReader}]
      /\ LoadsFit' /\ WaitsFit' /\ InflightFits' /\ StalenessIsBounded' /\ ClearedFits'
  BY <1>1, SettleKeeps
<1>3. CacheTyped'
  BY <1>1, <1>2 DEF CacheInv, CacheTyped
<1>4. EntriesFit' /\ SeatsDiffer(resolved)' /\ SeatsFilled(resolved)' /\ (Cardinality(Held(resolved)) <= Capacity)'
  BY <1>1 DEF CacheInv, EntriesFit, ReportFits, SeatsDiffer, SeatsFilled, Held, Latest, CurrentAt
<1> QED BY <1>2, <1>3, <1>4 DEF CacheInv

\* A load that succeeds stores its report and answers all that wait.
LEMMA SuccessKeeps ==
  ASSUME CacheInv, NEW r \in Readers, LoadSucceeds(r) PROVE CacheInv'
<1> DEFINE seat(k) == IF k \in Held(resolved) THEN resolved[k].seat ELSE Cardinality(Held(resolved)) + 1
           e(k) == [value |-> reader[r].value, expiresAt |-> time + Ttl, overtaken |-> reader[r].overtaken, seat |-> seat(k)]
<1>0. /\ CacheTyped /\ EntriesFit /\ LoadsFit /\ ClearedFits /\ resolved \in Entries
      /\ SeatsDiffer(resolved) /\ SeatsFilled(resolved) /\ time \in Nat
  BY DEF CacheInv, CacheTyped
<1>k. reader[r].stage = "read" /\ r \in Loading
  BY DEF LoadSucceeds, Loading
<1>1. PICK k \in Keys : k = reader[r].key
  BY <1>0, <1>k, Requests
<1>2. resolved' = EnforceCapacity([resolved EXCEPT ![k] = e(k)])
  BY <1>1 DEF LoadSucceeds
<1>3. inflight' = Settled(r) /\ reader' = Answered(r, reader[r].value) /\ UNCHANGED <<time, data, notices, cleared>>
  BY DEF LoadSucceeds
<1>4. /\ reader[r].value \in Nat /\ reader[r].overtaken \in BOOLEAN /\ WorkspaceOf[k] \in Workspaces
      /\ Ttl \in Nat /\ LoadTime \in Nat /\ reader[r].began \in Nat
  BY <1>0, <1>k, <1>1, Requests
<1>5. /\ reader[r].value <= Latest(WorkspaceOf[k]) /\ AsFresh(WorkspaceOf[k], reader[r].value, reader[r].began)
      /\ reader[r].overtaken \/ reader[r].value >= cleared[WorkspaceOf[k]]
      /\ time <= reader[r].began + LoadTime
  BY <1>0, <1>k, <1>1 DEF LoadsFit
<1>6. /\ reader' \in [Readers -> ReaderState] /\ inflight' \in [Keys -> Readers \cup {NoReader}]
      /\ LoadsFit' /\ WaitsFit' /\ InflightFits' /\ StalenessIsBounded' /\ ClearedFits'
  BY <1>k, <1>1, <1>3, <1>4, <1>5, SettleKeeps
<1>7. Held(resolved) \in SUBSET Keys /\ Cardinality(Held(resolved)) \in Nat
      /\ \A j \in Held(resolved) : resolved[j].seat \in Nat \ {0} /\ resolved[j] \in Entry
  BY <1>0, HeldIsEntry, KeysFinite
<1>8. seat(k) \in Nat \ {0} /\ \A j \in Held(resolved) \ {k} : resolved[j].seat # seat(k)
  <2>1. CASE k \in Held(resolved)
    BY <1>0, <1>7, <2>1 DEF SeatsDiffer
  <2>2. CASE k \notin Held(resolved)
    BY <1>0, <1>7, <2>2 DEF SeatsFilled
  <2> QED BY <2>1, <2>2
<1>9. /\ e(k) \in Entry /\ e(k).seat = seat(k) /\ e(k).value = reader[r].value
      /\ e(k).expiresAt = time + Ttl /\ e(k).overtaken = reader[r].overtaken
  <2>1. time + Ttl \in Nat
    BY <1>0, <1>4
  <2> HIDE DEF seat
  <2> QED BY <1>4, <1>8, <2>1 DEF Entry
<1>10. PICK new : new = [resolved EXCEPT ![k] = e(k)]
  OBVIOUS
<1> HIDE DEF e, seat
<1>11. new \in Entries /\ new[k] = e(k) /\ \A j \in Keys \ {k} : new[j] = resolved[j]
  BY <1>0, <1>9, <1>10 DEF Entries
<1>12. Held(new) = Held(resolved) \cup {k}
  BY <1>8, <1>9, <1>11 DEF Held
<1>13. SeatsDiffer(new)
  <2>1. \A j \in Held(resolved) \ {k} : new[j] = resolved[j] /\ new[j].seat # new[k].seat
    BY <1>7, <1>8, <1>9, <1>11
  <2>2. \A i, j \in Held(resolved) : resolved[i].seat = resolved[j].seat => i = j
    BY <1>0 DEF SeatsDiffer
  <2> QED BY <1>12, <2>1, <2>2 DEF SeatsDiffer
<1>14. /\ resolved' \in Entries /\ SeatsDiffer(resolved') /\ SeatsFilled(resolved')
       /\ Held(resolved') \in SUBSET Held(new) /\ Cardinality(Held(resolved')) <= Capacity
       /\ \A j \in Held(resolved') : /\ resolved'[j].value = new[j].value
                                     /\ resolved'[j].expiresAt = new[j].expiresAt
                                     /\ resolved'[j].overtaken = new[j].overtaken
  BY <1>2, <1>10, <1>11, <1>13, CapacityHolds
<1>15. EntriesFit'
  <2>0. Held(resolved)' = Held(resolved') /\ data' = data /\ time' = time /\ cleared' = cleared
    BY <1>3 DEF Held
  <2> SUFFICES ASSUME NEW j \in Held(resolved')
      PROVE ReportFits(j, resolved'[j].value, resolved'[j].expiresAt, resolved'[j].overtaken)
    BY <2>0 DEF EntriesFit, ReportFits, Latest, CurrentAt
  <2>1. CASE j = k
    <3>1. \A t \in Nat : t + Ttl + LoadTime < time + Ttl => t < reader[r].began
      BY <1>0, <1>4, <1>5
    <3>2. \A t \in Nat : t + Ttl + LoadTime < time + Ttl => CurrentAt(WorkspaceOf[k], t) <= reader[r].value
      BY <1>5, <3>1 DEF AsFresh
    <3>3. resolved'[j].value = reader[r].value /\ resolved'[j].expiresAt = time + Ttl /\ resolved'[j].overtaken = reader[r].overtaken
      BY <1>9, <1>11, <1>14, <2>1
    <3>4. time + Ttl <= time + Ttl
      BY <1>0, <1>4
    <3> QED BY <1>5, <2>1, <3>2, <3>3, <3>4 DEF ReportFits
  <2>2. CASE j # k
    <3>1. j \in Held(resolved) /\ new[j] = resolved[j]
      BY <1>7, <1>11, <1>12, <1>14, <2>2
    <3> QED BY <1>0, <1>14, <3>1 DEF EntriesFit
  <2> QED BY <2>1, <2>2
<1>16. CacheTyped'
  BY <1>0, <1>3, <1>6, <1>14 DEF CacheTyped
<1> QED BY <1>6, <1>14, <1>15, <1>16 DEF CacheInv

\* Every step of requests, data and channel preserves the invariant.
LEMMA CacheNextKeeps == CacheInv /\ [CacheNext]_cacheVars => CacheInv'
<1> SUFFICES ASSUME CacheInv, [CacheNext]_cacheVars PROVE CacheInv'
  OBVIOUS
<1>1. CASE CacheNext
  BY <1>1, TimeKeeps, DataChangeKeeps, InvalidationKeeps, LossKeeps, RequestKeeps, ReadKeeps, SuccessKeeps, FailureKeeps
     DEF CacheNext
<1>2. CASE UNCHANGED cacheVars
  <2>1. UNCHANGED <<time, data, resolved, inflight, reader, notices, cleared>>
    BY <1>2 DEF cacheVars
  <2>2. CacheTyped' /\ SeatsDiffer(resolved)' /\ SeatsFilled(resolved)' /\ (Cardinality(Held(resolved)) <= Capacity)'
    BY <2>1 DEF CacheInv, CacheTyped, SeatsDiffer, SeatsFilled, Held
  <2>3. EntriesFit' /\ ClearedFits' /\ InflightFits' /\ WaitsFit' /\ StalenessIsBounded'
    BY <2>1 DEF CacheInv, EntriesFit, ReportFits, Held, ClearedFits, InflightFits, WaitsFit, StalenessIsBounded,
         Loading, Latest, CurrentAt
  <2>4. LoadsFit'
    BY <2>1 DEF CacheInv, LoadsFit, AsFresh, Loading, Latest, CurrentAt
  <2> QED BY <2>2, <2>3, <2>4 DEF CacheInv
<1> QED BY <1>1, <1>2

\* The invariant holds in every reachable state.
LEMMA CacheAlways == CacheSpec => []CacheInv
BY CacheInitially, CacheNextKeeps, PTL DEF CacheSpec

-----------------------------------------------------------------------------
(* The cache: the theorems                                                 *)

\* The type invariant and the capacity of the cache hold in every reachable state.
THEOREM CacheTypeCorrect == CacheSpec => []CacheTypeOK
<1>1. CacheInv => CacheTypeOK
  <2> SUFFICES ASSUME CacheInv PROVE CacheTypeOK
    OBVIOUS
  <2>1. \A k \in Held(resolved) : resolved[k].value <= Latest(WorkspaceOf[k])
    BY DEF CacheInv, EntriesFit, ReportFits
  <2> QED BY <2>1 DEF CacheInv, CacheTypeOK, CacheTyped, Entries, SeatsDiffer
<1> QED BY CacheAlways, <1>1, PTL

\* However the cache is used, an answer is no older than the TTL and one load.
THEOREM StalenessCorrect == CacheSpec => []StalenessIsBounded
<1>1. CacheInv => StalenessIsBounded
  BY DEF CacheInv
<1> QED BY CacheAlways, <1>1, PTL

\* An invalidation that has arrived leaves no report of the workspace from before it,
\* but for what a load stores that was under way.
THEOREM InvalidationCorrect == CacheSpec => []InvalidationSticks
<1>1. CacheInv => InvalidationSticks
  BY DEF CacheInv, EntriesFit, ReportFits, InvalidationSticks
<1> QED BY CacheAlways, <1>1, PTL

-----------------------------------------------------------------------------
(* Synchronization and the cache together                                  *)

\* A step of the composition is a step of one component and leaves the other as it is.
LEMMA SyncPartsCompose == SyncPartsSpec => SyncSpec /\ CacheSpec
<1>1. SyncPartsInit => SyncInit /\ CacheInit
  BY DEF SyncPartsInit
<1>2. [SyncPartsNext]_syncPartVars => [SyncNext]_syncVars /\ [CacheNext]_cacheVars
  BY DEF SyncPartsNext, syncPartVars
<1> QED BY <1>1, <1>2, PTL DEF SyncPartsSpec, SyncSpec, CacheSpec

\* Synchronization and cache keep their types when they are explored together.
THEOREM SyncPartsTypeCorrect == SyncPartsSpec => []SyncPartsTypeOK
<1>1. SyncTypeOK /\ CacheTypeOK => SyncPartsTypeOK
  BY DEF SyncPartsTypeOK
<1> QED BY <1>1, SyncPartsCompose, SyncTypeCorrect, CacheTypeCorrect, PTL
=============================================================================
