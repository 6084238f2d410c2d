------------------------ MODULE WebhookJournalProofs ------------------------
(***************************************************************************)
(* Proofs about WebhookJournal for any records, requests, changes, claim   *)
(* limit, attempts and faults: type correctness and, for any number of     *)
(* workers, that only a run that died or never reached its handler leaves  *)
(* an event in processing; and, for one worker, that settled events stay   *)
(* settled unless a retry had selected them, and that a completed event is *)
(* mirrored: no answer of the CRM is written over by an older one.         *)
(***************************************************************************)
EXTENDS WebhookJournal, SequenceTheorems, WellFoundedInduction, TLAPS

-----------------------------------------------------------------------------
(* The live version of a record                                            *)

\* A bounded nonempty set of numbers has its maximum.
LEMMA MaxIsMember ==
  ASSUME NEW n \in Nat, NEW T \in SUBSET (0 .. n), T # {}
  PROVE  Max(T) \in T /\ \A x \in T : x <= Max(T)
<1> DEFINE U == {n - x : x \in T}
<1>0. \A x \in T : x \in Nat /\ n - x \in Nat
  OBVIOUS
<1>1. U \subseteq Nat
  BY <1>0
<1>2. U # {}
  BY Zenon
<1>3. PICK u \in U : \A v \in U : ~(<<v, u>> \in OpToRel(<, Nat))
  <2> HIDE DEF U
  <2> QED BY <1>1, <1>2, NatLessThanWellFounded, WFMin, Zenon
<1>4. \A v \in U : ~(v < u)
  BY <1>1, <1>3 DEF OpToRel
<1>5. PICK m \in T : u = n - m
  BY <1>3
<1>6. ASSUME NEW y \in T PROVE m >= y
  <2>1. n - y \in U
    OBVIOUS
  <2>2. ~(n - y < n - m)
    BY <1>4, <1>5, <2>1
  <2>3. y \in Nat /\ m \in Nat
    BY <1>0
  <2> QED BY <2>2, <2>3
<1>7. \E x \in T : \A y \in T : x >= y
  BY <1>6
<1>8. Max(T) \in T /\ \A y \in T : Max(T) >= y
  BY <1>7, Zenon DEF Max
<1> QED BY <1>0, <1>8

-----------------------------------------------------------------------------
(* Type correctness                                                        *)

\* Whatever refers to an event refers to a change that has happened.
EventsHaveHappened ==
    /\ \A k \in Event : journal[k] # "absent" => k \in DOMAIN changes
    /\ \A q \in Requests : /\ request[q].todo \subseteq DOMAIN changes
                           /\ request[q].archiving \in DOMAIN changes \cup {0}
    /\ \A w \in Workers : worker[w].events \subseteq DOMAIN changes
    /\ selection \subseteq DOMAIN changes

TypeInv == TypeOK /\ EventsHaveHappened

\* What the types say of the history of changes.
LEMMA ChangeTypes ==
  ASSUME TypeOK
  PROVE  /\ DOMAIN changes \subseteq Event
         /\ \A k \in DOMAIN changes : RecordOf(k) \in Records
         /\ \A r \in Records : LiveVersion(r) \in 0 .. MaxChanges
<1> USE MaxChangesAssumption
<1>1. DOMAIN changes = 1 .. Len(changes) /\ Len(changes) \in Nat /\ Len(changes) <= MaxChanges
  BY DEF TypeOK
<1>2. DOMAIN changes \subseteq Event
  BY <1>1 DEF Event
<1>3. \A k \in DOMAIN changes : RecordOf(k) \in Records
  <2>1. \A k \in 1 .. Len(changes) : changes[k] \in Change
    BY ElementOfSeq DEF TypeOK
  <2> QED BY <1>1, <2>1 DEF RecordOf, Change
<1>4. ASSUME NEW r \in Records PROVE LiveVersion(r) \in 0 .. MaxChanges
  <2> DEFINE T == EventsOf(r) \cup {0}
  <2>1. T \in SUBSET (0 .. MaxChanges) /\ T # {}
    BY <1>2 DEF EventsOf, Event
  <2>2. Max(T) \in T
    <3> HIDE DEF T
    <3> QED BY <2>1, MaxIsMember
  <2> QED BY <2>1, <2>2 DEF LiveVersion
<1> QED BY <1>2, <1>3, <1>4

\* Setting the status of events keeps the type of the journal.
LEMMA SetStatusTypes ==
  ASSUME journal \in [Event -> Status], NEW events, NEW st \in Status, SetStatus(events, st)
  PROVE  journal' \in [Event -> Status]
  BY DEF SetStatus

\* The initial state has the right types.
LEMMA InitTypeInv == Init => TypeInv
<1> SUFFICES ASSUME Init PROVE TypeInv
  OBVIOUS
<1> USE MaxChangesAssumption, MaxBucketsAssumption, MaxAttemptsAssumption,
        MaxRecoveriesAssumption, MaxFaultsAssumption DEF Init
<1>1. changes \in Seq(Change) /\ Len(changes) <= MaxChanges
  OBVIOUS
<1>2. journal \in [Event -> Status] /\ mirror \in [Records -> Row]
  BY DEF Status, Row
<1>3. request \in [Requests -> RequestState]
  BY DEF IdleRequest, NewRequest, RequestState
<1>4. jobs \in [Job -> JobState] /\ bucket \in 1 .. MaxBuckets
  BY DEF JobState
<1>5. worker \in [Workers -> WorkerState]
  BY DEF IdleWorker, WorkerState
<1>6. EventsHaveHappened
  BY DEF EventsHaveHappened, IdleRequest, NewRequest, IdleWorker
<1> QED BY <1>1, <1>2, <1>3, <1>4, <1>5, <1>6 DEF TypeInv, TypeOK

\* The portal keeps the types.
LEMMA PortalKeepsTypes ==
  ASSUME TypeInv, NEW r \in Records, NEW action \in Actions, PortalChanges(r, action)
  PROVE  TypeInv'
<1> DEFINE change == [record |-> r, action |-> action]
<1> USE MaxChangesAssumption
<1>1. /\ changes \in Seq(Change)
      /\ changes' = Append(changes, change)
      /\ Len(changes) < MaxChanges
  BY DEF TypeInv, TypeOK, PortalChanges
<1>2. change \in Change
  BY DEF Change
<1>3. /\ changes' \in Seq(Change)
      /\ Len(changes') <= MaxChanges
      /\ DOMAIN changes \subseteq DOMAIN changes'
  <2> HIDE DEF change
  <2> QED BY <1>1, <1>2
<1>4. UNCHANGED <<journal, mirror, request, bucket, jobs, worker, stranded, selection,
                  recoveries, faults>>
  BY DEF PortalChanges, intakeVars, runVars, recoveryVars
<1>5. TypeOK'
  BY <1>3, <1>4 DEF TypeInv, TypeOK
<1>6. EventsHaveHappened'
  BY <1>3, <1>4 DEF TypeInv, EventsHaveHappened
<1> QED BY <1>5, <1>6 DEF TypeInv

\* A request that starts anew has the right type.
LEMMA NewRequestTypes ==
  ASSUME TypeOK, NEW batch \in SUBSET DOMAIN changes, NEW connected \in BOOLEAN,
         NEW phase \in {"idle", "journaling"}
  PROVE  NewRequest(phase, batch, connected) \in RequestState
<1>1. batch \in SUBSET Event
  BY ChangeTypes
<1> QED BY <1>1, MaxChangesAssumption DEF NewRequest, RequestState

\* A request keeps the types.
LEMMA RequestKeepsTypes ==
  ASSUME TypeInv, NEW q \in Requests, RequestStep(q)
  PROVE  TypeInv'
<1> USE MaxChangesAssumption DEF TypeInv
<1>t. TypeOK /\ EventsHaveHappened /\ DOMAIN changes \subseteq Event
  BY ChangeTypes
<1>i. IdleRequest \in RequestState /\ IdleRequest.todo = {} /\ IdleRequest.archiving = 0
  BY NewRequestTypes, <1>t DEF IdleRequest, NewRequest
<1>1. ASSUME NEW batch \in SUBSET DOMAIN changes \ {{}}, NEW connected \in BOOLEAN,
             ReceiveBatch(q, batch, connected)
      PROVE  TypeInv'
  <2>1. NewRequest("journaling", batch, connected) \in RequestState
    BY NewRequestTypes, <1>t
  <2>2. request' \in [Requests -> RequestState]
    BY <1>1, <2>1, <1>t DEF ReceiveBatch, TypeOK
  <2>3. TypeOK'
    BY <1>1, <2>2, <1>t DEF ReceiveBatch, TypeOK, runVars, recoveryVars
  <2>4. EventsHaveHappened'
    BY <1>1, <1>t DEF ReceiveBatch, EventsHaveHappened, NewRequest, TypeOK, runVars, recoveryVars
  <2> QED BY <2>3, <2>4
<1>2. ASSUME NEW k \in Event, JournalEvent(q, k) PROVE TypeInv'
  <2>1. k \in DOMAIN changes
    BY <1>2, <1>t DEF JournalEvent, EventsHaveHappened
  <2>2. journal' \in [Event -> Status]
    BY <1>2, <1>t, SetStatusTypes DEF JournalEvent, TypeOK, Status
  <2>3. request' \in [Requests -> RequestState]
    <3> DEFINE accepts == journal[k] = "absent" /\ request[q].connected
               todo == request[q].todo \ {k}
               mode == IF accepts THEN ModeWith(request[q].mode, k) ELSE request[q].mode
               arriving == IF accepts /\ k \in Deletions THEN k ELSE 0
               rec == [request[q] EXCEPT !.todo = todo, !.mode = mode, !.archiving = arriving]
    <3>1. request[q] \in RequestState
      BY <1>t DEF TypeOK
    <3>2. todo \in SUBSET Event /\ mode \in {"none", "incremental", "full"}
      BY <3>1 DEF RequestState, ModeWith
    <3>3. arriving \in 0 .. MaxChanges
      BY DEF Event
    <3>4. rec \in RequestState
      <4> HIDE DEF todo, mode, arriving
      <4> QED BY <3>1, <3>2, <3>3 DEF RequestState
    <3>5. request' = [request EXCEPT ![q] = rec]
      BY <1>2 DEF JournalEvent
    <3> QED BY <1>t, <3>4, <3>5 DEF TypeOK
  <2>4. TypeOK'
    BY <1>2, <2>2, <2>3, <1>t DEF JournalEvent, TypeOK, runVars, recoveryVars
  <2>5. \A i \in Event : journal'[i] # "absent" => i \in DOMAIN changes'
    BY <1>2, <2>1, <1>t DEF JournalEvent, EventsHaveHappened, SetStatus
  <2>6. \A p \in Requests : /\ request'[p].todo \subseteq DOMAIN changes'
                            /\ request'[p].archiving \in DOMAIN changes' \cup {0}
    BY <1>2, <2>1, <1>t DEF JournalEvent, EventsHaveHappened, TypeOK, RequestState
  <2>7. EventsHaveHappened'
    BY <1>2, <2>5, <2>6, <1>t DEF JournalEvent, EventsHaveHappened, runVars, recoveryVars
  <2> QED BY <2>4, <2>7
<1>3. CASE ArchiveOnArrival(q)
  <2>1. mirror' \in [Records -> Row]
    BY <1>3, <1>t DEF ArchiveOnArrival, Hidden, TypeOK, Row
  <2>2. request' \in [Requests -> RequestState]
    <3>1. request[q] \in RequestState
      BY <1>t DEF TypeOK
    <3>2. [request[q] EXCEPT !.archiving = 0] \in RequestState
      BY <3>1 DEF RequestState
    <3> QED BY <1>3, <1>t, <3>2 DEF ArchiveOnArrival, TypeOK
  <2>3. TypeOK'
    BY <1>3, <2>1, <2>2, <1>t DEF ArchiveOnArrival, TypeOK, runVars, recoveryVars
  <2>4. EventsHaveHappened'
    BY <1>3, <1>t DEF ArchiveOnArrival, EventsHaveHappened, TypeOK, RequestState, runVars, recoveryVars
  <2> QED BY <2>3, <2>4
<1>4. ASSUME NEW now \in 1 .. MaxBuckets, AddJob(q, now) PROVE TypeInv'
  <2>1. request' \in [Requests -> RequestState]
    BY <1>4, <1>t DEF AddJob, TypeOK, RequestState
  <2>2. jobs' \in [Job -> JobState]
    BY <1>4, <1>t DEF AddJob, TypeOK, JobState
  <2>3. TypeOK'
    BY <1>4, <2>1, <2>2, <1>t DEF AddJob, TypeOK, recoveryVars
  <2>4. EventsHaveHappened'
    BY <1>4, <1>t DEF AddJob, EventsHaveHappened, TypeOK, RequestState, recoveryVars
  <2> QED BY <2>3, <2>4
<1>5. CASE MarkQueued(q)
  <2>1. journal' \in [Event -> Status]
    BY <1>5, <1>t, SetStatusTypes DEF MarkQueued, TypeOK, Status
  <2>2. request' \in [Requests -> RequestState]
    BY <1>5, <1>i, <1>t DEF MarkQueued, Respond, TypeOK
  <2>3. TypeOK'
    BY <1>5, <2>1, <2>2, <1>t DEF MarkQueued, TypeOK, runVars, recoveryVars
  <2>4. EventsHaveHappened'
    BY <1>5, <1>i, <1>t DEF MarkQueued, Respond, SetStatus, EventsHaveHappened, TypeOK, runVars, recoveryVars
  <2> QED BY <2>3, <2>4
<1>6. ASSUME NothingToQueue(q) \/ RequestFails(q) PROVE TypeInv'
  <2>1. request' \in [Requests -> RequestState]
    BY <1>6, <1>i, <1>t DEF NothingToQueue, RequestFails, Respond, TypeOK
  <2>2. faults' \in 0 .. MaxFaults
    BY <1>6, <1>t, MaxFaultsAssumption DEF NothingToQueue, RequestFails, Fault, TypeOK
  <2>3. TypeOK'
    BY <1>6, <2>1, <2>2, <1>t DEF NothingToQueue, RequestFails, TypeOK, runVars, recoveryVars
  <2>4. EventsHaveHappened'
    BY <1>6, <1>i, <1>t DEF NothingToQueue, RequestFails, Respond, EventsHaveHappened, TypeOK, runVars, recoveryVars
  <2> QED BY <2>3, <2>4
<1> QED BY <1>1, <1>2, <1>3, <1>4, <1>5, <1>6 DEF RequestStep

\* A step of a worker keeps the types if what it writes has them.
LEMMA WorkerFrame ==
  ASSUME TypeInv, UNCHANGED <<changes, intakeVars, recoveryVars>>,
         journal' \in [Event -> Status],
         \A k \in Event : journal'[k] # "absent" => k \in DOMAIN changes,
         mirror' \in [Records -> Row], jobs' \in [Job -> JobState],
         worker' \in [Workers -> WorkerState],
         \A w \in Workers : worker'[w].events \subseteq DOMAIN changes,
         stranded' \in SUBSET Event, faults' \in 0 .. MaxFaults
  PROVE  TypeInv'
<1>1. TypeOK'
  BY DEF TypeInv, TypeOK, intakeVars, recoveryVars
<1>2. EventsHaveHappened'
  BY DEF TypeInv, EventsHaveHappened, intakeVars, recoveryVars
<1> QED BY <1>1, <1>2 DEF TypeInv

\* One worker moves to a state of the right type.
LEMMA WorkerMoves ==
  ASSUME TypeInv, NEW w \in Workers, NEW state \in WorkerState,
         state.events \subseteq DOMAIN changes, worker' = [worker EXCEPT ![w] = state]
  PROVE  /\ worker' \in [Workers -> WorkerState]
         /\ \A v \in Workers : worker'[v].events \subseteq DOMAIN changes
  BY DEF TypeInv, TypeOK, EventsHaveHappened

\* Setting the status of events that have happened.
LEMMA HappenedEventsMove ==
  ASSUME TypeInv, NEW events \in SUBSET DOMAIN changes, NEW st \in Status,
         SetStatus(events, st)
  PROVE  /\ journal' \in [Event -> Status]
         /\ \A k \in Event : journal'[k] # "absent" => k \in DOMAIN changes
  BY SetStatusTypes DEF TypeInv, TypeOK, EventsHaveHappened, SetStatus

\* The end of a job keeps the type of the queue.
LEMMA JobEndsTypes ==
  ASSUME jobs \in [Job -> JobState], NEW j, NEW succeeds \in BOOLEAN, JobEnds(j, succeeds)
  PROVE  jobs' \in [Job -> JobState]
<1> USE MaxAttemptsAssumption
<1>1. CASE j \in Job
  <2>1. jobs[j].attempts \in 0 .. MaxAttempts - 1
    BY <1>1 DEF JobState
  <2>2. jobs[j].attempts + 1 < MaxAttempts => Retried(j) \in JobState
    BY <2>1 DEF Retried, JobState
  <2>3. Ended("done") \in JobState /\ Ended("failed") \in JobState
    BY DEF Ended, JobState
  <2> QED BY <1>1, <2>2, <2>3 DEF JobEnds
<1>2. CASE j \notin Job
  <2>1. jobs' = jobs
    BY <1>2 DEF JobEnds
  <2> QED BY <2>1
<1> QED BY <1>1, <1>2

\* What the types say of a worker.
LEMMA WorkerTypes ==
  ASSUME TypeInv, NEW w \in Workers
  PROVE  /\ worker[w] \in WorkerState
         /\ worker[w].events \subseteq DOMAIN changes
         /\ worker[w].events \subseteq Event
         /\ IdleWorker \in WorkerState /\ IdleWorker.events = {}
         /\ stranded \cup Processing(w) \in SUBSET Event
         /\ \A k \in worker[w].events : RecordOf(k) \in Records
<1>1. worker[w] \in WorkerState
  BY DEF TypeInv, TypeOK
<1>2. worker[w].events \subseteq DOMAIN changes
  BY DEF TypeInv, EventsHaveHappened
<1>3. worker[w].events \subseteq Event /\ \A k \in worker[w].events : RecordOf(k) \in Records
  BY <1>2, ChangeTypes DEF TypeInv
<1>4. IdleWorker \in WorkerState /\ IdleWorker.events = {}
  BY DEF IdleWorker, WorkerState
<1>5. stranded \cup Processing(w) \in SUBSET Event
  BY <1>3 DEF Processing, TypeInv, TypeOK
<1> QED BY <1>1, <1>2, <1>3, <1>4, <1>5

\* A run that ends keeps the types of the queue and of the worker.
LEMMA RunEndsTypes ==
  ASSUME TypeInv, NEW w \in Workers, NEW succeeds \in BOOLEAN, RunEnds(w, succeeds)
  PROVE  /\ jobs' \in [Job -> JobState]
         /\ worker' \in [Workers -> WorkerState]
         /\ \A v \in Workers : worker'[v].events \subseteq DOMAIN changes
<1>1. jobs' \in [Job -> JobState]
  BY JobEndsTypes DEF TypeInv, TypeOK, RunEnds
<1>2. IdleWorker \in WorkerState /\ IdleWorker.events \subseteq DOMAIN changes
  BY WorkerTypes
<1> QED BY <1>1, <1>2, WorkerMoves DEF RunEnds

\* Claiming and starting a run keep the types.
LEMMA StartKeepsTypes ==
  ASSUME TypeInv, NEW w \in Workers,
         \/ \E j \in Job : TakeJob(w, j)
         \/ \E events \in Claims : ClaimWebhookEvents(w, events)
         \/ ClaimFails(w) \/ StartRun(w) \/ StartFails(w)
  PROVE  TypeInv'
<1>t. /\ TypeOK /\ EventsHaveHappened /\ worker[w] \in WorkerState
      /\ worker[w].events \subseteq DOMAIN changes /\ worker \in [Workers -> WorkerState]
  BY WorkerTypes DEF TypeInv, TypeOK
<1>1. ASSUME NEW j \in Job, TakeJob(w, j) PROVE TypeInv'
  <2> DEFINE state == [IdleWorker EXCEPT !.phase = "taken", !.job = j]
  <2>1. state \in WorkerState /\ state.events = {}
    BY DEF IdleWorker, WorkerState
  <2>2. /\ worker' \in [Workers -> WorkerState]
        /\ \A v \in Workers : worker'[v].events \subseteq DOMAIN changes
    <3>1. worker' = [worker EXCEPT ![w] = state]
      BY <1>1 DEF TakeJob
    <3> HIDE DEF state
    <3> QED BY <2>1, <3>1, WorkerMoves
  <2>3. jobs' \in [Job -> JobState]
    BY <1>1, <1>t DEF TakeJob, TypeOK, JobState
  <2> QED BY <1>1, <1>t, <2>2, <2>3, WorkerFrame DEF TakeJob, TypeOK, EventsHaveHappened
<1>2. ASSUME NEW events \in Claims, ClaimWebhookEvents(w, events) PROVE TypeInv'
  <2>1. events \subseteq DOMAIN changes /\ events \subseteq Event
    BY <1>t DEF Claims, kSubset, Claimable, EventsHaveHappened
  <2>2. /\ journal' \in [Event -> Status]
        /\ \A k \in Event : journal'[k] # "absent" => k \in DOMAIN changes
    BY <1>2, <2>1, HappenedEventsMove DEF ClaimWebhookEvents, Status
  <2>3. /\ worker' \in [Workers -> WorkerState]
        /\ \A v \in Workers : worker'[v].events \subseteq DOMAIN changes
        /\ jobs' \in [Job -> JobState]
    <3>1. CASE events = {}
      BY <1>2, <3>1, RunEndsTypes DEF ClaimWebhookEvents
    <3>2. CASE events # {}
      <4> DEFINE state == [worker[w] EXCEPT !.phase = "claimed", !.events = events]
      <4>1. state \in WorkerState /\ state.events = events
        BY <1>t, <2>1 DEF WorkerState
      <4>2. worker' = [worker EXCEPT ![w] = state] /\ jobs' = jobs
        BY <1>2, <3>2 DEF ClaimWebhookEvents
      <4> HIDE DEF state
      <4> QED BY <1>t, <2>1, <4>1, <4>2, WorkerMoves DEF TypeOK
    <3> QED BY <3>1, <3>2
  <2> QED BY <1>2, <1>t, <2>2, <2>3, WorkerFrame DEF ClaimWebhookEvents, TypeOK
<1>3. CASE ClaimFails(w)
  <2>1. faults' \in 0 .. MaxFaults
    BY <1>3, <1>t, MaxFaultsAssumption DEF ClaimFails, Fault, TypeOK
  <2> QED BY <1>3, <1>t, <2>1, RunEndsTypes, WorkerFrame
          DEF ClaimFails, TypeOK, EventsHaveHappened
<1>4. CASE StartRun(w)
  <2> DEFINE todo == {RecordOf(k) : k \in worker[w].events}
             state == [worker[w] EXCEPT !.phase = "running", !.todo = todo]
  <2>1. todo \subseteq Records
    BY WorkerTypes
  <2>2. state \in WorkerState /\ state.events = worker[w].events
    <3> HIDE DEF todo
    <3> QED BY <1>t, <2>1 DEF WorkerState
  <2>3. worker' = [worker EXCEPT ![w] = state]
    BY <1>4 DEF StartRun
  <2> HIDE DEF state
  <2>4. /\ worker' \in [Workers -> WorkerState]
        /\ \A v \in Workers : worker'[v].events \subseteq DOMAIN changes
    BY <1>t, <2>2, <2>3, WorkerMoves
  <2> QED BY <1>4, <1>t, <2>4, WorkerFrame DEF StartRun, TypeOK, EventsHaveHappened
<1>5. CASE StartFails(w)
  <2>1. stranded' \in SUBSET Event
    BY <1>5, WorkerTypes DEF StartFails
  <2> QED BY <1>5, <1>t, <2>1, RunEndsTypes, WorkerFrame
          DEF StartFails, TypeOK, EventsHaveHappened
<1> QED BY <1>1, <1>2, <1>3, <1>4, <1>5

\* Working on the records keeps the types.
LEMMA RecordsKeepTypes ==
  ASSUME TypeInv, NEW w \in Workers,
         \/ \E r \in Records : ArchiveDeleted(w, r) \/ FetchRecord(w, r) \/ RecordFails(w, r)
         \/ StoreAnswer(w)
  PROVE  TypeInv'
<1>t. /\ TypeOK /\ EventsHaveHappened /\ worker[w] \in WorkerState
      /\ worker[w].events \subseteq DOMAIN changes /\ worker \in [Workers -> WorkerState]
  BY WorkerTypes DEF TypeInv, TypeOK
<1>h. \A r \in Records : Hidden(r) \in [Records -> Row]
  BY <1>t DEF TypeOK, Hidden, Row
<1>1. ASSUME NEW r \in Records, ArchiveDeleted(w, r) PROVE TypeInv'
  <2> DEFINE state == [worker[w] EXCEPT !.todo = worker[w].todo \ {r}]
  <2>1. state \in WorkerState /\ state.events = worker[w].events
    BY <1>t DEF WorkerState
  <2>2. worker' = [worker EXCEPT ![w] = state]
    BY <1>1 DEF ArchiveDeleted
  <2> HIDE DEF state
  <2>3. /\ worker' \in [Workers -> WorkerState]
        /\ \A v \in Workers : worker'[v].events \subseteq DOMAIN changes
    BY <1>t, <2>1, <2>2, WorkerMoves
  <2> QED BY <1>1, <1>h, <1>t, <2>3, WorkerFrame DEF ArchiveDeleted, TypeOK, EventsHaveHappened
<1>2. ASSUME NEW r \in Records, FetchRecord(w, r) PROVE TypeInv'
  <2> DEFINE answer == [record |-> r, found |-> Exists(r), version |-> LiveVersion(r)]
             state == [worker[w] EXCEPT !.answer = {answer}]
  <2>1. answer \in Answer
    <3>1. LiveVersion(r) \in 0 .. MaxChanges /\ Exists(r) \in BOOLEAN
      BY <1>t, ChangeTypes DEF Exists
    <3> QED BY <3>1 DEF Answer
  <2>2. state \in WorkerState /\ state.events = worker[w].events
    <3> HIDE DEF answer
    <3> QED BY <1>t, <2>1 DEF WorkerState
  <2>3. worker' = [worker EXCEPT ![w] = state]
    BY <1>2 DEF FetchRecord
  <2> HIDE DEF state
  <2>4. /\ worker' \in [Workers -> WorkerState]
        /\ \A v \in Workers : worker'[v].events \subseteq DOMAIN changes
    BY <1>t, <2>2, <2>3, WorkerMoves
  <2> QED BY <1>2, <1>t, <2>4, WorkerFrame DEF FetchRecord, TypeOK, EventsHaveHappened
<1>3. ASSUME NEW r \in Records, RecordFails(w, r) PROVE TypeInv'
  <2> DEFINE state == [worker[w] EXCEPT !.answer = {}, !.todo = worker[w].todo \ {r},
                                        !.failed = worker[w].failed \cup {r}]
  <2>1. state \in WorkerState /\ state.events = worker[w].events
    BY <1>t DEF WorkerState
  <2>2. worker' = [worker EXCEPT ![w] = state]
    BY <1>3 DEF RecordFails
  <2> HIDE DEF state
  <2>3. /\ worker' \in [Workers -> WorkerState]
        /\ \A v \in Workers : worker'[v].events \subseteq DOMAIN changes
    BY <1>t, <2>1, <2>2, WorkerMoves
  <2> QED BY <1>3, <1>t, <2>3, WorkerFrame DEF RecordFails, TypeOK, EventsHaveHappened
<1>4. CASE StoreAnswer(w)
  <2>1. PICK a \in worker[w].answer :
          /\ mirror' = IF a.found
               THEN [mirror EXCEPT ![a.record] = [version |-> a.version, shown |-> TRUE]]
               ELSE Hidden(a.record)
          /\ worker' = [worker EXCEPT ![w].answer = {}, ![w].todo = @ \ {a.record}]
          /\ UNCHANGED <<changes, journal, intakeVars, jobs, stranded, recoveryVars, faults>>
    BY <1>4 DEF StoreAnswer
  <2>2. a.record \in Records /\ a.version \in 0 .. MaxChanges
    BY <1>t DEF WorkerState, Answer
  <2>3. mirror' \in [Records -> Row]
    BY <1>h, <1>t, <2>1, <2>2 DEF TypeOK, Row
  <2> DEFINE state == [worker[w] EXCEPT !.answer = {}, !.todo = worker[w].todo \ {a.record}]
  <2>4. state \in WorkerState /\ state.events = worker[w].events
    BY <1>t DEF WorkerState
  <2>5. worker' = [worker EXCEPT ![w] = state]
    BY <2>1
  <2> HIDE DEF state
  <2>6. /\ worker' \in [Workers -> WorkerState]
        /\ \A v \in Workers : worker'[v].events \subseteq DOMAIN changes
    BY <1>t, <2>4, <2>5, WorkerMoves
  <2> QED BY <1>t, <2>1, <2>3, <2>6, WorkerFrame DEF TypeOK, EventsHaveHappened
<1> QED BY <1>1, <1>2, <1>3, <1>4

\* Settling a run, and dying, keep the types.
LEMMA SettlingKeepsTypes ==
  ASSUME TypeInv, NEW w \in Workers,
         \/ CompleteEvents(w) \/ FailEvents(w) \/ CloseRun(w) \/ RunAborts(w)
         \/ WorkerDies(w)
  PROVE  TypeInv'
<1>t. /\ TypeOK /\ EventsHaveHappened /\ worker[w] \in WorkerState
      /\ worker[w].events \subseteq DOMAIN changes /\ worker \in [Workers -> WorkerState]
  BY WorkerTypes DEF TypeInv, TypeOK
<1>e. /\ CompletedEvents(w) \in SUBSET DOMAIN changes
      /\ FailedEvents(w) \in SUBSET DOMAIN changes
      /\ Processing(w) \in SUBSET DOMAIN changes
  BY <1>t DEF CompletedEvents, FailedEvents, Processing
<1>m. ASSUME NEW phase \in {"completed", "settled"},
             worker' = [worker EXCEPT ![w].phase = phase]
      PROVE  /\ worker' \in [Workers -> WorkerState]
             /\ \A v \in Workers : worker'[v].events \subseteq DOMAIN changes
  <2> DEFINE state == [worker[w] EXCEPT !.phase = phase]
  <2>1. state \in WorkerState /\ state.events = worker[w].events
    BY <1>t DEF WorkerState
  <2>2. worker' = [worker EXCEPT ![w] = state]
    BY <1>m
  <2> HIDE DEF state
  <2> QED BY <1>t, <2>1, <2>2, WorkerMoves
<1>1. CASE CompleteEvents(w)
  <2>1. /\ journal' \in [Event -> Status]
        /\ \A k \in Event : journal'[k] # "absent" => k \in DOMAIN changes
    BY <1>1, <1>e, HappenedEventsMove DEF CompleteEvents, Status
  <2>2. /\ worker' \in [Workers -> WorkerState]
        /\ \A v \in Workers : worker'[v].events \subseteq DOMAIN changes
    BY <1>1, <1>m DEF CompleteEvents
  <2> QED BY <1>1, <1>t, <2>1, <2>2, WorkerFrame DEF CompleteEvents, TypeOK
<1>2. CASE FailEvents(w)
  <2>1. /\ journal' \in [Event -> Status]
        /\ \A k \in Event : journal'[k] # "absent" => k \in DOMAIN changes
    BY <1>2, <1>e, HappenedEventsMove DEF FailEvents, Status
  <2>2. /\ worker' \in [Workers -> WorkerState]
        /\ \A v \in Workers : worker'[v].events \subseteq DOMAIN changes
    BY <1>2, <1>m DEF FailEvents
  <2> QED BY <1>2, <1>t, <2>1, <2>2, WorkerFrame DEF FailEvents, TypeOK
<1>3. CASE CloseRun(w)
  <2>1. /\ journal' \in [Event -> Status]
        /\ \A k \in Event : journal'[k] # "absent" => k \in DOMAIN changes
    BY <1>3, <1>e, <1>t, HappenedEventsMove
    DEF CloseRun, SettleAsFailed, Status, TypeOK, EventsHaveHappened
  <2> QED BY <1>3, <1>t, <2>1, RunEndsTypes, WorkerFrame DEF CloseRun, TypeOK
<1>4. CASE RunAborts(w)
  <2>1. /\ journal' \in [Event -> Status]
        /\ \A k \in Event : journal'[k] # "absent" => k \in DOMAIN changes
    <3>1. CASE SettleAsFailed(w)
      BY <1>4, <1>e, <3>1, HappenedEventsMove DEF RunAborts, SettleAsFailed, Status
    <3>2. CASE UNCHANGED journal
      BY <1>t, <3>2 DEF TypeOK, EventsHaveHappened
    <3> QED BY <1>4, <3>1, <3>2 DEF RunAborts
  <2>2. faults' \in 0 .. MaxFaults
    BY <1>4, <1>t, MaxFaultsAssumption DEF RunAborts, Fault, TypeOK
  <2>3. stranded' \in SUBSET Event
    BY <1>4, WorkerTypes DEF RunAborts, TypeInv, TypeOK
  <2>4. UNCHANGED <<changes, mirror, intakeVars, recoveryVars>> /\ RunEnds(w, FALSE)
    BY <1>4 DEF RunAborts
  <2> QED BY <1>t, <2>1, <2>2, <2>3, <2>4, RunEndsTypes, WorkerFrame DEF TypeOK
<1>5. CASE WorkerDies(w)
  <2>1. stranded' \in SUBSET Event
    BY <1>5, WorkerTypes DEF WorkerDies
  <2>2. faults' \in 0 .. MaxFaults
    BY <1>5, <1>t, MaxFaultsAssumption DEF WorkerDies, Fault, TypeOK
  <2>3. jobs' \in [Job -> JobState]
    BY <1>5, <1>t DEF WorkerDies, TypeOK, JobState
  <2>4. /\ worker' \in [Workers -> WorkerState]
        /\ \A v \in Workers : worker'[v].events \subseteq DOMAIN changes
    BY <1>5, WorkerTypes, WorkerMoves DEF WorkerDies
  <2> QED BY <1>5, <1>t, <2>1, <2>2, <2>3, <2>4, WorkerFrame
          DEF WorkerDies, TypeOK, EventsHaveHappened
<1> QED BY <1>1, <1>2, <1>3, <1>4, <1>5

\* The recovery CLI keeps the types.
LEMMA RecoveryKeepsTypes ==
  ASSUME TypeInv, RecoveryStep PROVE TypeInv'
<1>t. TypeOK /\ EventsHaveHappened
  BY DEF TypeInv
<1>c. UseCli => recoveries' \in 0 .. MaxRecoveries
  BY <1>t, MaxRecoveriesAssumption DEF UseCli, TypeOK
<1>1. ASSUME NEW events \in SUBSET Recoverable, SelectRetry(events) PROVE TypeInv'
  <2>1. events \in SUBSET Event /\ events \subseteq DOMAIN changes
    BY <1>t DEF Recoverable, EventsHaveHappened
  <2>2. TypeOK'
    BY <1>1, <1>c, <1>t, <2>1 DEF SelectRetry, TypeOK, intakeVars, runVars
  <2>3. EventsHaveHappened'
    BY <1>1, <1>t, <2>1 DEF SelectRetry, EventsHaveHappened, intakeVars, runVars
  <2> QED BY <2>2, <2>3 DEF TypeInv
<1>2. ASSUME NEW events \in SUBSET Recoverable, IgnoreEvents(events) PROVE TypeInv'
  <2>1. events \in SUBSET DOMAIN changes
    BY <1>t DEF Recoverable, EventsHaveHappened
  <2>2. /\ journal' \in [Event -> Status]
        /\ \A k \in Event : journal'[k] # "absent" => k \in DOMAIN changes
    BY <1>2, <2>1, HappenedEventsMove DEF IgnoreEvents, Status
  <2>3. TypeOK'
    BY <1>2, <1>c, <1>t, <2>2 DEF IgnoreEvents, TypeOK, intakeVars, runVars
  <2>4. EventsHaveHappened'
    BY <1>2, <1>t, <2>2 DEF IgnoreEvents, EventsHaveHappened, intakeVars, runVars
  <2> QED BY <2>3, <2>4 DEF TypeInv
<1>3. CASE RequeueSelection
  <2>1. /\ journal' \in [Event -> Status]
        /\ \A k \in Event : journal'[k] # "absent" => k \in DOMAIN changes
    BY <1>3, <1>t, HappenedEventsMove DEF RequeueSelection, Status, TypeOK, EventsHaveHappened
  <2>2. TypeOK'
    BY <1>3, <1>t, <2>1 DEF RequeueSelection, TypeOK, intakeVars
  <2>3. EventsHaveHappened'
    BY <1>3, <1>t, <2>1 DEF RequeueSelection, EventsHaveHappened, intakeVars
  <2> QED BY <2>2, <2>3 DEF TypeInv
<1> QED BY <1>1, <1>2, <1>3 DEF RecoveryStep

\* Every step keeps the types.
LEMMA NextTypeInv == TypeInv /\ [Next]_vars => TypeInv'
<1> SUFFICES ASSUME TypeInv, [Next]_vars PROVE TypeInv'
  OBVIOUS
<1>1. ASSUME NEW w \in Workers, WorkerStep(w) PROVE TypeInv'
  BY <1>1, StartKeepsTypes, RecordsKeepTypes, SettlingKeepsTypes DEF WorkerStep
<1>2. CASE UNCHANGED vars
  BY <1>2 DEF vars, intakeVars, runVars, recoveryVars, TypeInv, TypeOK, EventsHaveHappened
<1> QED BY <1>1, <1>2, PortalKeepsTypes, RequestKeepsTypes, RecoveryKeepsTypes DEF Next

\* Type correctness: every variable keeps its type, and the journal, the runs, the
\* requests and the CLI refer only to changes of the portal that have happened.
THEOREM TypeCorrect == Spec => [](TypeOK /\ EventsHaveHappened)
<1>1. Spec => []TypeInv
  BY InitTypeInv, NextTypeInv, PTL DEF Spec
<1> QED BY <1>1, PTL DEF TypeInv

-----------------------------------------------------------------------------
(* What runs owe to the events they hold                                   *)

\* The UPDATE that settles the event has been done by the run.
Updated(w, k) ==
    \/ worker[w].phase = "completed" /\ RecordOf(k) \notin worker[w].failed
    \/ worker[w].phase = "settled"

Owes(w, k) == k \in worker[w].events /\ ~Updated(w, k)

\* ProcessingIsHeld as an induction needs it: the run that holds the event has
\* still to settle it.
ProcessingIsOwed ==
    \A k \in Event : journal[k] = "processing" =>
        k \in stranded \/ \E w \in Workers : Owes(w, k)

\* Only a run that has claimed holds events, only one that works has an answer.
PhasesFit ==
    \A w \in Workers :
        /\ worker[w].phase \in {"idle", "taken"} => worker[w].events = {}
        /\ worker[w].phase # "running" => worker[w].answer = {}

HeldInv == TypeInv /\ PhasesFit /\ ProcessingIsOwed

\* The initial state satisfies it.
LEMMA InitHeldInv == Init => HeldInv
  BY InitTypeInv DEF HeldInv, Init, PhasesFit, ProcessingIsOwed, IdleWorker

\* Every step keeps the phases fitting.
LEMMA NextPhasesFit ==
  ASSUME TypeInv, PhasesFit, Next PROVE PhasesFit'
<1>w. worker \in [Workers -> WorkerState]
  BY DEF TypeInv, TypeOK
<1>i. IdleWorker.events = {} /\ IdleWorker.answer = {}
  BY DEF IdleWorker
<1>m. ASSUME NEW w \in Workers, NEW state, worker' = [worker EXCEPT ![w] = state],
             state.phase \in {"idle", "taken"} => state.events = {},
             state.phase # "running" => state.answer = {}
      PROVE  PhasesFit'
  BY <1>m, <1>w DEF PhasesFit
<1>1. ASSUME UNCHANGED worker PROVE PhasesFit'
  BY <1>1 DEF PhasesFit
<1>2. ASSUME NEW w \in Workers, WorkerStep(w) PROVE PhasesFit'
  <2>e. ASSUME worker' = [worker EXCEPT ![w] = IdleWorker] PROVE PhasesFit'
    BY <2>e, <1>i, <1>w DEF PhasesFit
  <2>1. ASSUME NEW j \in Job, TakeJob(w, j) PROVE PhasesFit'
    BY <2>1, <1>w DEF TakeJob, PhasesFit, IdleWorker
  <2>2. ASSUME NEW events \in Claims, ClaimWebhookEvents(w, events) PROVE PhasesFit'
    <3>1. CASE events = {}
      BY <2>2, <2>e, <3>1 DEF ClaimWebhookEvents, RunEnds
    <3>2. CASE events # {}
      <4> DEFINE state == [worker[w] EXCEPT !.phase = "claimed", !.events = events]
      <4>1. worker' = [worker EXCEPT ![w] = state] /\ worker[w].phase = "taken"
        BY <2>2, <3>2 DEF ClaimWebhookEvents
      <4>2. state.phase = "claimed" /\ state.answer = worker[w].answer
        BY <1>w DEF WorkerState
      <4>3. worker[w].answer = {}
        BY <4>1 DEF PhasesFit
      <4> HIDE DEF state
      <4> QED BY <1>m, <4>1, <4>2, <4>3
    <3> QED BY <3>1, <3>2
  <2>3. CASE ClaimFails(w) \/ StartFails(w) \/ CloseRun(w) \/ RunAborts(w) \/ WorkerDies(w)
    BY <2>3, <2>e DEF ClaimFails, StartFails, CloseRun, RunAborts, WorkerDies, RunEnds
  <2>4. CASE StartRun(w)
    BY <2>4, <1>w DEF StartRun, PhasesFit
  <2>5. ASSUME NEW r \in Records, ArchiveDeleted(w, r) \/ FetchRecord(w, r) \/ RecordFails(w, r)
        PROVE  PhasesFit'
    <3>1. worker[w].phase = "running"
      BY <2>5 DEF ArchiveDeleted, FetchRecord, RecordFails, MayWorkOn, PhasesFit
    <3>2. /\ worker'[w].phase = "running" /\ worker'[w].events = worker[w].events
          /\ \A v \in Workers \ {w} : worker'[v] = worker[v]
      BY <2>5, <3>1, <1>w DEF ArchiveDeleted, FetchRecord, RecordFails, WorkerState
    <3> QED BY <3>2 DEF PhasesFit
  <2>6. CASE StoreAnswer(w)
    BY <2>6, <1>w DEF StoreAnswer, PhasesFit
  <2>7. CASE CompleteEvents(w) \/ FailEvents(w)
    <3>1. worker[w].answer = {} /\ worker[w].phase \notin {"idle", "taken"}
      BY <2>7 DEF CompleteEvents, FailEvents, Finished, PhasesFit
    <3>2. PICK phase \in {"completed", "settled"} : worker' = [worker EXCEPT ![w].phase = phase]
      BY <2>7 DEF CompleteEvents, FailEvents
    <3> DEFINE state == [worker[w] EXCEPT !.phase = phase]
    <3>3. worker' = [worker EXCEPT ![w] = state]
      BY <3>2
    <3>4. state.phase = phase /\ state.answer = {}
      BY <3>1, <1>w DEF WorkerState
    <3> HIDE DEF state
    <3> QED BY <1>m, <3>3, <3>4
  <2> QED BY <1>2, <2>1, <2>2, <2>3, <2>4, <2>5, <2>6, <2>7 DEF WorkerStep
<1>3. ASSUME NEW q \in Requests, RequestStep(q) PROVE UNCHANGED worker
  BY <1>3 DEF RequestStep, ReceiveBatch, JournalEvent, ArchiveOnArrival, AddJob, MarkQueued,
              NothingToQueue, RequestFails, runVars
<1>4. ASSUME RecoveryStep PROVE UNCHANGED worker
  BY <1>4 DEF RecoveryStep, SelectRetry, IgnoreEvents, RequeueSelection, runVars
<1>5. ASSUME NEW r \in Records, NEW action \in Actions, PortalChanges(r, action)
      PROVE  UNCHANGED worker
  BY <1>5 DEF PortalChanges, runVars
<1> QED BY <1>1, <1>2, <1>3, <1>4, <1>5 DEF Next

\* A change that has happened stays what it is.
LEMMA ChangesStay ==
  ASSUME TypeInv, Next
  PROVE  /\ DOMAIN changes \subseteq DOMAIN changes'
         /\ \A k \in DOMAIN changes : changes'[k] = changes[k]
<1>1. ASSUME NEW r \in Records, NEW action \in Actions, PortalChanges(r, action)
      PROVE  /\ DOMAIN changes \subseteq DOMAIN changes'
             /\ \A k \in DOMAIN changes : changes'[k] = changes[k]
  <2>1. changes' = Append(changes, [record |-> r, action |-> action])
    BY <1>1 DEF PortalChanges
  <2>2. changes \in Seq(Change) /\ DOMAIN changes = 1 .. Len(changes) /\ Len(changes) \in Nat
    BY DEF TypeInv, TypeOK
  <2>3. DOMAIN changes' = 1 .. Len(changes) + 1
    BY <2>1, <2>2
  <2>4. \A k \in 1 .. Len(changes) : changes'[k] = changes[k]
    BY <2>1, <2>2
  <2> QED BY <2>2, <2>3, <2>4
<1>2. ASSUME NEW q \in Requests, RequestStep(q) PROVE UNCHANGED changes
  BY <1>2 DEF RequestStep, ReceiveBatch, JournalEvent, ArchiveOnArrival, AddJob, MarkQueued,
              NothingToQueue, RequestFails
<1>3. ASSUME RecoveryStep PROVE UNCHANGED changes
  BY <1>3 DEF RecoveryStep, SelectRetry, IgnoreEvents, RequeueSelection
<1>4. ASSUME NEW w \in Workers, WorkerStep(w) PROVE UNCHANGED changes
  BY <1>4, Zenon DEF WorkerStep, TakeJob, ClaimWebhookEvents, ClaimFails, StartRun, StartFails,
     ArchiveDeleted, FetchRecord, RecordFails, StoreAnswer, CompleteEvents, FailEvents,
     CloseRun, RunAborts, WorkerDies
<1> QED BY <1>1, <1>2, <1>3, <1>4 DEF Next

\* The record of an event that has happened stays the same.
LEMMA RecordsStay ==
  ASSUME TypeInv, Next, NEW k \in DOMAIN changes
  PROVE  RecordOf(k)' = RecordOf(k)
BY ChangesStay DEF RecordOf

\* A run that does not move owes what it owed.
LEMMA DebtsStay ==
  ASSUME TypeInv, Next, NEW v \in Workers, worker'[v] = worker[v], NEW k, Owes(v, k)
  PROVE  Owes(v, k)'
<1>1. k \in DOMAIN changes
  BY DEF Owes, TypeInv, EventsHaveHappened
<1>2. RecordOf(k)' = RecordOf(k)
  BY <1>1, RecordsStay
<1> QED BY <1>2 DEF Owes, Updated

\* A step of the portal, a request or the CLI claims nothing.
LEMMA OthersKeepDebts ==
  ASSUME HeldInv, Next, UNCHANGED worker,
         \A k \in Event : journal'[k] = "processing" =>
             journal[k] = "processing" /\ (k \in stranded => k \in stranded')
  PROVE  ProcessingIsOwed'
<1>1. ASSUME NEW k \in Event, journal'[k] = "processing", k \notin stranded'
      PROVE  \E v \in Workers : Owes(v, k)'
  <2>1. PICK v \in Workers : Owes(v, k)
    BY <1>1 DEF HeldInv, ProcessingIsOwed
  <2>2. Owes(v, k)'
    BY <2>1, DebtsStay DEF HeldInv
  <2> QED BY <2>2
<1> QED BY <1>1 DEF ProcessingIsOwed

\* A step of one run keeps the debts if that run keeps its own.
LEMMA OneRunKeepsDebts ==
  ASSUME HeldInv, Next, NEW w \in Workers,
         \A v \in Workers \ {w} : worker'[v] = worker[v],
         stranded \subseteq stranded',
         \A k \in Event : journal'[k] = "processing" =>
             \/ Owes(w, k)'
             \/ k \in stranded'
             \/ journal[k] = "processing" /\ ~Owes(w, k)
  PROVE  ProcessingIsOwed'
<1>1. ASSUME NEW k \in Event, journal'[k] = "processing", k \notin stranded', ~(Owes(w, k)')
      PROVE  \E v \in Workers : Owes(v, k)'
  <2>1. journal[k] = "processing" /\ ~Owes(w, k) /\ k \notin stranded
    BY <1>1
  <2>2. PICK v \in Workers : Owes(v, k)
    BY <2>1 DEF HeldInv, ProcessingIsOwed
  <2>3. v # w
    BY <2>1, <2>2
  <2>4. Owes(v, k)'
    BY <2>2, <2>3, DebtsStay DEF HeldInv
  <2> QED BY <2>4
<1> QED BY <1>1 DEF ProcessingIsOwed

\* Every step of a run keeps the debts.
LEMMA RunsKeepDebts ==
  ASSUME HeldInv, Next, NEW w \in Workers, WorkerStep(w)
  PROVE  ProcessingIsOwed'
<1> DEFINE Kept == /\ \A v \in Workers \ {w} : worker'[v] = worker[v]
                   /\ stranded \subseteq stranded'
                   /\ \A k \in Event : journal'[k] = "processing" =>
                         \/ Owes(w, k)'
                         \/ k \in stranded'
                         \/ journal[k] = "processing" /\ ~Owes(w, k)
<1> SUFFICES Kept
  BY OneRunKeepsDebts
<1>w. /\ worker \in [Workers -> WorkerState] /\ worker[w] \in WorkerState
      /\ journal \in [Event -> Status]
  BY DEF HeldInv, TypeInv, TypeOK
<1>n. worker[w].phase \in {"idle", "taken"} => \A k \in Event : ~Owes(w, k)
  BY DEF HeldInv, PhasesFit, Owes
<1>1. ASSUME NEW j \in Job, TakeJob(w, j) PROVE Kept
  BY <1>1, <1>n, <1>w DEF TakeJob
<1>2. ASSUME NEW events \in Claims, ClaimWebhookEvents(w, events) PROVE Kept
  <2>1. \A v \in Workers \ {w} : worker'[v] = worker[v]
    BY <1>2, <1>w DEF ClaimWebhookEvents, RunEnds
  <2>2. ASSUME NEW k \in Event, k \in events PROVE Owes(w, k)'
    <3>1. worker'[w].phase = "claimed" /\ worker'[w].events = events
      BY <1>2, <1>w, <2>2 DEF ClaimWebhookEvents, WorkerState
    <3> QED BY <2>2, <3>1 DEF Owes, Updated
  <2>3. \A k \in Event \ events : journal'[k] = journal[k] /\ ~Owes(w, k)
    BY <1>2, <1>n DEF ClaimWebhookEvents, SetStatus
  <2> QED BY <1>2, <2>1, <2>2, <2>3 DEF ClaimWebhookEvents
<1>3. CASE ClaimFails(w)
  <2>1. \A v \in Workers \ {w} : worker'[v] = worker[v]
    BY <1>3, <1>w DEF ClaimFails, RunEnds
  <2>2. UNCHANGED <<journal, stranded>> /\ \A k \in Event : ~Owes(w, k)
    BY <1>3, <1>n DEF ClaimFails
  <2> QED BY <2>1, <2>2
<1>4. ASSUME \/ StartRun(w) \/ StoreAnswer(w)
             \/ \E r \in Records : ArchiveDeleted(w, r) \/ FetchRecord(w, r) \/ RecordFails(w, r)
      PROVE  Kept
  <2>1. worker[w].phase \in {"claimed", "running"}
    BY <1>4 DEF StartRun, StoreAnswer, ArchiveDeleted, FetchRecord, RecordFails, MayWorkOn,
                HeldInv, PhasesFit
  <2>2. /\ worker'[w].phase = "running" /\ worker'[w].events = worker[w].events
        /\ \A v \in Workers \ {w} : worker'[v] = worker[v]
        /\ UNCHANGED <<journal, stranded>>
    <3>1. CASE StartRun(w)
      BY <1>w, <3>1 DEF StartRun, WorkerState
    <3>2. CASE StoreAnswer(w)
      <4>1. worker[w].phase = "running"
        BY <3>2 DEF StoreAnswer, HeldInv, PhasesFit
      <4> QED BY <1>w, <3>2, <4>1 DEF StoreAnswer, WorkerState
    <3>3. ASSUME NEW r \in Records,
                 ArchiveDeleted(w, r) \/ FetchRecord(w, r) \/ RecordFails(w, r)
          PROVE  /\ worker'[w].phase = "running" /\ worker'[w].events = worker[w].events
                 /\ \A v \in Workers \ {w} : worker'[v] = worker[v]
                 /\ UNCHANGED <<journal, stranded>>
      <4>1. worker[w].phase = "running"
        BY <3>3 DEF ArchiveDeleted, FetchRecord, RecordFails, MayWorkOn, HeldInv, PhasesFit
      <4> QED BY <1>w, <3>3, <4>1 DEF ArchiveDeleted, FetchRecord, RecordFails, WorkerState
    <3> QED BY <1>4, <3>1, <3>2, <3>3
  <2> QED BY <2>2 DEF Owes, Updated
<1>5. CASE StartFails(w) \/ WorkerDies(w)
  <2>1. \A v \in Workers \ {w} : worker'[v] = worker[v]
    BY <1>5, <1>w DEF StartFails, WorkerDies, RunEnds
  <2>2. journal' = journal /\ stranded' = stranded \cup Processing(w)
    BY <1>5 DEF StartFails, WorkerDies
  <2>3. \A k \in Event : journal[k] = "processing" /\ Owes(w, k) => k \in Processing(w)
    BY DEF Processing, Owes
  <2> QED BY <2>1, <2>2, <2>3
<1>6. CASE CompleteEvents(w)
  <2>1. /\ \A v \in Workers \ {w} : worker'[v] = worker[v]
        /\ worker'[w].phase = IF FailedEvents(w) = {} THEN "settled" ELSE "completed"
        /\ worker'[w].events = worker[w].events /\ worker'[w].failed = worker[w].failed
    BY <1>6, <1>w DEF CompleteEvents, WorkerState
  <2>2. ASSUME NEW k \in Event, journal'[k] = "processing", Owes(w, k) PROVE Owes(w, k)'
    <3>1. k \in FailedEvents(w)
      BY <1>6, <2>2 DEF CompleteEvents, CompletedEvents, SetStatus, Owes
    <3>2. RecordOf(k)' = RecordOf(k)
      BY <1>6 DEF CompleteEvents, RecordOf
    <3> QED BY <2>1, <3>1, <3>2 DEF Owes, Updated, FailedEvents
  <2>3. \A k \in Event : journal'[k] = "processing" => journal[k] = "processing"
    BY <1>6 DEF CompleteEvents, SetStatus
  <2>4. stranded' = stranded
    BY <1>6 DEF CompleteEvents
  <2> QED BY <2>1, <2>2, <2>3, <2>4
<1>7. CASE FailEvents(w)
  <2>1. \A k \in Event : journal'[k] = "processing" => journal[k] = "processing" /\ ~Owes(w, k)
    BY <1>7 DEF FailEvents, SetStatus, FailedEvents, Owes, Updated
  <2>2. stranded' = stranded /\ \A v \in Workers \ {w} : worker'[v] = worker[v]
    BY <1>7, <1>w DEF FailEvents
  <2> QED BY <2>1, <2>2
<1>8. CASE CloseRun(w) \/ RunAborts(w)
  <2>1. \A k \in Event : journal'[k] = "processing" =>
          \/ k \in stranded'
          \/ journal[k] = "processing" /\ ~Owes(w, k)
    <3>1. ASSUME NEW k \in Event, SettleAsFailed(w), journal'[k] = "processing"
          PROVE  journal[k] = "processing" /\ ~Owes(w, k)
      BY <3>1 DEF SettleAsFailed, SetStatus, Processing, Owes
    <3>2. CASE SettleAsFailed(w)
      BY <3>1, <3>2
    <3>3. CASE UNCHANGED journal /\ stranded' = stranded \cup Processing(w)
      <4>1. \A k \in Event : journal[k] = "processing" /\ Owes(w, k) => k \in Processing(w)
        BY DEF Processing, Owes
      <4> QED BY <3>3, <4>1
    <3>4. CASE UNCHANGED journal /\ CloseRun(w)
      BY <3>4 DEF CloseRun, Owes, Updated
    <3> QED BY <1>8, <3>2, <3>3, <3>4 DEF CloseRun, RunAborts
  <2>2. stranded \subseteq stranded' /\ \A v \in Workers \ {w} : worker'[v] = worker[v]
    BY <1>8, <1>w DEF CloseRun, RunAborts, RunEnds
  <2> QED BY <2>1, <2>2
<1> HIDE DEF Kept
<1> QED BY <1>1, <1>2, <1>3, <1>4, <1>5, <1>6, <1>7, <1>8 DEF WorkerStep

\* Every step keeps the invariant.
LEMMA NextHeldInv == HeldInv /\ [Next]_vars => HeldInv'
<1> SUFFICES ASSUME HeldInv, [Next]_vars PROVE HeldInv'
  OBVIOUS
<1>t. TypeInv'
  BY NextTypeInv DEF HeldInv
<1>1. CASE UNCHANGED vars
  BY <1>t, <1>1 DEF vars, intakeVars, runVars, recoveryVars, HeldInv, PhasesFit,
                    ProcessingIsOwed, Owes, Updated, RecordOf
<1>2. ASSUME Next PROVE PhasesFit' /\ ProcessingIsOwed'
  <2>1. ASSUME NEW q \in Requests, RequestStep(q) PROVE ProcessingIsOwed'
    <3>1. UNCHANGED <<worker, stranded>>
      BY <2>1 DEF RequestStep, ReceiveBatch, JournalEvent, ArchiveOnArrival, AddJob, MarkQueued,
                  NothingToQueue, RequestFails, runVars
    <3>2. \A k \in Event : journal'[k] = "processing" => journal[k] = "processing"
      BY <2>1 DEF RequestStep, ReceiveBatch, JournalEvent, ArchiveOnArrival, AddJob, MarkQueued,
                  NothingToQueue, RequestFails, SetStatus
    <3> QED BY <1>2, <3>1, <3>2, OthersKeepDebts
  <2>2. ASSUME RecoveryStep PROVE ProcessingIsOwed'
    <3>1. UNCHANGED worker
      BY <2>2 DEF RecoveryStep, SelectRetry, IgnoreEvents, RequeueSelection, runVars
    <3>2. \A k \in Event : journal'[k] = "processing" =>
            journal[k] = "processing" /\ (k \in stranded => k \in stranded')
      BY <2>2 DEF RecoveryStep, SelectRetry, IgnoreEvents, RequeueSelection, SetStatus, runVars
    <3> QED BY <1>2, <3>1, <3>2, OthersKeepDebts
  <2>3. ASSUME NEW r \in Records, NEW action \in Actions, PortalChanges(r, action)
        PROVE  ProcessingIsOwed'
    BY <1>2, <2>3, OthersKeepDebts DEF PortalChanges, runVars
  <2>4. ProcessingIsOwed'
    BY <1>2, <2>1, <2>2, <2>3, RunsKeepDebts DEF Next
  <2> QED BY <1>2, <2>4, NextPhasesFit DEF HeldInv
<1> QED BY <1>t, <1>1, <1>2 DEF HeldInv

\* An event is left in processing only by a run that died, or that failed before
\* or in its handler: for any number of workers, whatever fails and whatever is retried.
THEOREM HeldCorrect == Spec => []ProcessingIsHeld
<1>1. Spec => []HeldInv
  BY InitHeldInv, NextHeldInv, PTL DEF Spec
<1>2. HeldInv => ProcessingIsHeld
  BY DEF HeldInv, ProcessingIsOwed, ProcessingIsHeld, Owes
<1> QED BY <1>1, <1>2, PTL

-----------------------------------------------------------------------------
(* Settled events stay settled                                             *)

\* The queue is served by one worker process.
OneWorker == \A v, w \in Workers : v = w

\* SettledIsFinal as an induction needs it: what a run has still to settle is
\* not settled, although a retry may have queued it again in the meantime.
HeldAreOpen ==
    \A w \in Workers, k \in Event : Owes(w, k) => journal[k] \in {"processing", "queued"}

OpenInv == HeldInv /\ HeldAreOpen

\* What a step may do to a settled event, as SettledIsFinal says it.
SettledStays ==
    \A k \in Event : journal[k] \in {"completed", "ignored"} =>
        journal'[k] = journal[k] \/ k \in selection

\* Nothing is held at the start.
LEMMA InitOpenInv == Init => OpenInv
  BY InitHeldInv DEF OpenInv, HeldAreOpen, Init, Owes, IdleWorker

\* A run that does not move incurs no debt.
LEMMA NoNewDebts ==
  ASSUME TypeInv, Next, NEW v \in Workers, worker'[v] = worker[v], NEW k, Owes(v, k)'
  PROVE  Owes(v, k)
<1>1. k \in DOMAIN changes
  BY DEF Owes, TypeInv, EventsHaveHappened
<1>2. RecordOf(k)' = RecordOf(k)
  BY <1>1, RecordsStay
<1> QED BY <1>2 DEF Owes, Updated

\* A step of the portal, a request or the CLI closes no event that is held.
LEMMA OthersKeepOpen ==
  ASSUME OpenInv, Next, UNCHANGED worker,
         \A k \in Event : journal[k] \in {"processing", "queued"} =>
             journal'[k] \in {"processing", "queued"}
  PROVE  HeldAreOpen'
<1>1. ASSUME NEW w \in Workers, NEW k \in Event, Owes(w, k)'
      PROVE  journal'[k] \in {"processing", "queued"}
  <2>1. Owes(w, k)
    BY <1>1, NoNewDebts DEF OpenInv, HeldInv
  <2> QED BY <2>1 DEF OpenInv, HeldAreOpen
<1> QED BY <1>1 DEF HeldAreOpen

\* A step of the only worker settles what it owes and nothing else.
LEMMA OneWorkerSettles ==
  ASSUME OneWorker, OpenInv, Next, NEW w \in Workers, WorkerStep(w)
  PROVE  HeldAreOpen' /\ SettledStays
<1> DEFINE Good == /\ \A k \in Event : Owes(w, k)' => journal'[k] \in {"processing", "queued"}
                   /\ SettledStays
<1> SUFFICES Good
  BY DEF OneWorker, HeldAreOpen
<1>w. /\ worker \in [Workers -> WorkerState] /\ worker[w] \in WorkerState
  BY DEF OpenInv, HeldInv, TypeInv, TypeOK
<1>o. \A k \in Event : Owes(w, k) => journal[k] \in {"processing", "queued"}
  BY DEF OpenInv, HeldAreOpen
<1>e. ASSUME worker'[w].events = {} PROVE \A k \in Event : ~(Owes(w, k)')
  BY <1>e DEF Owes
<1>i. IdleWorker.events = {}
  BY DEF IdleWorker
<1>1. ASSUME NEW j \in Job, TakeJob(w, j) PROVE Good
  <2>1. worker'[w].events = {} /\ journal' = journal
    BY <1>1, <1>w DEF TakeJob, IdleWorker
  <2> QED BY <2>1, <1>e DEF SettledStays
<1>2. ASSUME NEW events \in Claims, ClaimWebhookEvents(w, events) PROVE Good
  <2>1. ASSUME NEW k \in Event, Owes(w, k)' PROVE journal'[k] = "processing"
    <3>1. CASE events = {}
      <4>1. worker'[w].events = {}
        BY <1>2, <1>w, <1>i, <3>1 DEF ClaimWebhookEvents, RunEnds
      <4> QED BY <2>1, <4>1, <1>e
    <3>2. CASE events # {}
      <4>1. worker'[w].events = events
        BY <1>2, <1>w, <3>2 DEF ClaimWebhookEvents, WorkerState
      <4>2. k \in events
        BY <2>1, <4>1 DEF Owes
      <4> QED BY <1>2, <4>2 DEF ClaimWebhookEvents, SetStatus
    <3> QED BY <3>1, <3>2
  <2>2. events \subseteq Claimable
    BY <1>2 DEF Claims, kSubset
  <2>3. SettledStays
    BY <1>2, <2>2 DEF SettledStays, ClaimWebhookEvents, SetStatus, Claimable
  <2> QED BY <2>1, <2>3
<1>3. CASE ClaimFails(w) \/ StartFails(w) \/ WorkerDies(w)
  <2>1. worker'[w].events = {} /\ journal' = journal
    BY <1>3, <1>w, <1>i DEF ClaimFails, StartFails, WorkerDies, RunEnds
  <2> QED BY <2>1, <1>e DEF SettledStays
<1>4. ASSUME \/ StartRun(w) \/ StoreAnswer(w)
             \/ \E r \in Records : ArchiveDeleted(w, r) \/ FetchRecord(w, r) \/ RecordFails(w, r)
      PROVE  Good
  <2>1. worker[w].phase \in {"claimed", "running"}
    BY <1>4 DEF StartRun, StoreAnswer, ArchiveDeleted, FetchRecord, RecordFails, MayWorkOn,
                OpenInv, HeldInv, PhasesFit
  <2>2. worker'[w].events = worker[w].events /\ journal' = journal
    <3>1. CASE StartRun(w)
      BY <1>w, <3>1 DEF StartRun, WorkerState
    <3>2. CASE StoreAnswer(w)
      BY <1>w, <3>2 DEF StoreAnswer, WorkerState
    <3>3. ASSUME NEW r \in Records,
                 ArchiveDeleted(w, r) \/ FetchRecord(w, r) \/ RecordFails(w, r)
          PROVE  worker'[w].events = worker[w].events /\ journal' = journal
      BY <1>w, <3>3 DEF ArchiveDeleted, FetchRecord, RecordFails, WorkerState
    <3> QED BY <1>4, <3>1, <3>2, <3>3
  <2>3. ASSUME NEW k \in Event, Owes(w, k)' PROVE Owes(w, k)
    BY <2>1, <2>2, <2>3 DEF Owes, Updated
  <2> QED BY <1>o, <2>2, <2>3 DEF SettledStays
<1>5. CASE CompleteEvents(w)
  <2>1. /\ worker[w].phase = "running"
        /\ worker'[w].phase = IF FailedEvents(w) = {} THEN "settled" ELSE "completed"
        /\ worker'[w].events = worker[w].events /\ worker'[w].failed = worker[w].failed
    BY <1>5, <1>w DEF CompleteEvents, Finished, WorkerState
  <2>2. ASSUME NEW k \in Event, Owes(w, k)' PROVE journal'[k] \in {"processing", "queued"}
    <3>1. RecordOf(k)' = RecordOf(k)
      BY <1>5 DEF CompleteEvents, RecordOf
    <3>2. Owes(w, k) /\ k \in FailedEvents(w)
      BY <2>1, <2>2, <3>1 DEF Owes, Updated, FailedEvents
    <3>3. journal'[k] = journal[k]
      BY <1>5, <3>2 DEF CompleteEvents, CompletedEvents, SetStatus
    <3> QED BY <1>o, <3>2, <3>3
  <2>3. \A k \in Event : k \in CompletedEvents(w) => Owes(w, k)
    BY <2>1 DEF CompletedEvents, Owes, Updated
  <2>4. SettledStays
    BY <1>5, <1>o, <2>3 DEF SettledStays, CompleteEvents, SetStatus
  <2> QED BY <2>2, <2>4
<1>6. CASE FailEvents(w)
  <2>1. worker[w].phase = "completed" /\ worker'[w].phase = "settled"
    BY <1>6, <1>w DEF FailEvents, WorkerState
  <2>2. \A k \in Event : k \in FailedEvents(w) => Owes(w, k)
    BY <2>1 DEF FailedEvents, Owes, Updated
  <2>3. SettledStays
    BY <1>6, <1>o, <2>2 DEF SettledStays, FailEvents, SetStatus
  <2>4. \A k \in Event : ~(Owes(w, k)')
    BY <2>1 DEF Owes, Updated
  <2> QED BY <2>3, <2>4
<1>7. CASE CloseRun(w) \/ RunAborts(w)
  <2>1. worker'[w].events = {}
    BY <1>7, <1>w, <1>i DEF CloseRun, RunAborts, RunEnds
  <2>2. SettledStays
    BY <1>7 DEF SettledStays, CloseRun, RunAborts, SettleAsFailed, SetStatus, Processing
  <2> QED BY <2>1, <2>2, <1>e
<1> HIDE DEF Good
<1> QED BY <1>1, <1>2, <1>3, <1>4, <1>5, <1>6, <1>7 DEF WorkerStep

\* Every step keeps the invariant and leaves settled events as they are.
LEMMA NextOpenInv ==
  ASSUME OneWorker, OpenInv, [Next]_vars
  PROVE  OpenInv' /\ [SettledStays]_vars
<1>h. HeldInv'
  BY NextHeldInv DEF OpenInv
<1>1. CASE UNCHANGED vars
  BY <1>h, <1>1 DEF vars, intakeVars, runVars, recoveryVars, OpenInv, HeldAreOpen, Owes,
                    Updated, RecordOf
<1>2. ASSUME Next PROVE HeldAreOpen' /\ SettledStays
  <2>1. ASSUME NEW q \in Requests, RequestStep(q) PROVE HeldAreOpen' /\ SettledStays
    <3>1. /\ UNCHANGED worker
          /\ \A k \in Event : journal[k] \notin {"absent", "received"} => journal'[k] = journal[k]
      BY <2>1 DEF RequestStep, ReceiveBatch, JournalEvent, ArchiveOnArrival, AddJob, MarkQueued,
                  NothingToQueue, RequestFails, SetStatus, runVars
    <3> QED BY <1>2, <3>1, OthersKeepOpen DEF SettledStays
  <2>2. ASSUME RecoveryStep PROVE HeldAreOpen' /\ SettledStays
    <3>1. UNCHANGED worker
      BY <2>2 DEF RecoveryStep, SelectRetry, IgnoreEvents, RequeueSelection, runVars
    <3>2. \A k \in Event :
            /\ journal[k] \in {"processing", "queued"} => journal'[k] \in {"processing", "queued"}
            /\ journal[k] \in {"completed", "ignored"} =>
                 journal'[k] = journal[k] \/ k \in selection
      BY <2>2 DEF RecoveryStep, SelectRetry, IgnoreEvents, RequeueSelection, Recoverable,
                  SetStatus, runVars
    <3> QED BY <1>2, <3>1, <3>2, OthersKeepOpen DEF SettledStays
  <2>3. ASSUME NEW r \in Records, NEW action \in Actions, PortalChanges(r, action)
        PROVE  HeldAreOpen' /\ SettledStays
    BY <1>2, <2>3, OthersKeepOpen DEF PortalChanges, runVars, SettledStays
  <2> QED BY <1>2, <2>1, <2>2, <2>3, OneWorkerSettles DEF Next
<1> QED BY <1>h, <1>1, <1>2 DEF OpenInv

\* While one worker serves the queue, a completed or ignored event is claimed or
\* failed again only by a retry that had selected it: deliveries that repeat,
\* second jobs and the late UPDATEs of an aborted run leave it alone.
THEOREM SettledCorrect ==
  ASSUME OneWorker PROVE Spec => SettledIsFinal
<1>1. OpenInv /\ [Next]_vars => OpenInv' /\ [SettledStays]_vars
  BY NextOpenInv
<1>2. [SettledStays]_vars <=>
        [\A k \in Event : journal[k] \in {"completed", "ignored"} =>
           journal'[k] = journal[k] \/ k \in selection]_vars
  BY DEF SettledStays
<1> QED BY InitOpenInv, <1>1, <1>2, PTL DEF Spec, SettledIsFinal

-----------------------------------------------------------------------------
(* Completed events are mirrored                                           *)

\* The mirror shows what the event k says of its record.
IsMirrored(k) ==
    LET r == RecordOf(k) IN
    /\ k = LiveVersion(r) /\ k \in Deletions => ~mirror[r].shown
    /\ EventsOf(r) \cap Deletions = {} => k <= mirror[r].version

\* Nothing is archived without a deletion, and no version is shown that was not.
MirrorIsPast ==
    /\ \A q \in Requests : request[q].archiving \in Deletions \cup {0}
    /\ \A r \in Records :
         /\ mirror[r].version \in EventsOf(r) \cup {0}
         /\ EventsOf(r) \cap Deletions = {} => mirror[r].shown

\* An answer that waits to be stored is not older than the mirror, than what was
\* completed before it was fetched, and than the events of its own run.
AnswersAreNewest ==
    \A w \in Workers : \A a \in worker[w].answer :
        /\ a.record \in worker[w].todo
        /\ a.version \in EventsOf(a.record) \cup {0}
        /\ IF a.found THEN a.version \notin Deletions
                      ELSE EventsOf(a.record) \cap Deletions # {}
        /\ mirror[a.record].version <= a.version
        /\ \A k \in EventsOf(a.record) :
             journal[k] = "completed" \/ k \in worker[w].events => k <= a.version

\* What a run has worked off without a failure is mirrored, before it is completed.
WorkedOffIsMirrored ==
    \A w \in Workers : worker[w].phase = "running" =>
        \A k \in worker[w].events :
            RecordOf(k) \notin worker[w].todo \cup worker[w].failed => IsMirrored(k)

CompletedAreMirrored ==
    \A k \in DOMAIN changes : journal[k] = "completed" => IsMirrored(k)

MirrorInv ==
    /\ HeldInv /\ MirrorIsPast /\ AnswersAreNewest
    /\ WorkedOffIsMirrored /\ CompletedAreMirrored

\* The version of a record that exists is its newest change.
LEMMA LiveIsNewest ==
  ASSUME TypeOK, NEW r \in Records
  PROVE  /\ LiveVersion(r) \in EventsOf(r) \cup {0}
         /\ \A k \in EventsOf(r) : k <= LiveVersion(r)
<1> DEFINE T == EventsOf(r) \cup {0}
<1>1. T \in SUBSET (0 .. MaxChanges) /\ T # {} /\ MaxChanges \in Nat
  BY ChangeTypes, MaxChangesAssumption DEF EventsOf, Event
<1>2. Max(T) \in T /\ \A x \in T : x <= Max(T)
  <2> HIDE DEF T
  <2> QED BY <1>1, MaxIsMember
<1> QED BY <1>2 DEF LiveVersion

\* Both hold in the next state as well: 0 is no deletion, what lives is the newest.
LiveAreNewest == \A r \in Records : \A k \in EventsOf(r) : k <= LiveVersion(r)

NoDeletionIsZero == DOMAIN changes \subseteq Event /\ 0 \notin Deletions

LEMMA NextHistoryFits == TypeOK' => LiveAreNewest' /\ NoDeletionIsZero'
<1>1. TypeOK => LiveAreNewest
  BY LiveIsNewest DEF LiveAreNewest
<1>2. TypeOK => NoDeletionIsZero
  BY ChangeTypes DEF NoDeletionIsZero, Deletions, Event
<1> QED BY <1>1, <1>2, PTL

\* Events and deletions of a record are added, never taken away.
LEMMA HistoryGrows ==
  ASSUME TypeInv, Next
  PROVE  /\ \A r : EventsOf(r) \subseteq EventsOf(r)'
         /\ \A k \in DOMAIN changes : k \in Deletions' <=> k \in Deletions
         /\ \A r : EventsOf(r) \cap Deletions # {} => (EventsOf(r) \cap Deletions)' # {}
         /\ \A r : EventsOf(r) \subseteq DOMAIN changes
<1>1. \A r : EventsOf(r) \subseteq EventsOf(r)' /\ EventsOf(r) \subseteq DOMAIN changes
  BY ChangesStay DEF EventsOf, RecordOf
<1>2. \A k \in DOMAIN changes : k \in Deletions' <=> k \in Deletions
  BY ChangesStay DEF Deletions
<1> QED BY <1>1, <1>2

\* Initially nothing has happened.
LEMMA InitMirrorInv == Init => MirrorInv
<1> SUFFICES ASSUME Init PROVE MirrorInv
  OBVIOUS
<1>1. MirrorIsPast
  BY DEF Init, MirrorIsPast, IdleRequest, NewRequest
<1>2. AnswersAreNewest /\ WorkedOffIsMirrored
  BY DEF Init, AnswersAreNewest, WorkedOffIsMirrored, IdleWorker
<1>3. CompletedAreMirrored
  BY DEF Init, CompletedAreMirrored
<1> QED BY <1>1, <1>2, <1>3, InitHeldInv DEF MirrorInv

\* An event stays mirrored while its record is not shown again.
LEMMA MirroredStays ==
  ASSUME TypeInv, TypeInv', Next, NEW k \in DOMAIN changes, IsMirrored(k),
         mirror[RecordOf(k)].version <= mirror'[RecordOf(k)].version,
         mirror'[RecordOf(k)].shown => mirror[RecordOf(k)].shown
  PROVE  IsMirrored(k)'
<1> DEFINE r == RecordOf(k)
<1>r. r \in Records /\ r' = r /\ k \in EventsOf(r)
  BY RecordsStay, ChangeTypes DEF TypeInv, EventsOf
<1>n. k \in Nat /\ mirror[r].version \in Nat /\ (mirror'[r]).version \in Nat
  <2>1. k \in 1 .. MaxChanges /\ MaxChanges \in Nat
    BY ChangeTypes, MaxChangesAssumption DEF TypeInv, Event
  <2>2. mirror[r] \in Row /\ mirror'[r] \in Row
    BY <1>r DEF TypeInv, TypeOK
  <2> QED BY <2>1, <2>2 DEF Row
<1>1. ASSUME k = LiveVersion(r)', k \in Deletions' PROVE ~mirror'[r].shown
  <2>1. \A i \in EventsOf(r) : i <= k
    <3>1. TypeOK' /\ r' \in Records
      BY <1>r DEF TypeInv
    <3>2. \A i \in EventsOf(r)' : i <= LiveVersion(r)'
      BY <1>r, <3>1, NextHistoryFits DEF LiveAreNewest
    <3> QED BY <3>2, <1>1, <1>r, HistoryGrows
  <2>2. k = LiveVersion(r)
    <3>1. LiveVersion(r) \in EventsOf(r) \cup {0} /\ k <= LiveVersion(r)
      BY <1>r, LiveIsNewest DEF TypeInv
    <3>2. LiveVersion(r) \in Nat
      BY <1>r, ChangeTypes, MaxChangesAssumption DEF TypeInv
    <3> HIDE DEF r
    <3> QED BY <1>n, <2>1, <3>1, <3>2
  <2>3. k \in Deletions
    BY <1>1, HistoryGrows
  <2> QED BY <2>2, <2>3 DEF IsMirrored
<1>2. ASSUME (EventsOf(r) \cap Deletions)' = {} PROVE k <= mirror'[r].version
  <2>1. EventsOf(r) \cap Deletions = {}
    BY <1>2, <1>r, HistoryGrows
  <2>2. k <= mirror[r].version
    BY <2>1 DEF IsMirrored
  <2>3. mirror[r].version <= mirror'[r].version
    OBVIOUS
  <2> HIDE DEF r
  <2> QED BY <1>n, <2>2, <2>3
<1> QED BY <1>1, <1>2, <1>r DEF IsMirrored

\* A step outside the worker that shows no record keeps what is mirrored.
LEMMA OthersKeepMirror ==
  ASSUME MirrorInv, TypeInv', Next, UNCHANGED worker,
         \A k \in Event : journal'[k] = "completed" => journal[k] = "completed",
         \A r \in Records : /\ mirror'[r].version = mirror[r].version
                            /\ mirror'[r].shown => mirror[r].shown
  PROVE  AnswersAreNewest' /\ WorkedOffIsMirrored' /\ CompletedAreMirrored'
<1>t. TypeInv /\ TypeOK
  BY DEF MirrorInv, HeldInv, TypeInv
<1>w. \A w \in Workers : worker[w] \in WorkerState /\ worker[w].events \subseteq DOMAIN changes
  BY <1>t DEF TypeInv, TypeOK, EventsHaveHappened
<1>h. \A k \in Event : journal[k] = "completed" => k \in DOMAIN changes
  BY <1>t DEF TypeInv, EventsHaveHappened
<1>d. DOMAIN changes' \subseteq Event
  BY NextHistoryFits DEF TypeInv, NoDeletionIsZero
<1>m. ASSUME NEW k \in DOMAIN changes, IsMirrored(k) PROVE IsMirrored(k)'
  <2>1. RecordOf(k) \in Records
    BY <1>t, ChangeTypes
  <2>2. mirror[RecordOf(k)].version \in Nat
    BY <1>t, <2>1, MaxChangesAssumption DEF TypeOK, Row
  <2>3. mirror[RecordOf(k)].version <= mirror'[RecordOf(k)].version
    BY <2>1, <2>2
  <2> QED BY <1>m, <1>t, <2>1, <2>3, MirroredStays
<1>1. ASSUME NEW w \in Workers, NEW a \in worker[w].answer
      PROVE  /\ a.record \in worker'[w].todo
             /\ a.version \in EventsOf(a.record)' \cup {0}
             /\ IF a.found THEN a.version \notin Deletions'
                           ELSE (EventsOf(a.record) \cap Deletions)' # {}
             /\ mirror'[a.record].version <= a.version
             /\ \A k \in EventsOf(a.record)' :
                  journal'[k] = "completed" \/ k \in worker'[w].events => k <= a.version
  <2>1. /\ a.record \in worker[w].todo
        /\ a.version \in EventsOf(a.record) \cup {0}
        /\ IF a.found THEN a.version \notin Deletions
                      ELSE EventsOf(a.record) \cap Deletions # {}
        /\ mirror[a.record].version <= a.version
        /\ \A k \in EventsOf(a.record) :
             journal[k] = "completed" \/ k \in worker[w].events => k <= a.version
    BY DEF MirrorInv, AnswersAreNewest
  <2>2. a.record \in Records
    BY <1>w DEF WorkerState, Answer
  <2>3. a.found => a.version \notin Deletions'
    <3>1. CASE a.version = 0
      <4>1. 0 \notin Deletions'
        BY NextHistoryFits DEF TypeInv, NoDeletionIsZero
      <4> QED BY <3>1, <4>1
    <3>2. CASE a.version \in EventsOf(a.record)
      BY <1>t, <2>1, <3>2, HistoryGrows
    <3> QED BY <2>1, <3>1, <3>2
  <2>4. ASSUME NEW k \in EventsOf(a.record)',
               journal'[k] = "completed" \/ k \in worker'[w].events
        PROVE  k <= a.version
    <3>1. k \in DOMAIN changes' /\ RecordOf(k)' = a.record
      BY DEF EventsOf
    <3>2. k \in DOMAIN changes /\ (journal[k] = "completed" \/ k \in worker[w].events)
      BY <1>d, <1>h, <1>w, <2>4, <3>1
    <3>3. RecordOf(k) = a.record
      BY <1>t, <3>1, <3>2, RecordsStay
    <3>4. k \in EventsOf(a.record)
      BY <3>2, <3>3 DEF EventsOf
    <3> QED BY <2>1, <3>2, <3>4
  <2>5. /\ a.version \in EventsOf(a.record)' \cup {0}
        /\ ~a.found => (EventsOf(a.record) \cap Deletions)' # {}
    BY <1>t, <2>1, HistoryGrows
  <2> QED BY <2>1, <2>2, <2>3, <2>4, <2>5
<1>2. AnswersAreNewest'
  BY <1>1 DEF AnswersAreNewest
<1>3. WorkedOffIsMirrored'
  <2> SUFFICES ASSUME NEW w \in Workers, worker[w].phase = "running",
                      NEW k \in worker[w].events,
                      RecordOf(k)' \notin worker[w].todo \cup worker[w].failed
               PROVE  IsMirrored(k)'
    BY DEF WorkedOffIsMirrored
  <2>1. k \in DOMAIN changes /\ RecordOf(k)' = RecordOf(k)
    BY <1>t, <1>w, RecordsStay
  <2>2. IsMirrored(k)
    BY <2>1 DEF MirrorInv, WorkedOffIsMirrored
  <2> QED BY <1>m, <2>1, <2>2
<1>4. CompletedAreMirrored'
  <2> SUFFICES ASSUME NEW k \in DOMAIN changes', journal'[k] = "completed" PROVE IsMirrored(k)'
    BY DEF CompletedAreMirrored
  <2>1. journal[k] = "completed" /\ k \in DOMAIN changes
    BY <1>d, <1>h
  <2> QED BY <1>m, <2>1 DEF MirrorInv, CompletedAreMirrored
<1> QED BY <1>2, <1>3, <1>4

\* A step of the portal, a request or the CLI.
LEMMA RequestsKeepMirror ==
  ASSUME MirrorInv, TypeInv', Next, UNCHANGED worker,
         \/ \E r \in Records, action \in Actions : PortalChanges(r, action)
         \/ \E q \in Requests : RequestStep(q)
         \/ RecoveryStep
  PROVE  MirrorIsPast' /\ AnswersAreNewest' /\ WorkedOffIsMirrored' /\ CompletedAreMirrored'
<1>t. TypeInv /\ TypeOK /\ MirrorIsPast
  BY DEF MirrorInv, HeldInv, TypeInv
<1>p. ASSUME \A q \in Requests : request'[q].archiving \in Deletions' \cup {0},
             \A r \in Records : /\ mirror'[r].version = mirror[r].version
                                /\ mirror'[r].shown = mirror[r].shown
      PROVE  MirrorIsPast'
  BY <1>p, <1>t, HistoryGrows DEF MirrorIsPast
<1>j. \A k \in Event : journal'[k] = "completed" => journal[k] = "completed"
  <2>1. ASSUME NEW r \in Records, NEW action \in Actions, PortalChanges(r, action)
        PROVE  UNCHANGED journal
    BY <2>1 DEF PortalChanges
  <2>2. ASSUME NEW q \in Requests, RequestStep(q)
        PROVE  \A k \in Event : journal'[k] = "completed" => journal[k] = "completed"
    BY <2>2 DEF RequestStep, ReceiveBatch, JournalEvent, ArchiveOnArrival, AddJob, MarkQueued,
                NothingToQueue, RequestFails, SetStatus
  <2>3. ASSUME RecoveryStep
        PROVE  \A k \in Event : journal'[k] = "completed" => journal[k] = "completed"
    BY <2>3 DEF RecoveryStep, SelectRetry, IgnoreEvents, RequeueSelection, SetStatus
  <2> QED BY <2>1, <2>2, <2>3
<1>1. ASSUME UNCHANGED <<mirror, request>> PROVE MirrorIsPast'
  <2>1. \A q \in Requests : request[q].archiving \in Deletions' \cup {0}
    BY <1>t, HistoryGrows, NextHistoryFits DEF MirrorIsPast, Deletions
  <2> QED BY <1>1, <1>p, <2>1
<1>2. ASSUME NEW q \in Requests, UNCHANGED <<mirror, changes>>, NEW state,
             request' = [request EXCEPT ![q] = state], state.archiving \in Deletions \cup {0}
      PROVE  MirrorIsPast'
  <2>1. \A p \in Requests : request'[p].archiving \in Deletions \cup {0}
    BY <1>2, <1>t DEF MirrorIsPast, TypeOK
  <2>2. Deletions' = Deletions
    BY <1>2 DEF Deletions
  <2> QED BY <1>2, <1>p, <2>1, <2>2
<1>3. ASSUME NEW q \in Requests, ArchiveOnArrival(q)
      PROVE  /\ MirrorIsPast'
             /\ \A r \in Records : /\ mirror'[r].version = mirror[r].version
                                   /\ mirror'[r].shown => mirror[r].shown
  <2> DEFINE k == request[q].archiving
             s == RecordOf(k)
  <2>1. k \in Deletions /\ k \in EventsOf(s)
    BY <1>3, <1>t DEF ArchiveOnArrival, MirrorIsPast, Deletions, EventsOf
  <2>2. mirror' = [mirror EXCEPT ![s].shown = FALSE] /\ UNCHANGED changes
    BY <1>3 DEF ArchiveOnArrival, Hidden
  <2>3. request' = [request EXCEPT ![q] = [request[q] EXCEPT !.archiving = 0]]
    BY <1>3 DEF ArchiveOnArrival
  <2>4. [request[q] EXCEPT !.archiving = 0].archiving = 0
    BY <1>t DEF TypeOK, RequestState
  <2>5. \A p \in Requests : request'[p].archiving \in Deletions \cup {0}
    <3> HIDE DEF k
    <3> QED BY <2>3, <2>4, <1>t DEF MirrorIsPast, TypeOK
  <2>6. \A r \in Records : /\ mirror'[r].version = mirror[r].version
                           /\ mirror'[r].shown = IF r = s THEN FALSE ELSE mirror[r].shown
    <3> HIDE DEF k, s
    <3> QED BY <2>2, <1>t DEF TypeOK, Row
  <2>7. Deletions' = Deletions /\ \A r : EventsOf(r)' = EventsOf(r)
    BY <2>2 DEF EventsOf, Deletions, RecordOf
  <2>8. EventsOf(s) \cap Deletions # {}
    BY <2>1
  <2> HIDE DEF k, s
  <2>9. ASSUME NEW r \in Records
        PROVE  /\ mirror'[r].version \in EventsOf(r)' \cup {0}
               /\ EventsOf(r)' \cap Deletions' = {} => mirror'[r].shown
    BY <1>t, <2>6, <2>7, <2>8 DEF MirrorIsPast
  <2>10. MirrorIsPast'
    BY <2>5, <2>7, <2>9 DEF MirrorIsPast
  <2> QED BY <2>6, <2>10
<1>4. ASSUME NEW q \in Requests, RequestStep(q), ~ArchiveOnArrival(q)
      PROVE  MirrorIsPast' /\ UNCHANGED mirror
  <2>1. ASSUME NEW batch \in SUBSET DOMAIN changes \ {{}}, NEW connected \in BOOLEAN,
               ReceiveBatch(q, batch, connected)
        PROVE  \E state : /\ UNCHANGED <<mirror, changes>> /\ state.archiving \in Deletions \cup {0}
                          /\ request' = [request EXCEPT ![q] = state]
    BY <2>1 DEF ReceiveBatch, NewRequest
  <2>2. ASSUME NEW n \in Event, JournalEvent(q, n)
        PROVE  \E state : /\ UNCHANGED <<mirror, changes>> /\ state.archiving \in Deletions \cup {0}
                          /\ request' = [request EXCEPT ![q] = state]
    <3> DEFINE accepts == journal[n] = "absent" /\ request[q].connected
               state == [request[q] EXCEPT
                           !.todo = @ \ {n},
                           !.mode = IF accepts THEN ModeWith(@, n) ELSE @,
                           !.archiving = IF accepts /\ n \in Deletions THEN n ELSE 0]
    <3>1. request[q] \in RequestState
      BY <1>t DEF TypeOK
    <3>2. state.archiving = IF accepts /\ n \in Deletions THEN n ELSE 0
      BY <3>1 DEF RequestState
    <3>3. request' = [request EXCEPT ![q] = state]
      BY <2>2 DEF JournalEvent
    <3>4. UNCHANGED <<mirror, changes>>
      BY <2>2 DEF JournalEvent
    <3> HIDE DEF accepts, state
    <3> QED BY <3>2, <3>3, <3>4
  <2>3. ASSUME NEW now \in 1 .. MaxBuckets, AddJob(q, now)
        PROVE  \E state : /\ UNCHANGED <<mirror, changes>> /\ state.archiving \in Deletions \cup {0}
                          /\ request' = [request EXCEPT ![q] = state]
    <3> DEFINE state == [request[q] EXCEPT !.phase = "marking"]
    <3>1. request[q] \in RequestState /\ request[q].archiving \in Deletions \cup {0}
      BY <1>t DEF TypeOK, MirrorIsPast
    <3>2. state.archiving = request[q].archiving
      BY <3>1 DEF RequestState
    <3>3. request' = [request EXCEPT ![q] = state] /\ UNCHANGED <<mirror, changes>>
      BY <2>3 DEF AddJob
    <3> HIDE DEF state
    <3> QED BY <3>1, <3>2, <3>3
  <2>4. ASSUME MarkQueued(q) \/ NothingToQueue(q) \/ RequestFails(q)
        PROVE  /\ UNCHANGED <<mirror, changes>> /\ IdleRequest.archiving = 0
               /\ request' = [request EXCEPT ![q] = IdleRequest]
    BY <2>4 DEF MarkQueued, NothingToQueue, RequestFails, Respond, IdleRequest, NewRequest
  <2>5. \E state : /\ UNCHANGED <<mirror, changes>> /\ state.archiving \in Deletions \cup {0}
                   /\ request' = [request EXCEPT ![q] = state]
    <3>1. CASE \E batch \in SUBSET DOMAIN changes \ {{}}, connected \in BOOLEAN :
                 ReceiveBatch(q, batch, connected)
      BY <2>1, <3>1
    <3>2. CASE MarkQueued(q) \/ NothingToQueue(q) \/ RequestFails(q)
      <4>1. IdleRequest.archiving \in Deletions \cup {0}
        BY <2>4, <3>2
      <4> QED BY <2>4, <3>2, <4>1
    <3> QED BY <1>4, <2>2, <2>3, <3>1, <3>2 DEF RequestStep
  <2> QED BY <1>2, <2>5
<1>5. ASSUME \/ \E r \in Records, action \in Actions : PortalChanges(r, action)
             \/ RecoveryStep
      PROVE  UNCHANGED <<mirror, request>>
  BY <1>5 DEF PortalChanges, RecoveryStep, SelectRetry, IgnoreEvents, RequeueSelection, intakeVars
<1>6. MirrorIsPast' /\ \A r \in Records : /\ mirror'[r].version = mirror[r].version
                                          /\ mirror'[r].shown => mirror[r].shown
  BY <1>1, <1>3, <1>4, <1>5
<1> QED BY <1>6, <1>j, OthersKeepMirror

\* A step of the only worker stores what is newest and completes what is mirrored.
LEMMA WorkerKeepsMirror ==
  ASSUME OneWorker, MirrorInv, HeldInv', Next, NEW w \in Workers, WorkerStep(w)
  PROVE  MirrorIsPast' /\ AnswersAreNewest' /\ WorkedOffIsMirrored' /\ CompletedAreMirrored'
<1> DEFINE run == worker[w]
           next == worker'[w]
<1>t. TypeInv /\ TypeOK /\ TypeInv' /\ MirrorIsPast /\ PhasesFit /\ PhasesFit'
  BY DEF MirrorInv, HeldInv, TypeInv
<1>w. /\ worker \in [Workers -> WorkerState] /\ run \in WorkerState
      /\ run.events \subseteq DOMAIN changes
  BY <1>t DEF TypeInv, TypeOK, EventsHaveHappened
<1>c. UNCHANGED <<changes, request>>
  BY Zenon DEF WorkerStep, TakeJob, ClaimWebhookEvents, ClaimFails, StartRun, StartFails,
     ArchiveDeleted, FetchRecord, RecordFails, StoreAnswer, CompleteEvents, FailEvents,
     CloseRun, RunAborts, WorkerDies, intakeVars
<1>s. /\ DOMAIN changes' = DOMAIN changes /\ Deletions' = Deletions
      /\ \A r : EventsOf(r)' = EventsOf(r)
      /\ \A k : RecordOf(k)' = RecordOf(k)
  BY <1>c DEF Deletions, EventsOf, RecordOf
<1>a. \A a \in run.answer :
        /\ a.record \in run.todo /\ a.record \in Records
        /\ a.version \in EventsOf(a.record) \cup {0}
        /\ IF a.found THEN a.version \notin Deletions
                      ELSE EventsOf(a.record) \cap Deletions # {}
        /\ mirror[a.record].version <= a.version
        /\ \A k \in EventsOf(a.record) :
             journal[k] = "completed" \/ k \in run.events => k <= a.version
  BY <1>w DEF MirrorInv, AnswersAreNewest, WorkerState, Answer
<1>m. ASSUME UNCHANGED mirror
      PROVE  MirrorIsPast' /\ \A k : IsMirrored(k)' = IsMirrored(k)
  BY <1>m, <1>c, <1>t DEF MirrorIsPast, IsMirrored, RecordOf, EventsOf, Deletions, LiveVersion
<1>n. ASSUME next.answer = {} PROVE AnswersAreNewest'
  BY <1>n DEF AnswersAreNewest, OneWorker
<1>o. ASSUME next.phase = "running" => \A k \in next.events :
               RecordOf(k) \notin next.todo \cup next.failed => IsMirrored(k)'
      PROVE  WorkedOffIsMirrored'
  BY <1>o, <1>s DEF WorkedOffIsMirrored, OneWorker
<1>j. ASSUME \A k \in Event : journal'[k] = "completed" => journal[k] = "completed",
             \A k \in DOMAIN changes : journal[k] = "completed" => IsMirrored(k)'
      PROVE  CompletedAreMirrored'
  BY <1>j, <1>s, <1>t, ChangeTypes DEF CompletedAreMirrored
<1>k. ASSUME NEW k \in run.events, run.phase = "running",
             RecordOf(k) \notin run.todo \cup run.failed
      PROVE  IsMirrored(k) /\ k \in DOMAIN changes
  BY <1>k, <1>w DEF MirrorInv, WorkedOffIsMirrored
<1>l. \A k \in DOMAIN changes : journal[k] = "completed" => IsMirrored(k)
  BY DEF MirrorInv, CompletedAreMirrored
\* A step that shows no record again, outside the given one, keeps what is mirrored.
<1>u. ASSUME NEW k \in DOMAIN changes, IsMirrored(k),
             mirror'[RecordOf(k)] = mirror[RecordOf(k)]
             \/ mirror'[RecordOf(k)] = [mirror[RecordOf(k)] EXCEPT !.shown = FALSE]
      PROVE  IsMirrored(k)'
  <2>1. mirror[RecordOf(k)] \in Row
    BY <1>t, ChangeTypes DEF TypeOK
  <2>2. mirror'[RecordOf(k)].version = mirror[RecordOf(k)].version
    BY <1>u, <2>1 DEF Row
  <2>3. mirror'[RecordOf(k)].shown => mirror[RecordOf(k)].shown
    BY <1>u, <2>1 DEF Row
  <2>4. mirror[RecordOf(k)].version <= mirror'[RecordOf(k)].version
    BY <2>1, <2>2, MaxChangesAssumption DEF Row
  <2> QED BY <1>u, <1>t, <2>3, <2>4, MirroredStays
<1>1. CASE \/ \E j \in Job : TakeJob(w, j)
           \/ \E events \in Claims : ClaimWebhookEvents(w, events)
           \/ ClaimFails(w) \/ StartFails(w) \/ FailEvents(w) \/ CloseRun(w)
           \/ RunAborts(w) \/ WorkerDies(w)
  <2>1. UNCHANGED mirror
    BY <1>1, Zenon DEF TakeJob, ClaimWebhookEvents, ClaimFails, StartFails, FailEvents,
                       CloseRun, RunAborts, WorkerDies
  <2>2. \A k \in Event : journal'[k] = "completed" => journal[k] = "completed"
    BY <1>1 DEF TakeJob, ClaimWebhookEvents, ClaimFails, StartFails, FailEvents, CloseRun,
                RunAborts, WorkerDies, SettleAsFailed, SetStatus
  <2>3. next.phase # "running"
    <3>1. IdleWorker.phase = "idle"
      BY DEF IdleWorker
    <3>2. ASSUME NEW j \in Job, TakeJob(w, j) PROVE next.phase = "taken"
      BY <1>w, <3>2 DEF TakeJob, IdleWorker
    <3>3. ASSUME NEW events \in Claims, ClaimWebhookEvents(w, events)
          PROVE  next.phase \in {"idle", "claimed"}
      BY <1>w, <3>1, <3>3 DEF ClaimWebhookEvents, RunEnds, WorkerState
    <3>4. CASE FailEvents(w)
      BY <1>w, <3>4 DEF FailEvents, WorkerState
    <3>5. CASE ClaimFails(w) \/ StartFails(w) \/ CloseRun(w) \/ RunAborts(w) \/ WorkerDies(w)
      BY <1>w, <3>1, <3>5 DEF ClaimFails, StartFails, CloseRun, RunAborts, WorkerDies, RunEnds
    <3> QED BY <1>1, <3>2, <3>3, <3>4, <3>5
  <2>4. next.answer = {}
    BY <1>t, <2>3 DEF PhasesFit
  <2> QED BY <1>m, <1>n, <1>o, <1>j, <1>l, <2>1, <2>2, <2>3, <2>4
<1>2. CASE StartRun(w)
  <2>1. UNCHANGED <<mirror, journal>> /\ run.answer = {}
    BY <1>2, <1>t DEF StartRun, PhasesFit
  <2>2. /\ next.events = run.events /\ next.answer = {}
        /\ next.todo = {RecordOf(k) : k \in run.events}
    BY <1>2, <1>w, <2>1 DEF StartRun, WorkerState
  <2>3. WorkedOffIsMirrored'
    BY <1>o, <2>2
  <2> QED BY <1>m, <1>n, <1>j, <1>l, <2>1, <2>2, <2>3
<1>3. ASSUME NEW r \in Records, ArchiveDeleted(w, r)
      PROVE  MirrorIsPast' /\ AnswersAreNewest' /\ WorkedOffIsMirrored' /\ CompletedAreMirrored'
  <2>1. /\ mirror' = [mirror EXCEPT ![r].shown = FALSE] /\ UNCHANGED journal
        /\ run.phase = "running" /\ run.answer = {}
        /\ next.events = run.events /\ next.failed = run.failed /\ next.answer = {}
        /\ next.todo = run.todo \ {r}
    BY <1>3, <1>w DEF ArchiveDeleted, Hidden, MayWorkOn, WorkerState
  <2>2. \A s \in Records : mirror'[s] = IF s = r THEN [mirror[r] EXCEPT !.shown = FALSE]
                                        ELSE mirror[s]
    BY <2>1, <1>t DEF TypeOK
  <2>3. EventsOf(r) \cap Deletions # {}
    BY <1>3, <1>w DEF ArchiveDeleted, DeletedInBatch, EventsOf
  <2>4. MirrorIsPast'
    BY <1>t, <1>s, <1>c, <2>2, <2>3 DEF MirrorIsPast, TypeOK, Row
  <2>5. ASSUME NEW k \in DOMAIN changes, IsMirrored(k) PROVE IsMirrored(k)'
    BY <1>u, <2>2, <2>5, <1>t, ChangeTypes
  <2>6. ASSUME NEW k \in run.events, RecordOf(k) \notin next.todo \cup next.failed
        PROVE  IsMirrored(k)'
    <3>1. CASE RecordOf(k) = r
      <4>1. k \in DOMAIN changes /\ mirror'[r].shown = FALSE
        BY <1>w, <1>t, <2>2 DEF TypeOK, Row
      <4> QED BY <3>1, <4>1, <2>3, <1>s DEF IsMirrored
    <3>2. CASE RecordOf(k) # r
      BY <1>k, <2>1, <2>5, <2>6, <3>2
    <3> QED BY <3>1, <3>2
  <2>7. WorkedOffIsMirrored'
    BY <1>o, <2>1, <2>6
  <2> QED BY <1>n, <1>j, <1>l, <2>1, <2>4, <2>5, <2>7
<1>4. ASSUME NEW r \in Records, FetchRecord(w, r)
      PROVE  MirrorIsPast' /\ AnswersAreNewest' /\ WorkedOffIsMirrored' /\ CompletedAreMirrored'
  <2> DEFINE a == [record |-> r, found |-> Exists(r), version |-> LiveVersion(r)]
  <2>1. /\ UNCHANGED <<mirror, journal>> /\ run.phase = "running" /\ r \in run.todo
        /\ next.events = run.events /\ next.failed = run.failed
        /\ next.todo = run.todo /\ next.answer = {a}
    BY <1>4, <1>w DEF FetchRecord, MayWorkOn, WorkerState
  <2>2. /\ LiveVersion(r) \in EventsOf(r) \cup {0}
        /\ \A k \in EventsOf(r) : k <= LiveVersion(r)
        /\ 0 <= LiveVersion(r)
    BY <1>t, LiveIsNewest, ChangeTypes, MaxChangesAssumption
  <2>3. mirror[r].version <= LiveVersion(r)
    BY <1>t, <2>2 DEF MirrorIsPast
  <2>4. IF Exists(r) THEN LiveVersion(r) \notin Deletions ELSE EventsOf(r) \cap Deletions # {}
    <3>1. 0 \notin Deletions
      BY <1>t, NextHistoryFits, <1>s DEF TypeInv, NoDeletionIsZero
    <3> QED BY <2>2, <3>1 DEF Exists
  <2>5. AnswersAreNewest'
    <3>1. /\ a.record = r /\ a.found = Exists(r) /\ a.version = LiveVersion(r)
      OBVIOUS
    <3> HIDE DEF a
    <3> QED BY <2>1, <2>2, <2>3, <2>4, <3>1, <1>s DEF AnswersAreNewest, OneWorker
  <2>6. WorkedOffIsMirrored'
    BY <1>o, <1>k, <1>m, <2>1
  <2> QED BY <1>m, <1>j, <1>l, <2>1, <2>5, <2>6
<1>5. ASSUME NEW r \in Records, RecordFails(w, r)
      PROVE  MirrorIsPast' /\ AnswersAreNewest' /\ WorkedOffIsMirrored' /\ CompletedAreMirrored'
  <2>1. /\ UNCHANGED <<mirror, journal>> /\ run.phase = "running"
        /\ next.events = run.events /\ next.failed = run.failed \cup {r}
        /\ next.todo = run.todo \ {r} /\ next.answer = {}
    BY <1>5, <1>w, <1>t DEF RecordFails, MayWorkOn, WorkerState, PhasesFit
  <2>2. WorkedOffIsMirrored'
    BY <1>o, <1>k, <1>m, <2>1
  <2> QED BY <1>m, <1>n, <1>j, <1>l, <2>1, <2>2
<1>6. CASE StoreAnswer(w)
  <2>1. PICK a \in run.answer :
          /\ mirror' = IF a.found
                         THEN [mirror EXCEPT ![a.record] = [version |-> a.version, shown |-> TRUE]]
                         ELSE [mirror EXCEPT ![a.record].shown = FALSE]
          /\ worker' = [worker EXCEPT ![w].answer = {}, ![w].todo = @ \ {a.record}]
          /\ UNCHANGED journal
    BY <1>6 DEF StoreAnswer, Hidden
  <2> DEFINE r == a.record
  <2>2. /\ r \in run.todo /\ r \in Records
        /\ a.version \in EventsOf(r) \cup {0}
        /\ IF a.found THEN a.version \notin Deletions ELSE EventsOf(r) \cap Deletions # {}
        /\ mirror[r].version <= a.version
        /\ \A k \in EventsOf(r) : journal[k] = "completed" \/ k \in run.events => k <= a.version
    BY <1>a
  <2>3. /\ run.phase = "running"
        /\ next.events = run.events /\ next.failed = run.failed
        /\ next.todo = run.todo \ {r} /\ next.answer = {}
    BY <1>t, <1>w, <2>1 DEF PhasesFit, WorkerState
  <2> HIDE DEF r
  <2>4. \A s \in Records \ {r} : mirror'[s] = mirror[s]
    BY <1>t, <2>1 DEF TypeOK, r
  <2>5. mirror'[r] = IF a.found THEN [version |-> a.version, shown |-> TRUE]
                     ELSE [mirror[r] EXCEPT !.shown = FALSE]
    BY <1>t, <2>1, <2>2 DEF TypeOK, r
  <2>6. MirrorIsPast'
    <3>1. /\ mirror'[r].version \in EventsOf(r) \cup {0}
          /\ EventsOf(r) \cap Deletions = {} => mirror'[r].shown
      BY <1>t, <2>2, <2>5 DEF MirrorIsPast, TypeOK, Row
    <3> QED BY <1>t, <1>s, <1>c, <2>4, <3>1 DEF MirrorIsPast
  \* What was claimed or completed before is not newer than the answer.
  <2>7. ASSUME NEW k \in EventsOf(r), journal[k] = "completed" \/ k \in run.events
        PROVE  IsMirrored(k)'
    <3>1. k <= a.version /\ RecordOf(k) = r /\ k \in DOMAIN changes /\ k \in Nat
      BY <1>t, <2>2, <2>7, ChangeTypes DEF EventsOf, Event
    <3>2. ASSUME k = LiveVersion(r), k \in Deletions PROVE ~mirror'[r].shown
      <4>1. CASE a.found
        <5>1. a.version <= k /\ a.version \in Nat
          BY <1>t, <2>2, <3>1, <3>2, LiveIsNewest, ChangeTypes, MaxChangesAssumption DEF EventsOf, Event
        <5>2. k = a.version
          BY <3>1, <5>1
        <5> QED BY <2>2, <3>2, <4>1, <5>2
      <4>2. CASE ~a.found
        BY <1>t, <2>2, <2>5, <4>2 DEF TypeOK, Row
      <4> QED BY <4>1, <4>2
    <3>3. ASSUME EventsOf(r) \cap Deletions = {} PROVE k <= mirror'[r].version
      BY <2>2, <2>5, <3>1, <3>3
    <3>4. LiveVersion(r)' = LiveVersion(r)
      BY <1>c DEF LiveVersion, EventsOf, RecordOf
    <3> QED BY <1>s, <3>1, <3>2, <3>3, <3>4 DEF IsMirrored
  <2>8. ASSUME NEW k \in DOMAIN changes, IsMirrored(k), RecordOf(k) # r PROVE IsMirrored(k)'
    <3>1. mirror'[RecordOf(k)] = mirror[RecordOf(k)]
      BY <1>t, <2>4, <2>8, ChangeTypes
    <3> QED BY <1>u, <2>8, <3>1
  <2>9. \A k \in DOMAIN changes : k \in EventsOf(r) \/ RecordOf(k) # r
    BY DEF EventsOf
  <2>10. \A k \in DOMAIN changes : journal[k] = "completed" => IsMirrored(k)'
    BY <1>l, <2>7, <2>8, <2>9
  <2>11. ASSUME NEW k \in run.events, RecordOf(k) \notin next.todo \cup next.failed
         PROVE  IsMirrored(k)'
    BY <1>k, <1>w, <2>3, <2>7, <2>8, <2>9, <2>11
  <2>12. WorkedOffIsMirrored'
    BY <1>o, <2>3, <2>11
  <2> QED BY <1>n, <1>j, <2>1, <2>3, <2>6, <2>10, <2>12
<1>7. CASE CompleteEvents(w)
  <2>1. /\ UNCHANGED mirror /\ run.phase = "running" /\ run.todo = {} /\ run.answer = {}
        /\ \A k \in Event : journal'[k] = IF k \in CompletedEvents(w) THEN "completed" ELSE journal[k]
    BY <1>7 DEF CompleteEvents, Finished, SetStatus
  <2>2. next.answer = {} /\ next.phase # "running"
    BY <1>7, <1>w, <2>1 DEF CompleteEvents, WorkerState
  <2>3. \A k \in CompletedEvents(w) : IsMirrored(k)
    BY <1>k, <2>1 DEF CompletedEvents, FailedEvents
  <2>4. CompletedAreMirrored'
    BY <1>l, <1>m, <1>s, <1>t, <2>1, <2>3, ChangeTypes DEF CompletedAreMirrored
  <2> QED BY <1>m, <1>n, <1>o, <2>1, <2>2, <2>4
<1> QED BY <1>1, <1>2, <1>3, <1>4, <1>5, <1>6, <1>7 DEF WorkerStep

\* Every step keeps the invariant.
LEMMA NextMirrorInv ==
  ASSUME OneWorker, MirrorInv, [Next]_vars PROVE MirrorInv'
<1>h. HeldInv' /\ TypeInv'
  BY NextHeldInv DEF MirrorInv, HeldInv
<1>1. CASE UNCHANGED vars
  <2>1. UNCHANGED <<changes, journal, mirror, request, worker>>
    BY <1>1 DEF vars, intakeVars, runVars
  <2>2. /\ Deletions' = Deletions /\ \A r : EventsOf(r)' = EventsOf(r)
        /\ \A k : RecordOf(k)' = RecordOf(k) /\ IsMirrored(k)' = IsMirrored(k)
    BY <2>1 DEF Deletions, EventsOf, RecordOf, IsMirrored, LiveVersion
  <2>3. MirrorIsPast' /\ AnswersAreNewest'
    BY <2>1, <2>2 DEF MirrorInv, MirrorIsPast, AnswersAreNewest
  <2>4. WorkedOffIsMirrored' /\ CompletedAreMirrored'
    BY <2>1, <2>2 DEF MirrorInv, WorkedOffIsMirrored, CompletedAreMirrored
  <2> QED BY <1>h, <2>3, <2>4 DEF MirrorInv
<1>2. CASE Next
  <2>1. ASSUME NEW r \in Records, NEW action \in Actions, PortalChanges(r, action)
        PROVE  UNCHANGED worker
    BY <2>1 DEF PortalChanges, runVars
  <2>2. ASSUME NEW q \in Requests, RequestStep(q) PROVE UNCHANGED worker
    BY <2>2 DEF RequestStep, ReceiveBatch, JournalEvent, ArchiveOnArrival, AddJob, MarkQueued,
                NothingToQueue, RequestFails, runVars
  <2>3. ASSUME RecoveryStep PROVE UNCHANGED worker
    BY <2>3 DEF RecoveryStep, SelectRetry, IgnoreEvents, RequeueSelection, runVars
  <2>4. CASE \E w \in Workers : WorkerStep(w)
    BY <1>2, <1>h, <2>4, WorkerKeepsMirror DEF MirrorInv
  <2>5. CASE \/ \E r \in Records, action \in Actions : PortalChanges(r, action)
             \/ \E q \in Requests : RequestStep(q)
             \/ RecoveryStep
    BY <1>2, <1>h, <2>1, <2>2, <2>3, <2>5, RequestsKeepMirror DEF MirrorInv
  <2> QED BY <1>2, <2>4, <2>5 DEF Next
<1> QED BY <1>1, <1>2

\* While one worker serves the queue, a completed event has reached the mirror: a
\* deletion that is the last word on its record has hidden it, and the mirror is not
\* behind a completed change of a record that was never deleted.
THEOREM MirroredCorrect ==
  ASSUME OneWorker PROVE Spec => []CompletedIsMirrored
<1>1. MirrorInv /\ [Next]_vars => MirrorInv'
  BY NextMirrorInv
<1>2. MirrorInv => CompletedIsMirrored
  <2> SUFFICES ASSUME MirrorInv, NEW k \in DOMAIN changes, journal[k] = "completed"
               PROVE  /\ IsMirrored(k)
                      /\ EventsOf(RecordOf(k)) \cap Deletions = {} => mirror[RecordOf(k)].shown
    BY DEF CompletedIsMirrored, IsMirrored
  <2>1. RecordOf(k) \in Records
    BY ChangeTypes DEF MirrorInv, HeldInv, TypeInv
  <2> QED BY <2>1 DEF MirrorInv, MirrorIsPast, CompletedAreMirrored
<1> QED BY InitMirrorInv, <1>1, <1>2, PTL DEF Spec
=============================================================================
