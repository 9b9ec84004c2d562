------------------------------ MODULE TaskQueue ------------------------------
(***************************************************************************)
(* The background scheduler of the doomsday server: the task queue         *)
(* (server/scheduler.go), the worker goroutines that drain it              *)
(* (server/task_worker.go), the run times they compute from the state of   *)
(* each Source (server/source.go), and the two producers of tasks, the     *)
(* startup code and the refresh endpoint (server/source_manager.go).       *)
(*                                                                         *)
(* Every critical section of taskQueue.lock is one action.  The slice      *)
(* taskQueue.data is re-sorted in every section that changes it, under an  *)
(* order made total by the task id, so it is a set here and data[0] is its *)
(* least element under Before.                                             *)
(***************************************************************************)
EXTENDS Integers, FiniteSets

CONSTANTS
  Workers,               \* the goroutines of taskQueue.start
  NumSources,            \* len(SourceManager.sources)
  NameOf,                \* Core.Name of each source; two may share one
  Interval,              \* Source.Interval of each source
  TTLs,                  \* what Authenticate may return as TTL
  MinAuthInterval,       \* shortest delay before the next authentication
  ExpiredRetryInterval,  \* delay once the authentication has expired
  Requests,              \* BOUND: the calls of POST /v1/cache/refresh
  StartTime,             \* the clock when the server starts
  Horizon,               \* BOUND: the clock stops here
  MaxTaskID,             \* BOUND: task ids stay below it
  None                   \* a nil *taskWorker, or no task

Sources == 1..NumSources

(* The zero time.Time.  Adding a configured interval to it still gives a   *)
(* time long before the server started (see TimeAssumption).               *)
ZeroTime == 0

(* storage.TTLInfinite: no other TTL has this value.                       *)
TTLInfinite == -1

ASSUME SizeAssumption ==
  /\ IsFiniteSet(Workers) /\ Workers # {}
  /\ NumSources \in Nat \ {0}
  /\ MaxTaskID \in Nat
  /\ None \notin Workers

ASSUME TimeAssumption ==
  /\ Interval \in [Sources -> Nat \ {0}]
  /\ TTLs \subseteq Nat \cup {TTLInfinite}
  /\ MinAuthInterval \in Nat \ {0}
  /\ ExpiredRetryInterval \in Nat \ {0}
  /\ StartTime \in Nat
  /\ Horizon \in Nat
  /\ \A s \in Sources : ZeroTime + Interval[s] < StartTime

VARIABLES
  now,         \* time.Now()
  boot,        \* how far BackgroundScheduler is: phase, source, its `now`
  data,        \* taskQueue.data
  running,     \* taskQueue.running
  nextTaskID,  \* taskQueue.nextTaskID
  timers,      \* the time.AfterFunc calls that have not fired
  pc,          \* where each worker is in consumeScheduler
  task,        \* the task each worker holds
  refreshed,   \* refreshStatus.LastRun.FinishedAt of each source
  auth,        \* authStatus and authTTL of each source
  request      \* the RefreshAll goroutine of each request

queueVars  == <<data, nextTaskID, timers>>
workerVars == <<running, pc, task>>
sourceVars == <<refreshed, auth>>
vars == <<now, boot, queueVars, workerVars, sourceVars, request>>

-----------------------------------------------------------------------------
(* Tasks.                                                                  *)

Kinds   == {"auth", "refresh"}
Reasons == {"scheduled", "adhoc"}
States  == {"pending", "ready", "skip"}

Task == [id : Nat, kind : Kinds, source : Sources, runTime : Nat,
         reason : Reasons, state : States, worker : Workers \cup {None}]

StateRank == [pending |-> 0, ready |-> 1, skip |-> 2]
KindRank  == [auth |-> 0, refresh |-> 1]

(* The order managerTasks.sort puts the queue in.                          *)
Before(t, u) ==
  \/ StateRank[t.state] > StateRank[u.state]
  \/ /\ t.state = u.state
     /\ \/ KindRank[t.kind] < KindRank[u.kind]
        \/ /\ t.kind = u.kind
           /\ \/ t.runTime < u.runTime
              \/ t.runTime = u.runTime /\ t.id < u.id

(* t is data[0].                                                           *)
IsHead(t) == t \in data /\ \A u \in data \ {t} : Before(t, u)

(* Faulty variant: tasks are the same when they are for the same Source.   *)
SameSource(t, u) == t.source = u.source /\ t.kind = u.kind

(* What makes two tasks "the same": the name of the source and the kind.   *)
Same(t, u) == NameOf[t.source] = NameOf[u.source] /\ t.kind = u.kind

SameTaskExistsAndReady(tasks, t) ==
  \E u \in tasks : Same(u, t) /\ u.state = "ready"

(* taskQueue.enqueue.  It inserts the task under the lock and arms its     *)
(* timer after unlocking; nobody can take a pending task out of the queue, *)
(* so nothing can be seen in between and the two are one step.             *)
Enqueue(kind, s, runTime, reason) ==
  /\ nextTaskID < MaxTaskID
  /\ nextTaskID' = nextTaskID + 1
  /\ data' = data \cup
       {[id |-> nextTaskID, kind |-> kind, source |-> s, runTime |-> runTime,
         reason |-> reason, state |-> "pending", worker |-> None]}
  /\ timers' = timers \cup {[id |-> nextTaskID, at |-> runTime]}

-----------------------------------------------------------------------------
(* The run times a Source asks for.                                        *)

(* The expiry in CalcNextAuth: the last successful authentication started  *)
(* a TTL before it.                                                        *)
AuthExpiry(a) == a.success + a.ttl

AuthInterval(a) ==
  LET half == (AuthExpiry(a) - a.finished) \div 2
  IN  IF half < MinAuthInterval THEN MinAuthInterval ELSE half

(* CalcNextAuth, for an authentication that is not infinite.               *)
CalcNextAuth(a) ==
  LET next == a.finished + AuthInterval(a)
  IN  IF next > AuthExpiry(a) THEN a.finished + ExpiredRetryInterval ELSE next

CalcNextRefresh(s) == refreshed[s] + Interval[s]

(* Source.Auth up to the call of Authenticate.                             *)
AuthStarted(a) == [a EXCEPT !.started = now, !.finished = ZeroTime]

(* Source.Auth after Authenticate failed, or returned ttl.                 *)
AuthFailed(a) == [a EXCEPT !.finished = now]
AuthSucceeded(a, ttl) ==
  [a EXCEPT !.finished = now, !.success = a.started, !.ttl = ttl]

-----------------------------------------------------------------------------
(* Startup: SourceManager.BackgroundScheduler, called by Start before it    *)
(* serves any request.                                                     *)

BootPhases ==
  {"auth", "authenticate", "refreshTask", "authTask", "serving", "failed"}

Init ==
  /\ now = StartTime
  /\ boot = [phase |-> "auth", source |-> 1, at |-> ZeroTime]
  /\ data = {} /\ running = {} /\ timers = {}
  /\ nextTaskID = 0
  /\ pc = [w \in Workers |-> "off"]
  /\ task = [w \in Workers |-> None]
  /\ refreshed = [s \in Sources |-> ZeroTime]
  /\ auth = [s \in Sources |-> [started |-> ZeroTime, finished |-> ZeroTime,
                                success |-> ZeroTime, ttl |-> 0]]
  /\ request = [r \in Requests |-> [at |-> ZeroTime, next |-> 0]]

(* The sources authenticate one after the other.                           *)
BootAuthBegin ==
  /\ boot.phase = "auth"
  /\ auth' = [auth EXCEPT ![boot.source] = AuthStarted(@)]
  /\ boot' = [boot EXCEPT !.phase = "authenticate"]
  /\ UNCHANGED <<now, queueVars, workerVars, refreshed, request>>

(* A failure ends the server before it has enqueued anything.              *)
BootAuthFail ==
  /\ boot.phase = "authenticate"
  /\ auth' = [auth EXCEPT ![boot.source] = AuthFailed(@)]
  /\ boot' = [boot EXCEPT !.phase = "failed"]
  /\ UNCHANGED <<now, queueVars, workerVars, refreshed, request>>

BootAuthSucceed ==
  /\ boot.phase = "authenticate"
  /\ \E ttl \in TTLs :
       auth' = [auth EXCEPT ![boot.source] = AuthSucceeded(@, ttl)]
  /\ boot' = IF boot.source < NumSources
             THEN [boot EXCEPT !.phase = "auth", !.source = @ + 1]
             ELSE [phase |-> "refreshTask", source |-> 1, at |-> now]
  /\ UNCHANGED <<now, queueVars, workerVars, refreshed, request>>

BootRefreshTask ==
  /\ boot.phase = "refreshTask"
  /\ Enqueue("refresh", boot.source, boot.at, "scheduled")
  /\ boot' = [boot EXCEPT !.phase = "authTask"]
  /\ UNCHANGED <<now, workerVars, sourceVars, request>>

(* The last source is followed by taskQueue.start.                         *)
BootAuthTask ==
  LET s == boot.source IN
  /\ boot.phase = "authTask"
  /\ IF auth[s].ttl = TTLInfinite
     THEN UNCHANGED queueVars
     ELSE Enqueue("auth", s, CalcNextAuth(auth[s]), "scheduled")
  /\ IF s < NumSources
     THEN /\ boot' = [boot EXCEPT !.phase = "refreshTask", !.source = s + 1]
          /\ UNCHANGED pc
     ELSE /\ boot' = [boot EXCEPT !.phase = "serving"]
          /\ pc' = [w \in Workers |-> "check"]
  /\ UNCHANGED <<now, running, task, sourceVars, request>>

-----------------------------------------------------------------------------
(* The function time.AfterFunc calls once a task is due.                   *)

(* Faulty variant: the signal is forgotten.                                *)
NoSignal == UNCHANGED pc

(* cond.Signal: one waiting worker, if there is one, competes for the lock *)
(* again and re-tests its loop condition.                                  *)
Signal ==
  LET waiting == {w \in Workers : pc[w] = "wait"} IN
  IF waiting = {} THEN UNCHANGED pc
  ELSE \E w \in waiting : pc' = [pc EXCEPT ![w] = "check"]

(* Faulty variant: the running tasks are not looked at.                    *)
MarkedIgnoringRunning(t) ==
  [t EXCEPT !.state = IF SameTaskExistsAndReady(data, t) THEN "skip" ELSE "ready"]

Marked(t) ==
  [t EXCEPT !.state = IF \/ SameTaskExistsAndReady(data, t)
                         \/ SameTaskExistsAndReady(running, t)
                      THEN "skip" ELSE "ready"]

(* Faulty variant: only a task that is ready is worth a signal.            *)
FireTimerSilentSkip(tm) ==
  /\ tm.at <= now
  /\ timers' = timers \ {tm}
  /\ data' = {IF t.id = tm.id THEN Marked(t) ELSE t : t \in data}
  /\ IF \E t \in data : t.id = tm.id /\ Marked(t).state = "ready"
     THEN Signal ELSE UNCHANGED pc
  /\ UNCHANGED <<now, boot, nextTaskID, running, task, sourceVars, request>>

(* When the task is gone the function returns without a signal.            *)
FireTimer(tm) ==
  /\ tm.at <= now
  /\ timers' = timers \ {tm}
  /\ data' = {IF t.id = tm.id THEN Marked(t) ELSE t : t \in data}
  /\ IF \E t \in data : t.id = tm.id THEN Signal ELSE UNCHANGED pc
  /\ UNCHANGED <<now, boot, nextTaskID, running, task, sourceVars, request>>

-----------------------------------------------------------------------------
(* A worker: consumeScheduler alternates runNext and scheduleNextRunOf.    *)
(*   check    about to take the lock and test the loop condition           *)
(*   wait     inside cond.Wait                                             *)
(*   start    holds a task that is in running, before its first change     *)
(*   exec     inside Authenticate or Populate                              *)
(*   remove   the run has returned, the task is still in running           *)
(*   removed  the task is out of running, before SetState(Idle)            *)
(*   resched  in scheduleNextRunOf, before the next run time is read       *)
(*   enqueue  holds the next task, before enqueue takes the lock           *)

PCs == {"off", "check", "wait", "start", "exec", "remove", "removed",
        "resched", "enqueue"}

(* data[0] is pending exactly when every task is.                          *)
Wait(w) ==
  /\ pc[w] = "check"
  /\ \A t \in data : t.state = "pending"
  /\ pc' = [pc EXCEPT ![w] = "wait"]
  /\ UNCHANGED <<now, boot, queueVars, running, task, sourceVars, request>>

(* Faulty variant: the loop condition only asks whether the queue is empty. *)
DequeueAny(w) ==
  /\ pc[w] = "check"
  /\ \E t \in data :
       /\ IsHead(t)
       /\ data' = data \ {t}
       /\ running' = running \cup {[t EXCEPT !.worker = w]}
       /\ task' = [task EXCEPT ![w] = [t EXCEPT !.worker = w]]
       /\ pc' = [pc EXCEPT ![w] = "start"]
  /\ UNCHANGED <<now, boot, nextTaskID, timers, sourceVars, request>>

(* dequeueNoLock, and what follows it up to the Unlock.                    *)
Dequeue(w) ==
  /\ pc[w] = "check"
  /\ \E t \in data :
       /\ IsHead(t)
       /\ t.state # "pending"
       /\ data' = data \ {t}
       /\ IF t.state = "skip"
          THEN /\ task' = [task EXCEPT ![w] = t]
               /\ pc' = [pc EXCEPT ![w] = "resched"]
               /\ UNCHANGED running
          ELSE LET ret == [t EXCEPT !.worker = w] IN
               /\ task' = [task EXCEPT ![w] = ret]
               /\ pc' = [pc EXCEPT ![w] = "start"]
               /\ running' = running \cup {ret}
  /\ UNCHANGED <<now, boot, nextTaskID, timers, sourceVars, request>>

(* Source.Refresh and Source.Auth replace LastRun before they call out, so *)
(* FinishedAt is the zero time while they run.                             *)
BeginRun(w) ==
  LET s == task[w].source IN
  /\ pc[w] = "start"
  /\ pc' = [pc EXCEPT ![w] = "exec"]
  /\ IF task[w].kind = "refresh"
     THEN refreshed' = [refreshed EXCEPT ![s] = ZeroTime] /\ UNCHANGED auth
     ELSE auth' = [auth EXCEPT ![s] = AuthStarted(@)] /\ UNCHANGED refreshed
  /\ UNCHANGED <<now, boot, queueVars, running, task, request>>

(* Faulty variant: a refresh that fails returns before FinishedAt is set.  *)
FinishRunEarlyReturn(w) ==
  LET s == task[w].source IN
  /\ pc[w] = "exec"
  /\ pc' = [pc EXCEPT ![w] = "remove"]
  /\ IF task[w].kind = "refresh"
     THEN /\ refreshed' \in {refreshed, [refreshed EXCEPT ![s] = now]}
          /\ UNCHANGED auth
     ELSE /\ auth' = [auth EXCEPT ![s] = AuthFailed(@)]
          /\ UNCHANGED refreshed
  /\ UNCHANGED <<now, boot, queueVars, running, task, request>>

(* What Populate returns changes nothing that is modelled here.            *)
FinishRun(w) ==
  LET s == task[w].source IN
  /\ pc[w] = "exec"
  /\ pc' = [pc EXCEPT ![w] = "remove"]
  /\ IF task[w].kind = "refresh"
     THEN refreshed' = [refreshed EXCEPT ![s] = now] /\ UNCHANGED auth
     ELSE /\ \E result \in {AuthFailed(auth[s])} \cup
                           {AuthSucceeded(auth[s], ttl) : ttl \in TTLs} :
               auth' = [auth EXCEPT ![s] = result]
          /\ UNCHANGED refreshed
  /\ UNCHANGED <<now, boot, queueVars, running, task, request>>

(* deleteTaskWithID under the lock.                                        *)
Remove(w) ==
  /\ pc[w] = "remove"
  /\ running' = {t \in running : t.id # task[w].id}
  /\ pc' = [pc EXCEPT ![w] = "removed"]
  /\ UNCHANGED <<now, boot, queueVars, task, sourceVars, request>>

SetIdle(w) ==
  /\ pc[w] = "removed"
  /\ pc' = [pc EXCEPT ![w] = "resched"]
  /\ UNCHANGED <<now, boot, queueVars, running, task, sourceVars, request>>

(* Faulty variants: a skipped task ends its chain; a task is followed by   *)
(* another only if it was skipped.                                         *)
SkipIsLast(t) ==
  \/ t.reason = "adhoc" \/ t.state = "skip"
  \/ t.kind = "auth" /\ auth[t.source].ttl = TTLInfinite

RunIsLast(t) == t.reason = "adhoc" \/ t.state = "ready"

(* An adhoc task, and an authentication that lasts for ever, is not        *)
(* followed by another one.                                                *)
LastOfItsChain(t) ==
  \/ t.reason = "adhoc"
  \/ t.kind = "auth" /\ auth[t.source].ttl = TTLInfinite

NextRunTime(t) ==
  IF t.kind = "auth" THEN CalcNextAuth(auth[t.source])
                     ELSE CalcNextRefresh(t.source)

(* scheduleNextRunOf reads the source under its lock, then enqueues.       *)
StopChain(w) ==
  /\ pc[w] = "resched"
  /\ LastOfItsChain(task[w])
  /\ task' = [task EXCEPT ![w] = None]
  /\ pc' = [pc EXCEPT ![w] = "check"]
  /\ UNCHANGED <<now, boot, queueVars, running, sourceVars, request>>

ComputeNext(w) ==
  /\ pc[w] = "resched"
  /\ ~LastOfItsChain(task[w])
  /\ task' = [task EXCEPT ![w].runTime = NextRunTime(task[w])]
  /\ pc' = [pc EXCEPT ![w] = "enqueue"]
  /\ UNCHANGED <<now, boot, queueVars, running, sourceVars, request>>

EnqueueNext(w) ==
  LET t == task[w] IN
  /\ pc[w] = "enqueue"
  /\ Enqueue(t.kind, t.source, t.runTime, "scheduled")
  /\ task' = [task EXCEPT ![w] = None]
  /\ pc' = [pc EXCEPT ![w] = "check"]
  /\ UNCHANGED <<now, boot, running, sourceVars, request>>

WorkerStep(w) ==
  \/ Wait(w) \/ Dequeue(w) \/ BeginRun(w) \/ FinishRun(w) \/ Remove(w)
  \/ SetIdle(w) \/ StopChain(w) \/ ComputeNext(w) \/ EnqueueNext(w)

-----------------------------------------------------------------------------
(* POST /v1/cache/refresh starts a goroutine in RefreshAll, which reads    *)
(* the clock once and enqueues one task for each source.                   *)

RefreshAllBegin(r) ==
  /\ boot.phase = "serving"
  /\ request[r].next = 0
  /\ request' = [request EXCEPT ![r] = [at |-> now, next |-> 1]]
  /\ UNCHANGED <<now, boot, queueVars, workerVars, sourceVars>>

(* Faulty variant: one source too many.                                    *)
RefreshAllOneMore(r) ==
  LET s == request[r].next IN
  /\ s \in 1..(NumSources + 1)
  /\ Enqueue("refresh", s, request[r].at, "adhoc")
  /\ request' = [request EXCEPT ![r].next = s + 1]
  /\ UNCHANGED <<now, boot, workerVars, sourceVars>>

RefreshAllEnqueue(r) ==
  LET s == request[r].next IN
  /\ s \in Sources
  /\ Enqueue("refresh", s, request[r].at, "adhoc")
  /\ request' = [request EXCEPT ![r].next = s + 1]
  /\ UNCHANGED <<now, boot, workerVars, sourceVars>>

-----------------------------------------------------------------------------
Tick ==
  /\ boot.phase # "failed"
  /\ now < Horizon
  /\ now' = now + 1
  /\ UNCHANGED <<boot, queueVars, workerVars, sourceVars, request>>

(* Where the bounds end the model, or a failed startup the server: nothing *)
(* is left to do by the horizon, or there are no ids left.                 *)
AtBound ==
  \/ boot.phase = "failed"
  \/ nextTaskID = MaxTaskID
  \/ /\ now = Horizon
     /\ \A t \in data : t.state = "pending" /\ t.runTime > now
     /\ \A w \in Workers : pc[w] = "wait"

Stop == AtBound /\ UNCHANGED vars

BootStep ==
  \/ BootAuthBegin \/ BootAuthFail \/ BootAuthSucceed
  \/ BootRefreshTask \/ BootAuthTask

Next ==
  \/ BootStep
  \/ \E tm \in timers : FireTimer(tm)
  \/ \E w \in Workers : WorkerStep(w)
  \/ \E r \in Requests : RefreshAllBegin(r) \/ RefreshAllEnqueue(r)
  \/ Tick
  \/ Stop

Spec == Init /\ [][Next]_vars

(* Go runs every goroutine that can proceed and every timer that is due,   *)
(* the clock advances, and a backend answers or fails in the end.          *)
Fairness ==
  /\ WF_vars(BootStep)
  /\ WF_vars(Tick)
  /\ \A id \in 0..(MaxTaskID - 1) :
       WF_vars(\E tm \in timers : tm.id = id /\ FireTimer(tm))
  /\ \A w \in Workers : WF_vars(WorkerStep(w))
  /\ \A r \in Requests : WF_vars(RefreshAllEnqueue(r))

FairSpec == Spec /\ Fairness

-----------------------------------------------------------------------------
(* What GET /v1/scheduler reports: taskQueue.dumpState.                    *)

(* Faulty variant: SetState(Scheduling) follows the delete.                *)
LateScheduling(w) ==
  IF pc[w] \in {"start", "exec", "remove", "removed"} THEN "running" ELSE "idle"

(* The state each worker announces with SetState.                          *)
WorkerState(w) ==
  CASE pc[w] \in {"start", "exec"}     -> "running"
    [] pc[w] \in {"remove", "removed"} -> "scheduling"
    [] OTHER                           -> "idle"

DumpState ==
  [running |-> {[id |-> t.id, worker |-> t.worker] : t \in running},
   pending |-> {[id |-> t.id, worker |-> None] : t \in data},
   workers |-> [w \in Workers |-> WorkerState(w)]]

-----------------------------------------------------------------------------
(* Properties.                                                             *)

AuthRecord == [started : Nat, finished : Nat, success : Nat,
               ttl : Nat \cup {TTLInfinite}]

(* Every variable holds values of its Go type (time is a natural number).  *)
TypeOK ==
  /\ now \in Nat
  /\ boot \in [phase : BootPhases, source : Sources, at : Nat]
  /\ data \subseteq Task /\ running \subseteq Task
  /\ nextTaskID \in Nat
  /\ timers \subseteq [id : Nat, at : Nat]
  /\ pc \in [Workers -> PCs]
  /\ task \in [Workers -> Task \cup {None}]
  /\ refreshed \in [Sources -> Nat]
  /\ auth \in [Sources -> AuthRecord]
  /\ request \in [Requests -> [at : Nat, next : 0..(NumSources + 1)]]

(* No two workers are ever inside a run of the same kind for sources of    *)
(* the same name.  Source.Refresh relies on it: it reads the old cache     *)
(* before Populate and applies the difference to the global cache after.   *)
ExclusiveRun ==
  \A v, w \in Workers :
    v # w /\ pc[v] = "exec" /\ pc[w] = "exec" => ~Same(task[v], task[w])

(* The scheduler implements exclusive runs: a run lasts while a worker is  *)
(* inside Authenticate or Populate.                                        *)
JobOf(t) == <<NameOf[t.source], t.kind>>

Runs == INSTANCE ExclusiveRuns WITH
  Jobs <- {NameOf[s] : s \in Sources} \X Kinds,
  runs <- {<<w, JobOf(task[w])>> : w \in {v \in Workers : pc[v] = "exec"}}

(* Every step of the scheduler begins one run that nothing else is doing,  *)
(* ends one, or changes no run.                                            *)
ImplementsExclusiveRuns == Runs!Spec

(* A task is pending exactly while its timer is armed, for its run time:   *)
(* no task is left in the queue with nothing to make it ready, and the     *)
(* "removed pre-emptively" branch of the timer is never taken.             *)
TimersMatchPending ==
  timers = {[id |-> t.id, at |-> t.runTime] :
              t \in {u \in data : u.state = "pending"}}

(* A worker stays in cond.Wait only if the workers that are about to look  *)
(* at the queue are as many as the tasks they can take: one Signal for     *)
(* each timer is enough.                                                   *)
NoLostWakeup ==
  (\E w \in Workers : pc[w] = "wait") =>
    Cardinality({t \in data : t.state # "pending"})
      <= Cardinality({w \in Workers : pc[w] = "check"})

Busy == PCs \ {"off", "check", "wait"}

(* The scheduled tasks of a kind for s: queued, running or being replaced. *)
ChainIDs(kind, s) ==
  {t.id : t \in {u \in data \cup {task[w] : w \in {x \in Workers :
                                                   pc[x] \in Busy}} :
                   u.kind = kind /\ u.source = s /\ u.reason = "scheduled"}}

(* Each source keeps exactly one scheduled refresh alive for ever: however *)
(* adhoc runs, skips and reschedules interleave, its periodic refresh is   *)
(* neither lost nor doubled.  So does its authentication, unless it lasts  *)
(* for ever.                                                               *)
ChainsIntact ==
  boot.phase = "serving" =>
    \A s \in Sources :
      /\ Cardinality(ChainIDs("refresh", s)) = 1
      /\ Cardinality(ChainIDs("auth", s)) <= 1
      /\ auth[s].ttl # TTLInfinite => Cardinality(ChainIDs("auth", s)) = 1

(* What a client sees of the scheduler agrees with itself: a worker is     *)
(* named by at most one running task, it is named by one when it says it   *)
(* is running, by none when it says it is idle, and no task is listed      *)
(* twice.                                                                  *)
DumpConsistent ==
  LET d == DumpState
      tasksOf(w) == {t \in d.running : t.worker = w}
  IN  /\ \A w \in Workers :
           /\ Cardinality(tasksOf(w)) <= 1
           /\ d.workers[w] = "running" => tasksOf(w) # {}
           /\ d.workers[w] = "idle" => tasksOf(w) = {}
      /\ Cardinality({t.id : t \in d.running \cup d.pending})
           = Cardinality(running) + Cardinality(data)

(* The refresh that follows a scheduled refresh is an Interval later, as   *)
(* the configuration says, also when it comes due while another worker is  *)
(* refreshing the source: LastRun has a start and no end then. (The first  *)
(* scheduled refresh, due at startup, is left aside: before it there is no *)
(* run for LastRun to tell of.)                                            *)
RefreshSpacing ==
  [][\A v, w \in Workers :
       /\ ComputeNext(w) /\ task[w].kind = "refresh" /\ task[w].runTime > boot.at
       /\ pc[v] = "exec" /\ task[v].kind = "refresh"
       /\ task[v].source = task[w].source
       => task'[w].runTime >= task[w].runTime + Interval[task[w].source]]_vars

(* Nothing else shortens the spacing: a scheduled refresh that was run,     *)
(* whether Populate failed or not, comes again an Interval later, unless a *)
(* request is refreshing the same source when its next time is read        *)
(* (source.go:41-45, 118-123).                                             *)
SpacedUnlessRequested ==
  [][\A w \in Workers :
       /\ ComputeNext(w) /\ task[w].kind = "refresh" /\ task[w].state = "ready"
       /\ \A v \in Workers : pc[v] = "exec" /\ task[v].kind = "refresh" =>
                              task[v].source # task[w].source
       => task'[w].runTime >= task[w].runTime + Interval[task[w].source]]_vars

OutOfIDs == nextTaskID = MaxTaskID

(* Every task that is ready, or to be skipped, is taken by a worker.       *)
QueueDrains ==
  \A id \in 0..(MaxTaskID - 1) :
    (\E t \in data : t.id = id /\ t.state # "pending")
      ~> (OutOfIDs \/ ~\E t \in data : t.id = id)

(* A refresh request may be dropped, but not for long: for every source    *)
(* some refresh finishes after the request came, at the latest with the    *)
(* scheduled refresh that is due within an Interval.                       *)
RequestServed ==
  \A r \in Requests, s \in Sources :
    (request[r].next > 0 /\ request[r].at + Interval[s] <= Horizon)
      ~> (OutOfIDs \/ refreshed[s] >= request[r].at)
=============================================================================
