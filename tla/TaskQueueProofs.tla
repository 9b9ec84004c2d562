-------------------------- MODULE TaskQueueProofs --------------------------
(***************************************************************************)
(* Proofs about TaskQueue for every number of workers, sources, requests   *)
(* and tasks: its type invariant, then the inductive invariant from which  *)
(* the exclusion of runs, the timers and the wake-ups follow, and on top   *)
(* of it the reports, the chains of scheduled tasks and their spacing.     *)
(***************************************************************************)
EXTENDS TaskQueue, TLAPS, FiniteSetTheorems

(* A worker that is not about to take a task, or waiting for one, holds    *)
(* one.  TypeOK is not inductive without this.                             *)
Holds == \A w \in Workers : pc[w] \in Busy => task[w] \in Task

TypeInv == TypeOK /\ Holds

-----------------------------------------------------------------------------
(* The times a Source computes are times.                                  *)

LEMMA CalcNextAuthType ==
  ASSUME NEW a \in AuthRecord
  PROVE  CalcNextAuth(a) \in Nat
<1> DEFINE half == (AuthExpiry(a) - a.finished) \div 2
<1>1. a.finished \in Nat /\ AuthExpiry(a) \in Int
  BY DEF AuthRecord, AuthExpiry, TTLInfinite
<1>2. half \in Int
  BY <1>1
<1>3. MinAuthInterval \in Nat /\ ExpiredRetryInterval \in Nat
  BY TimeAssumption
<1> HIDE DEF half
<1>4. (IF half < MinAuthInterval THEN MinAuthInterval ELSE half) \in Nat
  BY <1>2, <1>3
<1>5. AuthInterval(a) \in Nat
  BY <1>4 DEF AuthInterval, half
<1> QED
  BY <1>1, <1>3, <1>5 DEF CalcNextAuth

LEMMA CalcNextRefreshType ==
  ASSUME TypeOK, NEW s \in Sources
  PROVE  CalcNextRefresh(s) \in Nat
BY TimeAssumption DEF TypeOK, CalcNextRefresh

LEMMA EnqueueType ==
  ASSUME TypeOK, NEW kind \in Kinds, NEW s \in Sources, NEW runTime \in Nat,
         NEW reason \in Reasons, Enqueue(kind, s, runTime, reason)
  PROVE  data' \subseteq Task /\ nextTaskID' \in Nat
           /\ timers' \subseteq [id : Nat, at : Nat]
BY DEF TypeOK, Enqueue, Task, States

LEMMA AuthStartedType ==
  ASSUME now \in Nat, NEW a \in AuthRecord
  PROVE  AuthStarted(a) \in AuthRecord /\ AuthFailed(a) \in AuthRecord
BY DEF AuthStarted, AuthFailed, AuthRecord, ZeroTime

LEMMA AuthSucceededType ==
  ASSUME now \in Nat, NEW a \in AuthRecord, NEW ttl \in TTLs
  PROVE  AuthSucceeded(a, ttl) \in AuthRecord
BY TimeAssumption DEF AuthSucceeded, AuthRecord

LEMMA NextSource ==
  /\ 1 \in Sources
  /\ \A s \in Sources : s < NumSources => s + 1 \in Sources
  /\ \A s \in Sources : s + 1 \in 0..(NumSources + 1)
BY SizeAssumption DEF Sources

-----------------------------------------------------------------------------
(* Every variable keeps its type.                                          *)

LEMMA TypeInit == Init => TypeInv
BY SizeAssumption, TimeAssumption
   DEF Init, TypeInv, TypeOK, Holds, Busy, PCs, BootPhases, Sources, AuthRecord,
       ZeroTime, Task

LEMMA TypeStep == TypeInv /\ [Next]_vars => TypeInv'
<1> SUFFICES ASSUME TypeInv, [Next]_vars PROVE TypeInv'
  OBVIOUS
<1> USE DEF TypeInv, queueVars, workerVars, sourceVars
<1>1. CASE BootAuthBegin
  <2>1. AuthStarted(auth[boot.source]) \in AuthRecord
    BY AuthStartedType DEF TypeOK
  <2> QED
    BY <1>1, <2>1 DEF BootAuthBegin, TypeOK, Holds, BootPhases
<1>2. CASE BootAuthFail
  <2>1. AuthFailed(auth[boot.source]) \in AuthRecord
    BY AuthStartedType DEF TypeOK
  <2> QED
    BY <1>2, <2>1 DEF BootAuthFail, TypeOK, Holds, BootPhases
<1>3. CASE BootAuthSucceed
  <2>1. \A ttl \in TTLs : AuthSucceeded(auth[boot.source], ttl) \in AuthRecord
    BY AuthSucceededType DEF TypeOK
  <2>2. auth' \in [Sources -> AuthRecord]
    BY <1>3, <2>1 DEF BootAuthSucceed, TypeOK
  <2>3. boot' \in [phase : BootPhases, source : Sources, at : Nat]
    BY <1>3, NextSource DEF BootAuthSucceed, TypeOK, BootPhases
  <2> QED
    BY <1>3, <2>2, <2>3 DEF BootAuthSucceed, TypeOK, Holds
<1>4. CASE BootRefreshTask
  BY <1>4, EnqueueType
     DEF BootRefreshTask, TypeOK, Holds, BootPhases, Kinds, Reasons
<1>5. CASE BootAuthTask
  <2>1. CalcNextAuth(auth[boot.source]) \in Nat
    BY CalcNextAuthType DEF TypeOK
  <2>2. data' \subseteq Task /\ nextTaskID' \in Nat
          /\ timers' \subseteq [id : Nat, at : Nat]
    BY <1>5, <2>1, EnqueueType DEF BootAuthTask, TypeOK, Kinds, Reasons
  <2>3. boot' \in [phase : BootPhases, source : Sources, at : Nat]
    BY <1>5, NextSource DEF BootAuthTask, TypeOK, BootPhases
  <2>4. pc' \in [Workers -> PCs]
          /\ \A w \in Workers : pc'[w] \in Busy => pc[w] \in Busy
    BY <1>5 DEF BootAuthTask, TypeOK, PCs, Busy
  <2> QED
    BY <1>5, <2>2, <2>3, <2>4 DEF BootAuthTask, TypeOK, Holds
<1>6. ASSUME NEW tm \in timers, FireTimer(tm) PROVE TypeInv'
  BY <1>6 DEF FireTimer, Signal, Marked, TypeOK, Holds, Task, States, PCs, Busy
<1>7. ASSUME NEW w \in Workers, Wait(w) PROVE TypeInv'
  BY <1>7 DEF Wait, TypeOK, Holds, PCs, Busy
<1>8. ASSUME NEW w \in Workers, Dequeue(w) PROVE TypeInv'
  BY <1>8 DEF Dequeue, TypeOK, Holds, Task, PCs, Busy
<1>9. ASSUME NEW w \in Workers, BeginRun(w) PROVE TypeInv'
  <2>1. task[w] \in Task
    BY <1>9 DEF BeginRun, Holds, PCs, Busy
  <2>2. AuthStarted(auth[task[w].source]) \in AuthRecord
    BY <2>1, AuthStartedType DEF TypeOK, Task
  <2>3. auth' \in [Sources -> AuthRecord] /\ refreshed' \in [Sources -> Nat]
    BY <1>9, <2>2 DEF BeginRun, TypeOK, ZeroTime
  <2> QED
    BY <1>9, <2>3 DEF BeginRun, TypeOK, Holds, PCs, Busy
<1>10. ASSUME NEW w \in Workers, FinishRun(w) PROVE TypeInv'
  <2>1. task[w] \in Task
    BY <1>10 DEF FinishRun, Holds, PCs, Busy
  <2>2. /\ AuthFailed(auth[task[w].source]) \in AuthRecord
        /\ \A ttl \in TTLs :
             AuthSucceeded(auth[task[w].source], ttl) \in AuthRecord
    BY <2>1, AuthStartedType, AuthSucceededType DEF TypeOK, Task
  <2>3. auth' \in [Sources -> AuthRecord] /\ refreshed' \in [Sources -> Nat]
    BY <1>10, <2>2 DEF FinishRun, TypeOK
  <2> QED
    BY <1>10, <2>3 DEF FinishRun, TypeOK, Holds, PCs, Busy
<1>11. ASSUME NEW w \in Workers, Remove(w) PROVE TypeInv'
  BY <1>11 DEF Remove, TypeOK, Holds, PCs, Busy
<1>12. ASSUME NEW w \in Workers, SetIdle(w) PROVE TypeInv'
  BY <1>12 DEF SetIdle, TypeOK, Holds, PCs, Busy
<1>13. ASSUME NEW w \in Workers, StopChain(w) PROVE TypeInv'
  BY <1>13 DEF StopChain, TypeOK, Holds, PCs, Busy
<1>14. ASSUME NEW w \in Workers, ComputeNext(w) PROVE TypeInv'
  BY <1>14, CalcNextAuthType, CalcNextRefreshType
     DEF ComputeNext, NextRunTime, TypeOK, Holds, Task, PCs, Busy
<1>15. ASSUME NEW w \in Workers, EnqueueNext(w) PROVE TypeInv'
  BY <1>15, EnqueueType
     DEF EnqueueNext, TypeOK, Holds, Task, Reasons, PCs, Busy
<1>16. ASSUME NEW r \in Requests, RefreshAllBegin(r) PROVE TypeInv'
  BY <1>16, SizeAssumption DEF RefreshAllBegin, TypeOK, Holds
<1>17. ASSUME NEW r \in Requests, RefreshAllEnqueue(r) PROVE TypeInv'
  <2>1. request[r] \in [at : Nat, next : 0..(NumSources + 1)]
    BY DEF TypeOK
  <2>2. data' \subseteq Task /\ nextTaskID' \in Nat
          /\ timers' \subseteq [id : Nat, at : Nat]
    BY <1>17, <2>1, EnqueueType DEF RefreshAllEnqueue, Kinds, Reasons
  <2>3. request' \in [Requests -> [at : Nat, next : 0..(NumSources + 1)]]
    BY <1>17, <2>1, NextSource DEF RefreshAllEnqueue, TypeOK
  <2> QED
    BY <1>17, <2>2, <2>3 DEF RefreshAllEnqueue, TypeOK, Holds
<1>18. CASE Tick
  BY <1>18 DEF Tick, TypeOK, Holds
<1>19. CASE UNCHANGED vars
  BY <1>19 DEF vars, TypeOK, Holds
<1> QED
  BY <1>1, <1>2, <1>3, <1>4, <1>5, <1>6, <1>7, <1>8, <1>9, <1>10, <1>11, <1>12,
     <1>13, <1>14, <1>15, <1>16, <1>17, <1>18, <1>19
     DEF Next, BootStep, WorkerStep, Stop

LEMMA TypeInvariant == Spec => []TypeInv
BY TypeInit, TypeStep, PTL DEF Spec

(* Every variable keeps the type the code declares for it; in particular   *)
(* no run time the sources compute is before the zero time.                *)
THEOREM TypeCorrect == Spec => []TypeOK
BY TypeInvariant, PTL DEF TypeInv

-----------------------------------------------------------------------------
(* The inductive invariant.  Exclusion is decided when a timer fires, by   *)
(* looking at the tasks that are ready in data and running; it is needed   *)
(* when a worker runs.  OneReady carries it from one to the other, and     *)
(* RunningTasks ties the list running to what the workers do.              *)

InRunning == {"start", "exec", "remove"}

Queued == data \cup running

UniqueIDs ==
  /\ \A t \in Queued : t.id < nextTaskID
  /\ \A t, u \in Queued : t.id = u.id => t = u
  /\ data \cap running = {}

RunningTasks ==
  /\ \A t \in running :
       /\ t.state = "ready" /\ t.worker \in Workers
       /\ pc[t.worker] \in InRunning /\ task[t.worker] = t
  /\ \A w \in Workers :
       pc[w] \in InRunning => task[w] \in running /\ task[w].worker = w

OneReady ==
  \A t, u \in Queued :
    t.state = "ready" /\ u.state = "ready" /\ Same(t, u) => t = u

StartedLast ==
  boot.phase # "serving" => \A w \in Workers : pc[w] = "off"

QueueInv == UniqueIDs /\ RunningTasks /\ OneReady /\ TimersMatchPending

IInv == TypeInv /\ StartedLast /\ QueueInv

(* The steps that leave the queue alone, and change neither which workers  *)
(* have a task in running nor that task.                                   *)
SameRunners ==
  \A w \in Workers :
    /\ pc'[w] \in InRunning <=> pc[w] \in InRunning
    /\ pc[w] \in InRunning => task'[w] = task[w]

LEMMA QueueFrame ==
  ASSUME TypeInv, QueueInv, SameRunners, UNCHANGED <<queueVars, running>>
  PROVE  QueueInv'
<1> USE DEF queueVars
<1>1. UniqueIDs'
  BY DEF QueueInv, UniqueIDs, Queued
<1>2. RunningTasks'
  BY DEF QueueInv, RunningTasks, SameRunners
<1>3. OneReady'
  BY DEF QueueInv, OneReady, Queued, Same
<1>4. TimersMatchPending'
  BY DEF QueueInv, TimersMatchPending
<1> QED
  BY <1>1, <1>2, <1>3, <1>4 DEF QueueInv

(* A new task is pending and has an id of its own.                         *)
LEMMA QueueEnqueue ==
  ASSUME TypeInv, QueueInv, SameRunners, UNCHANGED running,
         NEW kind, NEW s, NEW runTime, NEW reason,
         Enqueue(kind, s, runTime, reason)
  PROVE  QueueInv'
<1> DEFINE new == [id |-> nextTaskID, kind |-> kind, source |-> s,
                   runTime |-> runTime, reason |-> reason,
                   state |-> "pending", worker |-> None]
<1>1. /\ data' = data \cup {new} /\ nextTaskID' = nextTaskID + 1
      /\ timers' = timers \cup {[id |-> nextTaskID, at |-> runTime]}
      /\ Queued' = Queued \cup {new}
  BY DEF Enqueue, Queued
<1>2. new.id = nextTaskID /\ new.state = "pending" /\ new.runTime = runTime
  OBVIOUS
<1>3. nextTaskID \in Nat /\ \A t \in Queued : t.id \in Nat
  BY DEF TypeInv, TypeOK, Queued, Task
<1> HIDE DEF new
<1>4. UniqueIDs'
  BY <1>1, <1>2, <1>3 DEF QueueInv, UniqueIDs, Queued
<1>5. RunningTasks'
  BY DEF QueueInv, RunningTasks, SameRunners
<1>6. OneReady'
  BY <1>1, <1>2 DEF QueueInv, OneReady, Same
<1>7. TimersMatchPending'
  BY <1>1, <1>2 DEF QueueInv, TimersMatchPending
<1> QED
  BY <1>4, <1>5, <1>6, <1>7 DEF QueueInv

(* A timer marks the one task it was armed for.                            *)
LEMMA FireMarks ==
  ASSUME TypeInv, QueueInv, NEW tm \in timers, FireTimer(tm)
  PROVE  \E t \in data :
           /\ t.state = "pending" /\ tm = [id |-> t.id, at |-> t.runTime]
           /\ data' = (data \ {t}) \cup {Marked(t)}
           /\ Signal
<1> PICK t \in data : t.state = "pending" /\ tm = [id |-> t.id, at |-> t.runTime]
  BY DEF QueueInv, TimersMatchPending
<1>1. \A u \in data : u.id = tm.id <=> u = t
  BY DEF QueueInv, UniqueIDs, Queued
<1> QED
  BY <1>1 DEF FireTimer

LEMMA QueueFire ==
  ASSUME TypeInv, QueueInv, NEW tm \in timers, FireTimer(tm)
  PROVE  QueueInv'
<1> PICK t \in data :
      /\ t.state = "pending" /\ tm = [id |-> t.id, at |-> t.runTime]
      /\ data' = (data \ {t}) \cup {Marked(t)}
  BY FireMarks
<1> DEFINE m == Marked(t)
<1>1. m.id = t.id /\ m.kind = t.kind /\ m.source = t.source
        /\ m.state \in {"ready", "skip"}
  BY DEF Marked, TypeInv, TypeOK, Task
<1>2. m.state = "ready" => \A u \in Queued : Same(u, t) => u.state # "ready"
  BY DEF Marked, SameTaskExistsAndReady, Queued, TypeInv, TypeOK, Task
<1>3. \A u \in Queued : u.id = tm.id <=> u = t
  BY DEF QueueInv, UniqueIDs, Queued
<1> HIDE DEF m
<1>4. data' = (data \ {t}) \cup {m}
  BY DEF m
<1>5. t \notin running
  BY DEF QueueInv, RunningTasks
<1>6. Queued' = (Queued \ {t}) \cup {m} /\ running' = running
  BY <1>4, <1>5 DEF FireTimer, Queued
<1>7. UniqueIDs'
  BY <1>1, <1>3, <1>6 DEF QueueInv, UniqueIDs, FireTimer, Queued
<1>8. RunningTasks'
  <2>1. \A w \in Workers : pc'[w] \in InRunning <=> pc[w] \in InRunning
    BY DEF FireTimer, Signal, InRunning, TypeInv, TypeOK
  <2> QED
    BY <2>1, <1>6 DEF QueueInv, RunningTasks, FireTimer
<1>9. OneReady'
  BY <1>1, <1>2, <1>6 DEF QueueInv, OneReady, Same
<1>10. TimersMatchPending'
  <2>1. \A u \in data : u # t => [id |-> u.id, at |-> u.runTime] # tm
    BY <1>3 DEF Queued
  <2>2. {u \in data' : u.state = "pending"} = {u \in data : u.state = "pending"} \ {t}
    BY <1>1, <1>4
  <2> QED
    BY <2>1, <2>2 DEF QueueInv, TimersMatchPending, FireTimer
<1> QED
  BY <1>7, <1>8, <1>9, <1>10 DEF QueueInv

(* A worker takes a task out of data; unless it is to be skipped, it puts  *)
(* it into running under its own name.                                     *)
LEMMA QueueDequeue ==
  ASSUME TypeInv, QueueInv, NEW w \in Workers, Dequeue(w)
  PROVE  QueueInv'
<1> PICK t \in data :
      /\ t.state # "pending" /\ data' = data \ {t}
      /\ IF t.state = "skip"
         THEN /\ task' = [task EXCEPT ![w] = t]
              /\ pc' = [pc EXCEPT ![w] = "resched"]
              /\ UNCHANGED running
         ELSE /\ task' = [task EXCEPT ![w] = [t EXCEPT !.worker = w]]
              /\ pc' = [pc EXCEPT ![w] = "start"]
              /\ running' = running \cup {[t EXCEPT !.worker = w]}
  BY DEF Dequeue
<1> DEFINE ret == [t EXCEPT !.worker = w]
<1>1. ret.id = t.id /\ ret.kind = t.kind /\ ret.source = t.source
        /\ ret.state = t.state /\ ret.worker = w
  BY DEF TypeInv, TypeOK, Task
<1> HIDE DEF ret
<1>2. pc[w] = "check" /\ UNCHANGED <<nextTaskID, timers>>
  BY DEF Dequeue
<1>3. t.state = "skip" \/ t.state = "ready"
  BY DEF TypeInv, TypeOK, Task, States
<1>4. CASE t.state = "skip"
  <2>1. Queued' = Queued \ {t} /\ running' = running
    BY <1>4 DEF QueueInv, UniqueIDs, Queued
  <2>2. UniqueIDs'
    BY <1>2, <2>1 DEF QueueInv, UniqueIDs
  <2>3. RunningTasks'
    BY <1>2, <1>4 DEF QueueInv, RunningTasks, InRunning, TypeInv, TypeOK
  <2>4. OneReady'
    BY <2>1 DEF QueueInv, OneReady, Same
  <2>5. TimersMatchPending'
    BY <1>2, <1>4 DEF QueueInv, TimersMatchPending
  <2> QED
    BY <2>2, <2>3, <2>4, <2>5 DEF QueueInv
<1>5. CASE t.state = "ready"
  <2>1. /\ running' = running \cup {ret} /\ task' = [task EXCEPT ![w] = ret]
        /\ pc' = [pc EXCEPT ![w] = "start"]
    BY <1>5 DEF ret
  <2>2. Queued' = (Queued \ {t}) \cup {ret}
    BY <2>1 DEF QueueInv, UniqueIDs, Queued
  <2>3. UniqueIDs'
    BY <1>1, <1>2, <2>1, <2>2 DEF QueueInv, UniqueIDs, Queued
  <2>4. RunningTasks'
    BY <1>1, <1>2, <1>5, <2>1
       DEF QueueInv, RunningTasks, InRunning, TypeInv, TypeOK
  <2>5. OneReady'
    BY <1>1, <1>5, <2>2 DEF QueueInv, OneReady, Same, Queued
  <2>6. TimersMatchPending'
    BY <1>2, <1>5 DEF QueueInv, TimersMatchPending
  <2> QED
    BY <2>3, <2>4, <2>5, <2>6 DEF QueueInv
<1> QED
  BY <1>3, <1>4, <1>5

(* A worker takes its own task out of running.                             *)
LEMMA QueueRemove ==
  ASSUME TypeInv, QueueInv, NEW w \in Workers, Remove(w)
  PROVE  QueueInv'
<1>1. pc[w] = "remove" /\ task[w] \in running /\ task[w].worker = w
  BY DEF Remove, QueueInv, RunningTasks, InRunning
<1>2. running' = running \ {task[w]}
  BY <1>1 DEF Remove, QueueInv, UniqueIDs, Queued
<1>3. Queued' \subseteq Queued
  BY <1>2 DEF Remove, Queued, queueVars
<1>4. UniqueIDs'
  BY <1>2, <1>3 DEF Remove, queueVars, QueueInv, UniqueIDs
<1>5. RunningTasks'
  BY <1>1, <1>2 DEF Remove, QueueInv, RunningTasks, InRunning, TypeInv, TypeOK
<1>6. OneReady'
  BY <1>3 DEF QueueInv, OneReady, Same
<1>7. TimersMatchPending'
  BY DEF Remove, queueVars, QueueInv, TimersMatchPending
<1> QED
  BY <1>4, <1>5, <1>6, <1>7 DEF QueueInv

LEMMA IInit == Init => IInv
<1> SUFFICES ASSUME Init PROVE StartedLast /\ QueueInv
  BY TypeInit DEF IInv
<1>1. \A w \in Workers : pc[w] = "off"
  BY DEF Init
<1> QED
  BY <1>1 DEF Init, StartedLast, QueueInv, UniqueIDs, RunningTasks, OneReady,
              TimersMatchPending, Queued, InRunning

LEMMA StartedLastStep ==
  ASSUME IInv, [Next]_vars
  PROVE  StartedLast'
<1> USE DEF IInv, StartedLast
<1>1. CASE BootStep
  BY <1>1 DEF BootStep, BootAuthBegin, BootAuthFail, BootAuthSucceed,
              BootRefreshTask, BootAuthTask, workerVars, TypeInv, TypeOK
<1>2. ASSUME NEW tm \in timers, FireTimer(tm) PROVE StartedLast'
  BY <1>2 DEF FireTimer, Signal
<1>3. ASSUME NEW w \in Workers, WorkerStep(w) PROVE StartedLast'
  BY <1>3 DEF WorkerStep, Wait, Dequeue, BeginRun, FinishRun, Remove, SetIdle,
              StopChain, ComputeNext, EnqueueNext
<1>4. CASE UNCHANGED <<boot, pc>>
  BY <1>4
<1> QED
  BY <1>1, <1>2, <1>3, <1>4
     DEF Next, RefreshAllBegin, RefreshAllEnqueue, Tick, Stop, vars, workerVars

LEMMA QueueStep ==
  ASSUME IInv, [Next]_vars
  PROVE  QueueInv'
<1> USE DEF IInv
<1>1. CASE BootAuthBegin \/ BootAuthFail \/ BootAuthSucceed
  BY <1>1, QueueFrame DEF BootAuthBegin, BootAuthFail, BootAuthSucceed,
                          SameRunners, workerVars
<1>2. CASE BootRefreshTask
  BY <1>2, QueueEnqueue DEF BootRefreshTask, SameRunners, workerVars
<1>3. CASE BootAuthTask
  <2>1. \A w \in Workers : pc[w] = "off" /\ pc'[w] \in {"off", "check"}
    BY <1>3 DEF BootAuthTask, StartedLast
  <2>2. SameRunners
    BY <2>1 DEF SameRunners, InRunning
  <2> QED
    BY <1>3, <2>2, QueueFrame, QueueEnqueue DEF BootAuthTask
<1>4. ASSUME NEW tm \in timers, FireTimer(tm) PROVE QueueInv'
  BY <1>4, QueueFire
<1>5. ASSUME NEW w \in Workers, Dequeue(w) PROVE QueueInv'
  BY <1>5, QueueDequeue
<1>6. ASSUME NEW w \in Workers, Remove(w) PROVE QueueInv'
  BY <1>6, QueueRemove
<1>7. ASSUME NEW w \in Workers,
             Wait(w) \/ BeginRun(w) \/ FinishRun(w) \/ SetIdle(w)
               \/ StopChain(w) \/ ComputeNext(w)
      PROVE  QueueInv'
  <2>1. SameRunners
    BY <1>7 DEF Wait, BeginRun, FinishRun, SetIdle, StopChain, ComputeNext,
                SameRunners, InRunning, TypeInv, TypeOK
  <2> QED
    BY <1>7, <2>1, QueueFrame
       DEF Wait, BeginRun, FinishRun, SetIdle, StopChain, ComputeNext
<1>8. ASSUME NEW w \in Workers, EnqueueNext(w) PROVE QueueInv'
  <2>1. SameRunners
    BY <1>8 DEF EnqueueNext, SameRunners, InRunning, TypeInv, TypeOK
  <2> QED
    BY <1>8, <2>1, QueueEnqueue DEF EnqueueNext
<1>9. ASSUME NEW r \in Requests, RefreshAllEnqueue(r) PROVE QueueInv'
  BY <1>9, QueueEnqueue DEF RefreshAllEnqueue, SameRunners, workerVars
<1>10. CASE UNCHANGED <<queueVars, workerVars>>
  BY <1>10, QueueFrame DEF SameRunners, workerVars
<1> QED
  BY <1>1, <1>2, <1>3, <1>4, <1>5, <1>6, <1>7, <1>8, <1>9, <1>10
     DEF Next, BootStep, WorkerStep, RefreshAllBegin, Tick, Stop, vars

LEMMA IStep == IInv /\ [Next]_vars => IInv'
BY TypeStep, StartedLastStep, QueueStep DEF IInv

LEMMA Invariant == Spec => []IInv
BY IInit, IStep, PTL DEF Spec

-----------------------------------------------------------------------------
(* What follows from the invariant in every state.                         *)

LEMMA ExclusiveInState == IInv => ExclusiveRun
<1> SUFFICES ASSUME IInv, NEW v \in Workers, NEW w \in Workers,
                    pc[v] = "exec", pc[w] = "exec", Same(task[v], task[w])
             PROVE  v = w
  BY DEF ExclusiveRun
<1>1. /\ task[v] \in running /\ task[v].worker = v
      /\ task[w] \in running /\ task[w].worker = w
  BY DEF IInv, QueueInv, RunningTasks, InRunning
<1>2. task[v] = task[w]
  BY <1>1 DEF IInv, QueueInv, RunningTasks, OneReady, Queued
<1> QED
  BY <1>1, <1>2

(* However many workers, sources and refresh requests there are, two       *)
(* workers never run the same kind of task for sources of one name.        *)
THEOREM RunsAreExclusive == Spec => []ExclusiveRun
BY Invariant, ExclusiveInState, PTL

(* A task is pending exactly while its timer is armed.                     *)
THEOREM TimersMatch == Spec => []TimersMatchPending
BY Invariant, PTL DEF IInv, QueueInv

-----------------------------------------------------------------------------
(* The scheduler implements ExclusiveRuns.                                 *)

RunSet == {<<w, JobOf(task[w])>> : w \in {v \in Workers : pc[v] = "exec"}}

LEMMA RunsInit == Init => Runs!Init
BY DEF Init, Runs!Init

(* The steps that neither begin nor end a run.                             *)
SameRuns ==
  \A w \in Workers :
    /\ pc'[w] = "exec" <=> pc[w] = "exec"
    /\ pc[w] = "exec" => task'[w] = task[w]

LEMMA RunsFrame ==
  ASSUME SameRuns
  PROVE  RunSet' = RunSet
<1>1. \A w \in Workers : pc[w] = "exec" => JobOf(task'[w]) = JobOf(task[w])
  BY DEF SameRuns
<1>2. \A r : r \in RunSet' <=> r \in RunSet
  BY <1>1 DEF RunSet, SameRuns, JobOf
<1> QED
  BY <1>2

LEMMA JobType ==
  ASSUME TypeInv, NEW t \in Task
  PROVE  JobOf(t) \in {NameOf[s] : s \in Sources} \X Kinds
BY DEF JobOf, Task

LEMMA RunsBegin ==
  ASSUME IInv, NEW w \in Workers, BeginRun(w)
  PROVE  Runs!Next
<1>1. pc[w] = "start" /\ task[w] \in running /\ task[w].worker = w
  BY DEF BeginRun, IInv, QueueInv, RunningTasks, InRunning
<1>2. JobOf(task[w]) \in {NameOf[s] : s \in Sources} \X Kinds
  BY <1>1, JobType DEF IInv, TypeInv, TypeOK
<1>3. \A r \in RunSet : r[1] # w /\ r[2] # JobOf(task[w])
  <2> SUFFICES ASSUME NEW v \in Workers, pc[v] = "exec"
               PROVE  v # w /\ JobOf(task[v]) # JobOf(task[w])
    BY DEF RunSet
  <2>1. v # w /\ task[v] \in running /\ task[v].worker = v
    BY <1>1 DEF IInv, QueueInv, RunningTasks, InRunning
  <2>2. JobOf(task[v]) = JobOf(task[w]) => Same(task[v], task[w])
    BY DEF JobOf, Same
  <2>3. Same(task[v], task[w]) => task[v] = task[w]
    BY <1>1, <2>1 DEF IInv, QueueInv, RunningTasks, OneReady, Queued
  <2> QED
    BY <1>1, <2>1, <2>2, <2>3
<1>4. /\ task' = task
      /\ \A v \in Workers : pc'[v] = "exec" <=> (pc[v] = "exec" \/ v = w)
  BY DEF BeginRun, IInv, TypeInv, TypeOK
<1>5. RunSet' = RunSet \cup {<<w, JobOf(task[w])>>}
  BY <1>4 DEF RunSet, JobOf
<1> QED
  BY <1>2, <1>3, <1>5 DEF Runs!Next, Runs!Begin, RunSet

LEMMA RunsEnd ==
  ASSUME IInv, NEW w \in Workers, FinishRun(w)
  PROVE  Runs!Next
<1>1. pc[w] = "exec" /\ task[w] \in running
  BY DEF FinishRun, IInv, QueueInv, RunningTasks, InRunning
<1>2. JobOf(task[w]) \in {NameOf[s] : s \in Sources} \X Kinds
  BY <1>1, JobType DEF IInv, TypeInv, TypeOK
<1>3. /\ task' = task
      /\ \A v \in Workers : pc'[v] = "exec" <=> (pc[v] = "exec" /\ v # w)
  BY DEF FinishRun, IInv, TypeInv, TypeOK
<1>4. RunSet' = RunSet \ {<<w, JobOf(task[w])>>}
  BY <1>3 DEF RunSet, JobOf
<1>5. <<w, JobOf(task[w])>> \in RunSet
  BY <1>1 DEF RunSet
<1> QED
  BY <1>2, <1>4, <1>5 DEF Runs!Next, Runs!End, RunSet

LEMMA RunsStep ==
  ASSUME IInv, [Next]_vars
  PROVE  Runs!Next \/ RunSet' = RunSet
<1> USE DEF IInv, queueVars, workerVars
<1>1. CASE BootAuthTask
  <2>1. \A w \in Workers : pc[w] = "off" /\ pc'[w] \in {"off", "check"}
    BY <1>1 DEF BootAuthTask, StartedLast
  <2> QED
    BY <2>1, RunsFrame DEF SameRuns
<1>2. ASSUME NEW tm \in timers, FireTimer(tm) PROVE RunSet' = RunSet
  BY <1>2, RunsFrame DEF FireTimer, Signal, SameRuns, TypeInv, TypeOK
<1>3. ASSUME NEW w \in Workers, BeginRun(w) \/ FinishRun(w) PROVE Runs!Next
  BY <1>3, RunsBegin, RunsEnd
<1>4. ASSUME NEW w \in Workers,
             Wait(w) \/ Dequeue(w) \/ Remove(w) \/ SetIdle(w) \/ StopChain(w)
               \/ ComputeNext(w) \/ EnqueueNext(w)
      PROVE  RunSet' = RunSet
  BY <1>4, RunsFrame
     DEF Wait, Dequeue, Remove, SetIdle, StopChain, ComputeNext, EnqueueNext,
         SameRuns, TypeInv, TypeOK
<1>5. CASE UNCHANGED workerVars
  BY <1>5, RunsFrame DEF SameRuns
<1> QED
  BY <1>1, <1>2, <1>3, <1>4, <1>5
     DEF Next, BootStep, BootAuthBegin, BootAuthFail, BootAuthSucceed,
         BootRefreshTask, WorkerStep, RefreshAllBegin, RefreshAllEnqueue, Tick,
         Stop, vars

(* The scheduler, with its queue, its timers and its workers, implements   *)
(* the exclusive runs its callers rely on.                                 *)
THEOREM SchedulerRefinesRuns == Spec => ImplementsExclusiveRuns
<1>1. IInv /\ [Next]_vars => Runs!Next \/ RunSet' = RunSet
  BY RunsStep
<1>2. IInv /\ [Next]_vars
        => [Runs!Next]_({<<w, JobOf(task[w])>> :
                           w \in {v \in Workers : pc[v] = "exec"}})
  BY <1>1 DEF RunSet
<1> QED
  BY <1>2, RunsInit, Invariant, PTL
     DEF Spec, ImplementsExclusiveRuns, Runs!Spec

-----------------------------------------------------------------------------
(* No wake-up is lost.  Each timer turns one task that is not ready into   *)
(* one that is, and sends one Signal; a worker that takes a task is one    *)
(* that was about to look.                                                 *)

Awake    == {t \in data : t.state # "pending"}
Checking == {w \in Workers : pc[w] = "check"}

WakeInv == IsFiniteSet(data) /\ NoLostWakeup

LEMMA WakeFinite ==
  ASSUME IsFiniteSet(data)
  PROVE  /\ IsFiniteSet(Awake) /\ Cardinality(Awake) \in Nat
         /\ IsFiniteSet(Checking) /\ Cardinality(Checking) \in Nat
<1>1. Awake \in SUBSET data /\ Checking \in SUBSET Workers
  BY DEF Awake, Checking
<1> QED
  BY <1>1, FS_Subset, FS_CardinalityType, SizeAssumption

(* The steps that make no task ready, send no worker to sleep and take     *)
(* none away from the queue.                                               *)
LEMMA WakeFrame ==
  ASSUME WakeInv, IsFiniteSet(data'), Awake' \subseteq Awake,
         \A w \in Workers : /\ pc[w] = "check" => pc'[w] = "check"
                            /\ pc'[w] = "wait" => pc[w] = "wait"
  PROVE  WakeInv'
<1>1. IsFiniteSet(Awake) /\ IsFiniteSet(Checking)
  BY WakeFinite DEF WakeInv
<1>2. IsFiniteSet(Checking')
  BY WakeFinite, FS_Subset, SizeAssumption DEF Checking
<1>3. Checking \subseteq Checking'
  BY DEF Checking
<1>4. /\ Cardinality(Awake') <= Cardinality(Awake)
      /\ Cardinality(Checking) <= Cardinality(Checking')
      /\ Cardinality(Awake') \in Nat /\ Cardinality(Awake) \in Nat
      /\ Cardinality(Checking') \in Nat /\ Cardinality(Checking) \in Nat
  BY <1>1, <1>2, <1>3, FS_Subset, FS_CardinalityType
<1>5. (\E w \in Workers : pc'[w] = "wait")
        => Cardinality(Awake') <= Cardinality(Checking')
  BY <1>4 DEF WakeInv, NoLostWakeup, Awake, Checking
<1> QED
  BY <1>5 DEF WakeInv, NoLostWakeup, Awake, Checking

LEMMA WakeEnqueue ==
  ASSUME WakeInv, NEW kind, NEW s, NEW runTime, NEW reason,
         Enqueue(kind, s, runTime, reason)
  PROVE  IsFiniteSet(data') /\ Awake' \subseteq Awake
BY FS_AddElement DEF Enqueue, Awake, WakeInv

LEMMA WakeFire ==
  ASSUME IInv, WakeInv, NEW tm \in timers, FireTimer(tm)
  PROVE  WakeInv'
<1> PICK t \in data : /\ t.state = "pending"
                      /\ data' = (data \ {t}) \cup {Marked(t)}
                      /\ Signal
  BY FireMarks DEF IInv
<1>1. IsFiniteSet(data')
  BY FS_AddElement, FS_RemoveElement DEF WakeInv
<1>2. CASE ~\E w \in Workers : pc[w] = "wait"
  <2>1. pc' = pc
    BY <1>2 DEF Signal
  <2> QED
    BY <1>1, <1>2, <2>1 DEF WakeInv, NoLostWakeup
<1>3. CASE \E w \in Workers : pc[w] = "wait"
  <2> PICK w \in Workers : pc[w] = "wait" /\ pc' = [pc EXCEPT ![w] = "check"]
    BY <1>3 DEF Signal
  <2>1. Awake' \subseteq Awake \cup {Marked(t)}
    BY DEF Awake
  <2>2. Checking' = Checking \cup {w} /\ w \notin Checking
    BY DEF Checking, IInv, TypeInv, TypeOK
  <2>3. /\ IsFiniteSet(Awake) /\ IsFiniteSet(Checking)
        /\ Cardinality(Awake) \in Nat /\ Cardinality(Checking) \in Nat
    BY WakeFinite DEF WakeInv
  <2>4. Cardinality(Checking') = Cardinality(Checking) + 1
    BY <2>2, <2>3, FS_AddElement
  <2>5. /\ IsFiniteSet(Awake \cup {Marked(t)})
        /\ Cardinality(Awake \cup {Marked(t)}) <= Cardinality(Awake) + 1
        /\ Cardinality(Awake \cup {Marked(t)}) \in Nat
    <3> DEFINE m == Marked(t)
               A == Awake
    <3>1. IsFiniteSet(A) /\ Cardinality(A) \in Nat
      BY <2>3
    <3> HIDE DEF m, A
    <3>2. /\ IsFiniteSet(A \cup {m})
          /\ Cardinality(A \cup {m})
               = IF m \in A THEN Cardinality(A) ELSE Cardinality(A) + 1
      BY <3>1, FS_AddElement
    <3>3. Cardinality(A \cup {m}) <= Cardinality(A) + 1
            /\ Cardinality(A \cup {m}) \in Nat
      BY <3>1, <3>2
    <3> QED
      BY <3>2, <3>3 DEF m, A
  <2>6. /\ Cardinality(Awake') <= Cardinality(Awake \cup {Marked(t)})
        /\ Cardinality(Awake') \in Nat
    BY <2>1, <2>5, FS_Subset, FS_CardinalityType
  <2>7. Cardinality(Awake) <= Cardinality(Checking)
    BY <1>3 DEF WakeInv, NoLostWakeup, Awake, Checking
  <2>8. Cardinality(Awake') <= Cardinality(Checking')
    BY <2>3, <2>4, <2>5, <2>6, <2>7
  <2> QED
    BY <1>1, <2>8 DEF WakeInv, NoLostWakeup, Awake, Checking
<1> QED
  BY <1>2, <1>3

LEMMA WakeWait ==
  ASSUME WakeInv, NEW w \in Workers, Wait(w)
  PROVE  WakeInv'
<1>1. data' = data /\ Awake' = {}
  BY DEF Wait, Awake, queueVars
<1>2. Cardinality(Awake') = 0
  BY <1>1, FS_EmptySet
<1>3. Cardinality(Checking') \in Nat
  <2>1. Checking' \in SUBSET Workers
    BY DEF Checking
  <2> QED
    BY <2>1, FS_Subset, FS_CardinalityType, SizeAssumption
<1> QED
  BY <1>1, <1>2, <1>3 DEF WakeInv, NoLostWakeup, Awake, Checking

LEMMA WakeDequeue ==
  ASSUME IInv, WakeInv, NEW w \in Workers, Dequeue(w)
  PROVE  WakeInv'
<1> PICK t \in data : /\ t.state # "pending" /\ data' = data \ {t}
                      /\ \/ pc' = [pc EXCEPT ![w] = "resched"]
                         \/ pc' = [pc EXCEPT ![w] = "start"]
  BY DEF Dequeue
<1>1. IsFiniteSet(data')
  BY FS_RemoveElement DEF WakeInv
<1>2. Awake' = Awake \ {t} /\ t \in Awake
  BY DEF Awake
<1>3. /\ Checking' = Checking \ {w} /\ w \in Checking
      /\ \A v \in Workers : pc'[v] = "wait" => pc[v] = "wait"
  BY DEF Dequeue, Checking, IInv, TypeInv, TypeOK
<1>4. /\ IsFiniteSet(Awake) /\ IsFiniteSet(Checking)
      /\ Cardinality(Awake) \in Nat /\ Cardinality(Checking) \in Nat
  BY WakeFinite DEF WakeInv
<1>5. /\ Cardinality(Awake') = Cardinality(Awake) - 1
      /\ Cardinality(Checking') = Cardinality(Checking) - 1
  BY <1>2, <1>3, <1>4, FS_RemoveElement
<1>6. (\E v \in Workers : pc[v] = "wait")
        => Cardinality(Awake) <= Cardinality(Checking)
  BY DEF WakeInv, NoLostWakeup, Awake, Checking
<1>7. (\E v \in Workers : pc'[v] = "wait")
        => Cardinality(Awake') <= Cardinality(Checking')
  BY <1>3, <1>4, <1>5, <1>6
<1> QED
  BY <1>1, <1>7 DEF WakeInv, NoLostWakeup, Awake, Checking

LEMMA WakeStep ==
  ASSUME IInv, WakeInv, [Next]_vars
  PROVE  WakeInv'
<1> USE DEF queueVars, workerVars
<1>1. CASE BootRefreshTask
  BY <1>1, WakeEnqueue, WakeFrame DEF BootRefreshTask
<1>2. CASE BootAuthTask
  <2>1. \A w \in Workers : pc[w] = "off" /\ pc'[w] \in {"off", "check"}
    BY <1>2 DEF BootAuthTask, StartedLast, IInv
  <2>2. IsFiniteSet(data') /\ Awake' \subseteq Awake
    BY <1>2, WakeEnqueue DEF BootAuthTask, Awake, WakeInv
  <2> QED
    BY <2>1, <2>2, WakeFrame
<1>3. ASSUME NEW tm \in timers, FireTimer(tm) PROVE WakeInv'
  BY <1>3, WakeFire
<1>4. ASSUME NEW w \in Workers, Wait(w) PROVE WakeInv'
  BY <1>4, WakeWait
<1>5. ASSUME NEW w \in Workers, Dequeue(w) PROVE WakeInv'
  BY <1>5, WakeDequeue
<1>6. ASSUME NEW w \in Workers,
             BeginRun(w) \/ FinishRun(w) \/ Remove(w) \/ SetIdle(w)
               \/ StopChain(w) \/ ComputeNext(w)
      PROVE  WakeInv'
  <2>1. data' = data
    BY <1>6 DEF BeginRun, FinishRun, Remove, SetIdle, StopChain, ComputeNext
  <2>2. \A v \in Workers : /\ pc[v] = "check" => pc'[v] = "check"
                           /\ pc'[v] = "wait" => pc[v] = "wait"
    BY <1>6 DEF BeginRun, FinishRun, Remove, SetIdle, StopChain, ComputeNext,
                IInv, TypeInv, TypeOK
  <2> QED
    BY <2>1, <2>2, WakeFrame DEF Awake, WakeInv
<1>7. ASSUME NEW w \in Workers, EnqueueNext(w) PROVE WakeInv'
  <2>1. \A v \in Workers : /\ pc[v] = "check" => pc'[v] = "check"
                           /\ pc'[v] = "wait" => pc[v] = "wait"
    BY <1>7 DEF EnqueueNext, IInv, TypeInv, TypeOK
  <2> QED
    BY <1>7, <2>1, WakeEnqueue, WakeFrame DEF EnqueueNext
<1>8. ASSUME NEW r \in Requests, RefreshAllEnqueue(r) PROVE WakeInv'
  BY <1>8, WakeEnqueue, WakeFrame DEF RefreshAllEnqueue
<1>9. CASE UNCHANGED <<data, pc>>
  BY <1>9, WakeFrame DEF Awake, WakeInv
<1> QED
  BY <1>1, <1>2, <1>3, <1>4, <1>5, <1>6, <1>7, <1>8, <1>9
     DEF Next, BootStep, BootAuthBegin, BootAuthFail, BootAuthSucceed, WorkerStep,
         RefreshAllBegin, Tick, Stop, vars

LEMMA WakeInvariant == Spec => [](IInv /\ WakeInv)
<1>1. Init => WakeInv
  BY FS_EmptySet DEF Init, WakeInv, NoLostWakeup
<1>2. IInv /\ WakeInv /\ [Next]_vars => WakeInv'
  BY WakeStep
<1> QED
  BY <1>1, <1>2, Invariant, PTL DEF Spec

(* A worker sleeps only while the workers that are awake can take every    *)
(* task that is ready: with any number of workers, one Signal for each     *)
(* timer is enough, and a Signal nobody waits for is not missed.           *)
THEOREM WakeupsSuffice == Spec => []NoLostWakeup
BY WakeInvariant, PTL DEF WakeInv

-----------------------------------------------------------------------------
(* What the scheduler reports agrees with itself, as a consequence of the  *)
(* invariant in every state and of the finiteness of both lists.           *)

LEMMA RunningFinite ==
  ASSUME IInv
  PROVE  IsFiniteSet(running)
<1> DEFINE worker == [t \in running |-> t.worker]
<1>1. worker \in [running -> Workers]
  BY DEF IInv, QueueInv, RunningTasks
<1>2. \A t, u \in running : worker[t] = worker[u] => t = u
  BY DEF IInv, QueueInv, RunningTasks
<1>3. worker \in Injection(running, Workers)
  BY <1>1, <1>2 DEF Injection, IsInjective
<1> QED
  BY <1>3, FS_Injection, SizeAssumption

(* The report of a task keeps its id.                                      *)
LEMMA ReportedIDs ==
  ASSUME NEW S, NEW T
  PROVE  {e.id : e \in {[id |-> t.id, worker |-> t.worker] : t \in S}
                         \cup {[id |-> t.id, worker |-> None] : t \in T}}
           = {t.id : t \in T \cup S}
<1> DEFINE runs == {[id |-> t.id, worker |-> t.worker] : t \in S}
           waits == {[id |-> t.id, worker |-> None] : t \in T}
<1>1. ASSUME NEW t \in S PROVE \E e \in runs : e.id = t.id
  <2>1. [id |-> t.id, worker |-> t.worker] \in runs
    OBVIOUS
  <2> QED
    BY <2>1
<1>2. ASSUME NEW t \in T PROVE \E e \in waits : e.id = t.id
  <2>1. [id |-> t.id, worker |-> None] \in waits
    OBVIOUS
  <2> QED
    BY <2>1
<1>3. ASSUME NEW e \in runs \cup waits PROVE \E t \in T \cup S : e.id = t.id
  OBVIOUS
<1> HIDE DEF runs, waits
<1>4. {e.id : e \in runs \cup waits} = {t.id : t \in T \cup S}
  BY <1>1, <1>2, <1>3
<1> QED
  BY <1>4 DEF runs, waits

LEMMA DumpInState ==
  ASSUME IInv, IsFiniteSet(data)
  PROVE  DumpConsistent
<1> DEFINE entries == {[id |-> t.id, worker |-> t.worker] : t \in running}
           tasksOf(w) == {e \in entries : e.worker = w}
           ids == {t.id : t \in DumpState.running \cup DumpState.pending}
<1> USE DEF IInv, QueueInv
<1>1. ASSUME NEW w \in Workers
      PROVE  /\ Cardinality(tasksOf(w)) <= 1
             /\ WorkerState(w) = "running" => tasksOf(w) # {}
             /\ WorkerState(w) = "idle" => tasksOf(w) = {}
  <2>1. \A e \in tasksOf(w) : e = [id |-> task[w].id, worker |-> w] /\ pc[w] \in InRunning
    BY DEF RunningTasks
  <2>2. pc[w] \in InRunning => [id |-> task[w].id, worker |-> w] \in tasksOf(w)
    BY DEF RunningTasks
  <2>3. tasksOf(w) = IF pc[w] \in InRunning THEN {[id |-> task[w].id, worker |-> w]} ELSE {}
    BY <2>1, <2>2
  <2>4. Cardinality(tasksOf(w)) \in {0, 1}
    BY <2>3, FS_EmptySet, FS_Singleton
  <2>5. WorkerState(w) = "running" => pc[w] \in InRunning
    BY DEF WorkerState, InRunning
  <2>6. WorkerState(w) = "idle" => pc[w] \notin InRunning
    BY DEF WorkerState, InRunning
  <2>7. Cardinality(tasksOf(w)) <= 1
    BY <2>4
  <2> HIDE DEF tasksOf
  <2> QED
    BY <2>3, <2>5, <2>6, <2>7
<1>2. ids = {t.id : t \in Queued}
  <2>1. DumpState.running = entries /\ DumpState.pending = {[id |-> t.id, worker |-> None] : t \in data}
    BY DEF DumpState
  <2> QED
    BY <2>1, ReportedIDs DEF Queued
<1>3. Cardinality(ids) = Cardinality(running) + Cardinality(data)
  <2>1. IsFiniteSet(Queued)
        /\ Cardinality(Queued) = Cardinality(running) + Cardinality(data)
    <3>1. data \cap running = {} /\ IsFiniteSet(running)
      BY RunningFinite DEF UniqueIDs
    <3>2. /\ IsFiniteSet(data \cup running)
          /\ Cardinality(data \cup running)
               = Cardinality(data) + Cardinality(running) - Cardinality(data \cap running)
      BY <3>1, FS_Union
    <3>3. /\ Cardinality(data \cap running) = 0
          /\ Cardinality(data) \in Nat /\ Cardinality(running) \in Nat
      BY <3>1, FS_EmptySet, FS_CardinalityType
    <3> QED
      BY <3>2, <3>3 DEF Queued
  <2>2. ExistsBijection(Queued, ids)
    <3> DEFINE f == [t \in Queued |-> t.id]
    <3>1. f \in [Queued -> ids]
      BY <1>2
    <3>2. \A t, u \in Queued : f[t] = f[u] => t = u
      BY DEF UniqueIDs
    <3>3. \A i \in ids : \E t \in Queued : f[t] = i
      BY <1>2
    <3>4. f \in Bijection(Queued, ids)
      BY <3>1, <3>2, <3>3 DEF Bijection, Injection, IsInjective, Surjection
    <3> QED
      BY <3>4 DEF ExistsBijection
  <2> QED
    BY <2>1, <2>2, FS_Bijection
<1> QED
  BY <1>1, <1>3 DEF DumpConsistent, DumpState

(* Whatever moment GET /v1/scheduler meets, no worker is named twice, or   *)
(* says what the list of running tasks denies, and no task is listed twice *)
(* (scheduler.go:282-328).                                                 *)
THEOREM DumpsAgree == Spec => []DumpConsistent
<1>1. IInv /\ WakeInv => DumpConsistent
  BY DumpInState DEF WakeInv
<1> QED
  BY <1>1, WakeInvariant, PTL

-----------------------------------------------------------------------------
(* The chains.  A task moves from data to a worker and is replaced by the  *)
(* next one; ChainInv says of every moment, startup included, that exactly *)
(* one of them stands for a chain that has begun and not ended.            *)

Working == {w \in Workers : pc[w] \in Busy}

(* No two workers hold tasks of one id, nor a worker one that is queued,   *)
(* and only refreshes are made on request.                                 *)
HeldIDs ==
  /\ \A w \in Working :
       /\ task[w].id < nextTaskID
       /\ \A t \in data : t.id # task[w].id
       /\ \A v \in Working : task[v].id = task[w].id => v = w
  /\ \A t \in data \cup {task[w] : w \in Working} :
       t.kind = "auth" => t.reason = "scheduled"

(* Whether startup has enqueued the first task of a chain.                 *)
Begun(kind, s) ==
  \/ boot.phase = "serving"
  \/ boot.phase \in {"refreshTask", "authTask"} /\ s < boot.source
  \/ boot.phase = "authTask" /\ s = boot.source /\ kind = "refresh"

Ended(kind, s) == kind = "auth" /\ auth[s].ttl = TTLInfinite

OneChain(kind, s) ==
  /\ ~Begun(kind, s) => ChainIDs(kind, s) = {}
  /\ Begun(kind, s) => \/ \E id : ChainIDs(kind, s) = {id}
                       \/ ChainIDs(kind, s) = {} /\ Ended(kind, s)

ChainInv == HeldIDs /\ \A kind \in Kinds, s \in Sources : OneChain(kind, s)

(* Links of a chain.                                                       *)
InChain(t, kind, s) == t.kind = kind /\ t.source = s /\ t.reason = "scheduled"

LEMMA ChainMembers ==
  ASSUME NEW kind, NEW s, NEW id
  PROVE  id \in ChainIDs(kind, s) <=>
           \/ \E t \in data : InChain(t, kind, s) /\ t.id = id
           \/ \E w \in Working : InChain(task[w], kind, s) /\ task[w].id = id
BY DEF ChainIDs, InChain, Working

(* A step that neither adds nor drops a task, and only may mark the tasks  *)
(* in data, leaves the chains as they are.                                 *)
SameLinks ==
  \A kind \in Kinds, s \in Sources : ChainIDs(kind, s)' = ChainIDs(kind, s)

LEMMA ChainKept ==
  ASSUME ChainInv, SameLinks, HeldIDs',
         \A kind \in Kinds, s \in Sources :
           /\ Begun(kind, s)' <=> Begun(kind, s)
           /\ Begun(kind, s) /\ Ended(kind, s) => Ended(kind, s)'
  PROVE  ChainInv'
BY DEF ChainInv, SameLinks, OneChain

LEMMA ChainFrame ==
  ASSUME ChainInv, SameLinks, HeldIDs', UNCHANGED <<boot, auth>>
  PROVE  ChainInv'
BY ChainKept DEF Begun, Ended

(* The workers hold what they held, but for the run time and the state.    *)
SameTasks ==
  /\ Working' = Working
  /\ \A w \in Working :
       /\ task'[w].id = task[w].id /\ task'[w].kind = task[w].kind
       /\ task'[w].source = task[w].source /\ task'[w].reason = task[w].reason

LEMMA HeldFrame ==
  ASSUME HeldIDs, SameTasks, UNCHANGED <<data, nextTaskID>>
  PROVE  HeldIDs' /\ SameLinks
<1>1. HeldIDs'
  BY DEF HeldIDs, SameTasks
<1>2. ASSUME NEW kind \in Kinds, NEW s \in Sources, NEW id
      PROVE  id \in ChainIDs(kind, s)' <=> id \in ChainIDs(kind, s)
  <2>1. id \in ChainIDs(kind, s)' <=>
           \/ \E t \in data' : InChain(t, kind, s) /\ t.id = id
           \/ \E w \in Working' : InChain(task'[w], kind, s) /\ task'[w].id = id
    BY ChainMembers DEF ChainIDs, InChain, Working
  <2> QED
    BY <2>1, ChainMembers DEF SameTasks, InChain
<1> QED
  BY <1>1, <1>2 DEF SameLinks

(* An Enqueue adds the next id to the chain it belongs to, if any.         *)
LEMMA ChainEnqueue ==
  ASSUME TypeInv, HeldIDs, Working' \subseteq Working,
         \A w \in Working' : task'[w] = task[w],
         NEW kind \in Kinds, NEW s, NEW runTime, NEW reason,
         reason = "scheduled" \/ kind = "refresh",
         Enqueue(kind, s, runTime, reason)
  PROVE  /\ HeldIDs'
         /\ \A k \in Kinds, x \in Sources : \A id :
              id \in ChainIDs(k, x)' <=>
                \/ \E t \in data : InChain(t, k, x) /\ t.id = id
                \/ \E w \in Working' : InChain(task[w], k, x) /\ task[w].id = id
                \/ reason = "scheduled" /\ k = kind /\ x = s /\ id = nextTaskID
<1> DEFINE new == [id |-> nextTaskID, kind |-> kind, source |-> s,
                   runTime |-> runTime, reason |-> reason,
                   state |-> "pending", worker |-> None]
<1>1. data' = data \cup {new} /\ nextTaskID' = nextTaskID + 1
  BY DEF Enqueue
<1>2. new.id = nextTaskID /\ new.kind = kind /\ new.source = s /\ new.reason = reason
  OBVIOUS
<1> HIDE DEF new
<1>3. nextTaskID \in Nat /\ \A w \in Working : task[w].id \in Nat
  BY DEF TypeInv, TypeOK, Holds, Working, Task
<1>4. HeldIDs'
  <2>1. ASSUME NEW w \in Working'
        PROVE  /\ task'[w].id < nextTaskID'
               /\ \A t \in data' : t.id # task'[w].id
               /\ \A v \in Working' : task'[v].id = task'[w].id => v = w
    BY <1>1, <1>2, <1>3 DEF HeldIDs
  <2>2. \A t \in data' \cup {task'[w] : w \in Working'} :
          t.kind = "auth" => t.reason = "scheduled"
    BY <1>1, <1>2 DEF HeldIDs
  <2> QED
    BY <2>1, <2>2 DEF HeldIDs
<1>5. ASSUME NEW k \in Kinds, NEW x \in Sources, NEW id
      PROVE  id \in ChainIDs(k, x)' <=>
                \/ \E t \in data : InChain(t, k, x) /\ t.id = id
                \/ \E w \in Working' : InChain(task[w], k, x) /\ task[w].id = id
                \/ reason = "scheduled" /\ k = kind /\ x = s /\ id = nextTaskID
  <2>1. id \in ChainIDs(k, x)' <=>
           \/ \E t \in data' : InChain(t, k, x) /\ t.id = id
           \/ \E w \in Working' : InChain(task'[w], k, x) /\ task'[w].id = id
    BY DEF ChainIDs, InChain, Working
  <2>2. InChain(new, k, x) <=> reason = "scheduled" /\ k = kind /\ x = s
    BY <1>2 DEF InChain
  <2> QED
    BY <1>1, <1>2, <2>1, <2>2
<1> QED
  BY <1>4, <1>5

(* A request's refresh, and the first task of a chain at startup.          *)
LEMMA ChainAdhoc ==
  ASSUME TypeInv, ChainInv, UNCHANGED <<pc, task, boot, auth>>,
         NEW s, NEW runTime, Enqueue("refresh", s, runTime, "adhoc")
  PROVE  ChainInv'
<1>1. Working' = Working
  BY DEF Working
<1>2. HeldIDs' /\ SameLinks
  <2>1. "refresh" \in Kinds /\ HeldIDs /\ "adhoc" # "scheduled"
    BY DEF Kinds, ChainInv
  <2>2. /\ HeldIDs'
        /\ \A k \in Kinds, x \in Sources : \A id :
              id \in ChainIDs(k, x)' <=>
                \/ \E t \in data : InChain(t, k, x) /\ t.id = id
                \/ \E w \in Working' : InChain(task[w], k, x) /\ task[w].id = id
    BY <1>1, <2>1, ChainEnqueue
  <2>3. \A k \in Kinds, x \in Sources : \A id : id \in ChainIDs(k, x)' <=> id \in ChainIDs(k, x)
    BY <1>1, <2>2, ChainMembers
  <2> QED
    BY <2>2, <2>3 DEF SameLinks
<1> QED
  BY <1>2, ChainFrame

LEMMA ChainFirst ==
  ASSUME TypeInv, ChainInv, Working = {}, Working' = {}, UNCHANGED auth,
         NEW kind \in Kinds, NEW s \in Sources, NEW runTime,
         Enqueue(kind, s, runTime, "scheduled"), ~Begun(kind, s), Begun(kind, s)',
         \A k \in Kinds, x \in Sources :
           k # kind \/ x # s => (Begun(k, x)' <=> Begun(k, x))
  PROVE  ChainInv'
<1>1. /\ HeldIDs'
      /\ \A k \in Kinds, x \in Sources : \A id :
           id \in ChainIDs(k, x)' <=>
             \/ \E t \in data : InChain(t, k, x) /\ t.id = id
             \/ k = kind /\ x = s /\ id = nextTaskID
  BY ChainEnqueue DEF ChainInv
<1>2. \A k \in Kinds, x \in Sources : \A id :
        id \in ChainIDs(k, x)' <=> id \in ChainIDs(k, x) \/ (k = kind /\ x = s /\ id = nextTaskID)
  BY <1>1, ChainMembers
<1>3. ChainIDs(kind, s) = {}
  BY DEF ChainInv, OneChain
<1>4. ChainIDs(kind, s)' = {nextTaskID}
  BY <1>2, <1>3
<1>5. \A k \in Kinds, x \in Sources : k # kind \/ x # s => ChainIDs(k, x)' = ChainIDs(k, x)
  BY <1>2
<1>6. ASSUME NEW k \in Kinds, NEW x \in Sources PROVE OneChain(k, x)'
  <2>1. CASE k = kind /\ x = s
    BY <1>4, <2>1 DEF OneChain
  <2>2. CASE k # kind \/ x # s
    BY <1>5, <2>2 DEF ChainInv, OneChain, Ended
  <2> QED
    BY <2>1, <2>2
<1> QED
  BY <1>1, <1>6 DEF ChainInv

(* A worker replaces the task it holds by the next of the chain.           *)
LEMMA ChainNext ==
  ASSUME TypeInv, ChainInv, NEW w \in Workers, EnqueueNext(w),
         task[w].reason = "scheduled"
  PROVE  ChainInv'
<1> PICK kind \in Kinds, s \in Sources, old \in Nat :
      kind = task[w].kind /\ s = task[w].source /\ old = task[w].id
  BY DEF EnqueueNext, TypeInv, Holds, Busy, PCs, Task
<1>1. /\ w \in Working /\ Working' = Working \ {w}
      /\ \A v \in Working' : task'[v] = task[v]
      /\ Enqueue(kind, s, task[w].runTime, "scheduled")
      /\ UNCHANGED <<boot, auth>>
  BY DEF EnqueueNext, TypeInv, TypeOK, Working, Busy, PCs, sourceVars
<1>2. /\ HeldIDs'
      /\ \A k \in Kinds, x \in Sources : \A id :
           id \in ChainIDs(k, x)' <=>
             \/ \E u \in data : InChain(u, k, x) /\ u.id = id
             \/ \E v \in Working' : InChain(task[v], k, x) /\ task[v].id = id
             \/ k = kind /\ x = s /\ id = nextTaskID
  <2>1. PICK runTime : runTime = task[w].runTime
    OBVIOUS
  <2> QED
    BY <1>1, <2>1, ChainEnqueue DEF ChainInv
<1>3. ChainIDs(kind, s) = {old}
  <2>1. old \in ChainIDs(kind, s)
    BY <1>1, ChainMembers DEF InChain
  <2>2. OneChain(kind, s)
    BY DEF ChainInv
  <2> QED
    BY <2>1, <2>2 DEF OneChain
<1>4. ASSUME NEW u \in data, InChain(u, kind, s) PROVE FALSE
  <2>1. u.id = old
    BY <1>3, <1>4, ChainMembers
  <2> QED
    BY <1>1, <2>1 DEF ChainInv, HeldIDs
<1>5. ASSUME NEW v \in Working', InChain(task[v], kind, s) PROVE FALSE
  <2>1. task[v].id = old
    BY <1>1, <1>3, <1>5, ChainMembers
  <2> QED
    BY <1>1, <2>1 DEF ChainInv, HeldIDs
<1>6. ChainIDs(kind, s)' = {nextTaskID}
  <2>1. \A id : id \in ChainIDs(kind, s)' <=> id = nextTaskID
    BY <1>2, <1>4, <1>5
  <2> QED
    BY <2>1
<1>7. ASSUME NEW k \in Kinds, NEW x \in Sources, k # kind \/ x # s
      PROVE  ChainIDs(k, x)' = ChainIDs(k, x)
  <2>1. ~InChain(task[w], k, x)
    BY <1>7 DEF InChain
  <2>2. \A id : id \in ChainIDs(k, x)' <=> id \in ChainIDs(k, x)
    BY <1>1, <1>2, <1>7, <2>1, ChainMembers
  <2> QED
    BY <2>2
<1>8. ASSUME NEW k \in Kinds, NEW x \in Sources PROVE OneChain(k, x)'
  <2>1. CASE k = kind /\ x = s
    <3>1. Begun(k, x)'
      BY <1>1, <1>3, <2>1 DEF ChainInv, OneChain, Begun
    <3> QED
      BY <1>6, <2>1, <3>1 DEF OneChain
  <2>2. CASE k # kind \/ x # s
    <3>1. ChainIDs(k, x)' = ChainIDs(k, x)
      BY <1>7, <2>2
    <3>2. (Begun(k, x)' <=> Begun(k, x)) /\ (Ended(k, x)' <=> Ended(k, x))
      BY <1>1 DEF Begun, Ended
    <3> QED
      BY <3>1, <3>2 DEF ChainInv, OneChain
  <2> QED
    BY <2>1, <2>2
<1> QED
  BY <1>2, <1>8 DEF ChainInv

(* A worker drops the last task of its chain, or one made on request.      *)
LEMMA ChainStop ==
  ASSUME TypeInv, ChainInv, NEW w \in Workers, StopChain(w)
  PROVE  ChainInv'
<1> PICK kind \in Kinds, s \in Sources, old \in Nat :
      kind = task[w].kind /\ s = task[w].source /\ old = task[w].id
  BY DEF StopChain, TypeInv, Holds, Busy, PCs, Task
<1>1. /\ w \in Working /\ Working' = Working \ {w}
      /\ \A v \in Working' : task'[v] = task[v]
      /\ UNCHANGED <<boot, auth, data, nextTaskID>>
  BY DEF StopChain, TypeInv, TypeOK, Working, Busy, PCs, queueVars, sourceVars
<1>2. HeldIDs'
  BY <1>1 DEF ChainInv, HeldIDs
<1>3. ASSUME NEW k \in Kinds, NEW x \in Sources, NEW id
      PROVE  id \in ChainIDs(k, x)' <=>
               \/ \E u \in data : InChain(u, k, x) /\ u.id = id
               \/ \E v \in Working' : InChain(task[v], k, x) /\ task[v].id = id
  BY <1>1 DEF ChainIDs, InChain, Working
<1>4. ASSUME NEW k \in Kinds, NEW x \in Sources, ~InChain(task[w], k, x)
      PROVE  ChainIDs(k, x)' = ChainIDs(k, x)
  <2>1. \A id : id \in ChainIDs(k, x)' <=> id \in ChainIDs(k, x)
    BY <1>1, <1>3, <1>4, ChainMembers
  <2> QED
    BY <2>1
<1>5. ASSUME InChain(task[w], kind, s)
      PROVE  ChainIDs(kind, s)' = {}
  <2>1. ChainIDs(kind, s) = {old}
    <3>1. old \in ChainIDs(kind, s)
      BY <1>1, <1>5, ChainMembers
    <3>2. OneChain(kind, s)
      BY DEF ChainInv
    <3> QED
      BY <3>1, <3>2 DEF OneChain
  <2>2. ASSUME NEW u \in data, InChain(u, kind, s) PROVE FALSE
    <3>1. u.id = old
      BY <2>1, <2>2, ChainMembers
    <3> QED
      BY <1>1, <3>1 DEF ChainInv, HeldIDs
  <2>3. ASSUME NEW v \in Working', InChain(task[v], kind, s) PROVE FALSE
    <3>1. task[v].id = old
      BY <1>1, <2>1, <2>3, ChainMembers
    <3> QED
      BY <1>1, <3>1 DEF ChainInv, HeldIDs
  <2>4. \A id : id \notin ChainIDs(kind, s)'
    BY <1>3, <2>2, <2>3
  <2> QED
    BY <2>4
<1>6. ASSUME NEW k \in Kinds, NEW x \in Sources PROVE OneChain(k, x)'
  <2>1. (Begun(k, x)' <=> Begun(k, x)) /\ (Ended(k, x)' <=> Ended(k, x))
    BY <1>1 DEF Begun, Ended
  <2>2. CASE ~InChain(task[w], k, x)
    <3>1. ChainIDs(k, x)' = ChainIDs(k, x)
      BY <1>4, <2>2
    <3> QED
      BY <2>1, <3>1 DEF ChainInv, OneChain
  <2>3. CASE InChain(task[w], k, x)
    <3>1. k = kind /\ x = s
      BY <2>3 DEF InChain
    <3>2. Ended(k, x)
      BY <2>3 DEF StopChain, LastOfItsChain, InChain, Ended
    <3>3. ChainIDs(k, x)' = {}
      BY <1>5, <2>3, <3>1
    <3> QED
      BY <2>1, <3>2, <3>3 DEF OneChain
  <2> QED
    BY <2>2, <2>3
<1> QED
  BY <1>2, <1>6 DEF ChainInv

(* The last authentication of a source decides whether its chain goes on,  *)
(* while the task that stands for the chain is still held.                 *)
LEMMA ChainFinish ==
  ASSUME TypeInv, ChainInv, NEW w \in Workers, FinishRun(w)
  PROVE  ChainInv'
<1> PICK kind \in Kinds, s \in Sources, old \in Nat :
      kind = task[w].kind /\ s = task[w].source /\ old = task[w].id
  BY DEF FinishRun, TypeInv, Holds, Busy, PCs, Task
<1>1. /\ w \in Working /\ Working' = Working /\ task' = task
      /\ UNCHANGED <<boot, data, nextTaskID>>
  BY DEF FinishRun, TypeInv, TypeOK, Working, Busy, PCs, queueVars
<1>2. HeldIDs' /\ SameLinks
  BY <1>1, HeldFrame DEF ChainInv, SameTasks
<1>3. \A x \in Sources : auth'[x] # auth[x] => kind = "auth" /\ x = s
  <2>1. kind = "auth" \/ auth' = auth
    BY DEF FinishRun, Kinds
  <2>2. auth' = auth \/ \E result : auth' = [auth EXCEPT ![s] = result]
    BY DEF FinishRun
  <2> QED
    BY <2>1, <2>2 DEF TypeInv, TypeOK
<1>4. kind = "auth" => ChainIDs("auth", s) # {}
  <2> SUFFICES ASSUME kind = "auth" PROVE old \in ChainIDs(kind, s)
    OBVIOUS
  <2>1. InChain(task[w], kind, s)
    BY <1>1 DEF InChain, ChainInv, HeldIDs
  <2> QED
    BY <1>1, <2>1, ChainMembers
<1>5. ASSUME NEW k \in Kinds, NEW x \in Sources PROVE OneChain(k, x)'
  <2>1. Begun(k, x)' <=> Begun(k, x)
    BY <1>1 DEF Begun
  <2>2. ChainIDs(k, x)' = ChainIDs(k, x)
    BY <1>2 DEF SameLinks
  <2>3. Ended(k, x) /\ ChainIDs(k, x) = {} => Ended(k, x)'
    BY <1>3, <1>4 DEF Ended
  <2> QED
    BY <2>1, <2>2, <2>3 DEF ChainInv, OneChain
<1> QED
  BY <1>2, <1>5 DEF ChainInv

(* A timer changes the state of a task, a worker takes one.                *)
LEMMA ChainFire ==
  ASSUME IInv, ChainInv, NEW tm \in timers, FireTimer(tm)
  PROVE  ChainInv'
<1> PICK t \in data : data' = (data \ {t}) \cup {Marked(t)}
  BY FireMarks DEF IInv
<1> PICK m \in Task : /\ data' = (data \ {t}) \cup {m}
                      /\ m.id = t.id /\ m.kind = t.kind /\ m.source = t.source
                      /\ m.reason = t.reason
  <2>1. t \in Task
    BY DEF IInv, TypeInv, TypeOK
  <2>2. \E st \in States : Marked(t) = [t EXCEPT !.state = st]
    BY DEF Marked, States
  <2>3. PICK st \in States : Marked(t) = [t EXCEPT !.state = st]
    BY <2>2
  <2> QED
    BY <2>1, <2>3 DEF Task
<1>1. Working' = Working /\ task' = task /\ UNCHANGED <<boot, auth, nextTaskID>>
  BY DEF FireTimer, Signal, Working, Busy, PCs, IInv, TypeInv, TypeOK, sourceVars
<1>2. HeldIDs'
  BY <1>1 DEF ChainInv, HeldIDs
<1>3. SameLinks
  <2>1. ASSUME NEW k \in Kinds, NEW x \in Sources, NEW id
        PROVE  id \in ChainIDs(k, x)' <=> id \in ChainIDs(k, x)
    <3>1. id \in ChainIDs(k, x)' <=>
             \/ \E u \in data' : InChain(u, k, x) /\ u.id = id
             \/ \E v \in Working : InChain(task[v], k, x) /\ task[v].id = id
      BY <1>1 DEF ChainIDs, InChain, Working
    <3>2. InChain(m, k, x) <=> InChain(t, k, x)
      BY DEF InChain
    <3> QED
      BY <3>1, <3>2, ChainMembers
  <2> QED
    BY <2>1 DEF SameLinks
<1> QED
  BY <1>1, <1>2, <1>3, ChainFrame

LEMMA ChainDequeue ==
  ASSUME IInv, ChainInv, NEW w \in Workers, Dequeue(w)
  PROVE  ChainInv'
<1> PICK t \in data, held \in Task :
      /\ data' = data \ {t} /\ task' = [task EXCEPT ![w] = held]
      /\ held.id = t.id /\ held.kind = t.kind /\ held.source = t.source
      /\ held.reason = t.reason
  <2> PICK t \in data :
        /\ data' = data \ {t}
        /\ task' = [task EXCEPT ![w] = t]
             \/ task' = [task EXCEPT ![w] = [t EXCEPT !.worker = w]]
    BY DEF Dequeue
  <2> QED
    BY DEF IInv, TypeInv, TypeOK, Task
<1>1. /\ w \notin Working /\ Working' = Working \cup {w}
      /\ task'[w] = held /\ \A v \in Working : task'[v] = task[v]
      /\ UNCHANGED <<boot, auth, nextTaskID>>
  BY DEF Dequeue, IInv, TypeInv, TypeOK, Working, Busy, PCs, sourceVars
<1>2. HeldIDs'
  <2>1. t.id < nextTaskID /\ \A u \in data : u.id = t.id => u = t
    BY DEF IInv, QueueInv, UniqueIDs, Queued
  <2> QED
    BY <1>1, <2>1 DEF ChainInv, HeldIDs
<1>3. SameLinks
  <2>1. ASSUME NEW k \in Kinds, NEW x \in Sources, NEW id
        PROVE  id \in ChainIDs(k, x)' <=> id \in ChainIDs(k, x)
    <3>1. id \in ChainIDs(k, x)' <=>
             \/ \E u \in data' : InChain(u, k, x) /\ u.id = id
             \/ \E v \in Working' : InChain(task'[v], k, x) /\ task'[v].id = id
      BY DEF ChainIDs, InChain, Working
    <3>2. InChain(held, k, x) <=> InChain(t, k, x)
      BY DEF InChain
    <3> QED
      BY <1>1, <3>1, <3>2, ChainMembers
  <2> QED
    BY <2>1 DEF SameLinks
<1> QED
  BY <1>1, <1>2, <1>3, ChainFrame

LEMMA ChainBoot ==
  ASSUME IInv, ChainInv, BootStep
  PROVE  ChainInv'
<1> USE DEF IInv, queueVars, workerVars, sourceVars
<1>1. Working = {}
  <2>1. boot.phase # "serving"
    BY DEF BootStep, BootAuthBegin, BootAuthFail, BootAuthSucceed,
           BootRefreshTask, BootAuthTask
  <2> QED
    BY <2>1 DEF StartedLast, Working, Busy
<1>2. Working' = {}
  <2>1. \A w \in Workers : pc'[w] \in {"off", "check"}
    <3>1. \A w \in Workers : pc[w] = "off"
      BY DEF BootStep, BootAuthBegin, BootAuthFail, BootAuthSucceed,
             BootRefreshTask, BootAuthTask, StartedLast
    <3> QED
      BY <3>1 DEF BootStep, BootAuthBegin, BootAuthFail, BootAuthSucceed,
                  BootRefreshTask, BootAuthTask
  <2> QED
    BY <2>1 DEF Working, Busy
<1>3. ASSUME NEW s \in Sources PROVE s \in 1..NumSources /\ NumSources \in Nat
  BY SizeAssumption DEF Sources
<1>4. boot.source \in Sources /\ boot \in [phase : BootPhases, source : Sources, at : Nat]
  BY DEF TypeInv, TypeOK
<1>5. ASSUME UNCHANGED <<data, nextTaskID>> PROVE HeldIDs' /\ SameLinks
  BY <1>1, <1>2, <1>5, HeldFrame DEF ChainInv, SameTasks
<1>6. CASE BootAuthBegin \/ BootAuthFail \/ BootAuthSucceed
  <2>1. \A kind \in Kinds, s \in Sources : ~Begun(kind, s)
    BY <1>6 DEF BootAuthBegin, BootAuthFail, BootAuthSucceed, Begun
  <2>2. \A kind \in Kinds, s \in Sources : ~Begun(kind, s)'
    <3>1. CASE boot'.phase \in {"authenticate", "failed", "auth"}
      BY <3>1 DEF Begun
    <3>2. CASE boot'.phase = "refreshTask" /\ boot'.source = 1
      BY <1>3, <3>2 DEF Begun
    <3>3. BootAuthBegin \/ BootAuthFail => boot'.phase \in {"authenticate", "failed"}
      BY <1>4 DEF BootAuthBegin, BootAuthFail
    <3>4. BootAuthSucceed =>
            boot'.phase = "auth" \/ (boot'.phase = "refreshTask" /\ boot'.source = 1)
      <4> SUFFICES ASSUME BootAuthSucceed
                   PROVE  boot'.phase = "auth" \/ (boot'.phase = "refreshTask" /\ boot'.source = 1)
        OBVIOUS
      <4>2. boot.source < NumSources => boot' = [boot EXCEPT !.phase = "auth", !.source = @ + 1]
        BY DEF BootAuthSucceed
      <4>3. ~(boot.source < NumSources) => boot' = [phase |-> "refreshTask", source |-> 1, at |-> now]
        BY DEF BootAuthSucceed
      <4>4. CASE boot.source < NumSources
        <5>1. boot' = [boot EXCEPT !.phase = "auth", !.source = @ + 1]
          BY <4>2, <4>4, Zenon
        <5> QED
          BY <1>4, <5>1
      <4>5. CASE ~(boot.source < NumSources)
        BY <4>3, <4>5
      <4> QED
        BY <4>4, <4>5
    <3> QED
      BY <1>6, <3>1, <3>2, <3>3, <3>4
  <2>3. HeldIDs' /\ SameLinks
    BY <1>5, <1>6 DEF BootAuthBegin, BootAuthFail, BootAuthSucceed
  <2> QED
    BY <2>1, <2>2, <2>3, ChainKept
<1>7. CASE BootRefreshTask
  <2> PICK s \in Sources, at \in Nat : s = boot.source /\ at = boot.at
    BY <1>4
  <2>1. /\ boot.phase = "refreshTask" /\ boot'.phase = "authTask" /\ boot'.source = s
        /\ Enqueue("refresh", s, at, "scheduled") /\ UNCHANGED auth
    BY <1>4, <1>7 DEF BootRefreshTask
  <2>2. "refresh" \in Kinds /\ ~Begun("refresh", s) /\ Begun("refresh", s)'
    BY <1>3, <2>1 DEF Begun, Kinds
  <2>3. \A k \in Kinds, x \in Sources :
          k # "refresh" \/ x # s => (Begun(k, x)' <=> Begun(k, x))
    BY <1>3, <2>1 DEF Begun, Kinds
  <2> QED
    BY <1>1, <1>2, <2>1, <2>2, <2>3, ChainFirst
<1>8. CASE BootAuthTask
  <2> PICK s \in Sources, at \in Nat : s = boot.source /\ at = CalcNextAuth(auth[s])
    BY <1>4, CalcNextAuthType DEF TypeInv, TypeOK
  <2>1. /\ boot.phase = "authTask" /\ UNCHANGED auth
        /\ IF s < NumSources
           THEN boot'.phase = "refreshTask" /\ boot'.source = s + 1
           ELSE boot'.phase = "serving"
        /\ IF auth[s].ttl = TTLInfinite
           THEN UNCHANGED queueVars
           ELSE Enqueue("auth", s, at, "scheduled")
    BY <1>4, <1>8 DEF BootAuthTask
  <2>2. "auth" \in Kinds /\ ~Begun("auth", s) /\ Begun("auth", s)'
    BY <1>3, <2>1 DEF Begun, Kinds
  <2>3. \A k \in Kinds, x \in Sources :
          k # "auth" \/ x # s => (Begun(k, x)' <=> Begun(k, x))
    <3> TAKE k \in Kinds, x \in Sources
    <3> HAVE k # "auth" \/ x # s
    <3>1. x \in 1..NumSources /\ s \in 1..NumSources /\ NumSources \in Nat
      BY <1>3
    <3>2. Begun(k, x) <=> x < s \/ (x = s /\ k = "refresh")
      BY <2>1 DEF Begun
    <3>3. CASE s < NumSources
      <4>1. Begun(k, x)' <=> x < s + 1
        BY <2>1, <3>3 DEF Begun
      <4> QED
        BY <3>1, <3>2, <4>1 DEF Kinds
    <3>4. CASE ~(s < NumSources)
      <4>1. Begun(k, x)'
        BY <2>1, <3>4 DEF Begun
      <4> QED
        BY <3>1, <3>2, <3>4, <4>1 DEF Kinds
    <3> QED
      BY <3>3, <3>4
  <2>4. CASE auth[s].ttl # TTLInfinite
    BY <1>1, <1>2, <2>1, <2>2, <2>3, <2>4, ChainFirst
  <2>5. CASE auth[s].ttl = TTLInfinite
    <3>1. HeldIDs' /\ SameLinks
      BY <1>5, <2>1, <2>5
    <3>2. ChainIDs("auth", s)' = {}
      BY <2>2, <3>1 DEF ChainInv, OneChain, SameLinks
    <3>3. ASSUME NEW k \in Kinds, NEW x \in Sources PROVE OneChain(k, x)'
      <4>1. CASE k = "auth" /\ x = s
        <5>1. Ended(k, x)'
          BY <2>1, <2>5, <4>1 DEF Ended
        <5> QED
          BY <2>2, <3>2, <4>1, <5>1 DEF OneChain
      <4>2. CASE k # "auth" \/ x # s
        <5>1. ChainIDs(k, x)' = ChainIDs(k, x) /\ (Begun(k, x)' <=> Begun(k, x))
          BY <2>3, <3>1, <4>2 DEF SameLinks
        <5>2. Ended(k, x)' <=> Ended(k, x)
          BY <2>1 DEF Ended
        <5> QED
          BY <5>1, <5>2 DEF ChainInv, OneChain
      <4> QED
        BY <4>1, <4>2
    <3> QED
      BY <3>1, <3>3 DEF ChainInv
  <2> QED
    BY <2>4, <2>5
<1> QED
  BY <1>6, <1>7, <1>8 DEF BootStep

(* What a worker is about to enqueue was not made on request.              *)
Replacing == \A w \in Workers : pc[w] = "enqueue" => task[w].reason = "scheduled"

LEMMA ReplacingStep ==
  ASSUME IInv, Replacing, [Next]_vars
  PROVE  Replacing'
<1> USE DEF Replacing, IInv, TypeInv, TypeOK
<1>1. ASSUME NEW w \in Workers, ComputeNext(w) PROVE Replacing'
  <2>1. task[w] \in Task /\ task[w].reason = "scheduled"
    BY <1>1 DEF ComputeNext, LastOfItsChain, Holds, Busy, PCs, Task, Reasons
  <2> QED
    BY <1>1, <2>1 DEF ComputeNext, Task
<1>2. ASSUME NEW w \in Workers,
             Wait(w) \/ Dequeue(w) \/ BeginRun(w) \/ FinishRun(w) \/ Remove(w)
               \/ SetIdle(w) \/ StopChain(w) \/ EnqueueNext(w)
      PROVE  Replacing'
  BY <1>2 DEF Wait, Dequeue, BeginRun, FinishRun, Remove, SetIdle, StopChain, EnqueueNext
<1>3. ASSUME NEW tm \in timers, FireTimer(tm) PROVE Replacing'
  BY <1>3 DEF FireTimer, Signal
<1>4. CASE BootAuthTask
  BY <1>4 DEF BootAuthTask, workerVars
<1>5. CASE UNCHANGED workerVars
  BY <1>5 DEF workerVars
<1> QED
  BY <1>1, <1>2, <1>3, <1>4, <1>5
     DEF Next, BootStep, BootAuthBegin, BootAuthFail, BootAuthSucceed,
         BootRefreshTask, WorkerStep, RefreshAllBegin, RefreshAllEnqueue, Tick, Stop,
         vars, workerVars

LEMMA ChainStep ==
  ASSUME IInv, ChainInv, Replacing, [Next]_vars
  PROVE  ChainInv'
<1> USE DEF queueVars, workerVars, sourceVars
<1>1. CASE BootStep
  BY <1>1, ChainBoot
<1>2. ASSUME NEW tm \in timers, FireTimer(tm) PROVE ChainInv'
  BY <1>2, ChainFire
<1>3. ASSUME NEW w \in Workers, Dequeue(w) \/ FinishRun(w) \/ StopChain(w)
      PROVE  ChainInv'
  BY <1>3, ChainDequeue, ChainFinish, ChainStop DEF IInv
<1>4. ASSUME NEW w \in Workers, EnqueueNext(w) PROVE ChainInv'
  BY <1>4, ChainNext DEF IInv, Replacing, EnqueueNext
<1>5. ASSUME NEW w \in Workers,
             Wait(w) \/ BeginRun(w) \/ Remove(w) \/ SetIdle(w) \/ ComputeNext(w)
      PROVE  ChainInv'
  <2>1. SameTasks /\ UNCHANGED <<boot, data, nextTaskID>>
    BY <1>5 DEF Wait, BeginRun, Remove, SetIdle, ComputeNext, SameTasks, Working,
                Busy, PCs, IInv, TypeInv, TypeOK, Holds, Task
  <2>2. \A s \in Sources : auth'[s].ttl = auth[s].ttl
    <3>1. auth' = auth \/ \E s \in Sources : auth' = [auth EXCEPT ![s] = AuthStarted(@)]
      BY <1>5 DEF Wait, BeginRun, Remove, SetIdle, ComputeNext, IInv, TypeInv, Holds,
                  Busy, PCs, Task
    <3>2. \A s \in Sources : AuthStarted(auth[s]).ttl = auth[s].ttl
      BY DEF AuthStarted, AuthRecord, IInv, TypeInv, TypeOK
    <3> QED
      BY <3>1, <3>2 DEF IInv, TypeInv, TypeOK
  <2>3. HeldIDs' /\ SameLinks
    BY <2>1, HeldFrame DEF ChainInv
  <2> QED
    BY <2>1, <2>2, <2>3, ChainKept DEF Begun, Ended
<1>6. ASSUME NEW r \in Requests, RefreshAllEnqueue(r) PROVE ChainInv'
  <2> PICK s, at : Enqueue("refresh", s, at, "adhoc")
    BY <1>6 DEF RefreshAllEnqueue
  <2> QED
    BY <1>6, ChainAdhoc DEF RefreshAllEnqueue, IInv
<1>7. CASE UNCHANGED <<boot, data, nextTaskID, pc, task, auth>>
  <2>1. SameTasks
    BY <1>7 DEF SameTasks, Working
  <2> QED
    BY <1>7, <2>1, HeldFrame, ChainFrame DEF ChainInv
<1> QED
  BY <1>1, <1>2, <1>3, <1>4, <1>5, <1>6, <1>7
     DEF Next, WorkerStep, RefreshAllBegin, Tick, Stop, vars

LEMMA ChainsInState ==
  ASSUME ChainInv
  PROVE  ChainsIntact
<1> SUFFICES ASSUME boot.phase = "serving", NEW s \in Sources
             PROVE  /\ Cardinality(ChainIDs("refresh", s)) = 1
                    /\ Cardinality(ChainIDs("auth", s)) <= 1
                    /\ auth[s].ttl # TTLInfinite => Cardinality(ChainIDs("auth", s)) = 1
  BY DEF ChainsIntact
<1>1. \E id : ChainIDs("refresh", s) = {id}
  BY DEF ChainInv, OneChain, Begun, Ended, Kinds
<1>2. \/ \E id : ChainIDs("auth", s) = {id}
      \/ ChainIDs("auth", s) = {} /\ auth[s].ttl = TTLInfinite
  BY DEF ChainInv, OneChain, Begun, Ended, Kinds
<1>3. Cardinality(ChainIDs("refresh", s)) = 1
  BY <1>1, FS_Singleton
<1>4. \/ Cardinality(ChainIDs("auth", s)) = 1
      \/ Cardinality(ChainIDs("auth", s)) = 0 /\ auth[s].ttl = TTLInfinite
  BY <1>2, FS_Singleton, FS_EmptySet
<1> QED
  BY <1>3, <1>4

(* Whatever requests, skips, failures and expiries come between, once the  *)
(* server is up every source has one scheduled refresh, and one scheduled  *)
(* authentication unless its credential lasts for ever                     *)
(* (task_worker.go:126-153).                                               *)
THEOREM ChainsNeverBreak == Spec => []ChainsIntact
<1>1. Init => ChainInv /\ Replacing
  <2> SUFFICES ASSUME Init PROVE ChainInv /\ Replacing
    OBVIOUS
  <2>1. Working = {} /\ data = {}
    BY DEF Init, Working, Busy
  <2>2. \A kind \in Kinds, s \in Sources : ChainIDs(kind, s) = {} /\ ~Begun(kind, s)
    BY <2>1, ChainMembers DEF Init, Begun
  <2> QED
    BY <2>1, <2>2 DEF ChainInv, HeldIDs, OneChain, Replacing, Init
<1>2. IInv /\ ChainInv /\ Replacing /\ [Next]_vars => ChainInv' /\ Replacing'
  BY ChainStep, ReplacingStep
<1>3. ChainInv => ChainsIntact
  BY ChainsInState
<1> QED
  BY <1>1, <1>2, <1>3, Invariant, PTL DEF Spec

-----------------------------------------------------------------------------
(* Spacing.  A task that a worker takes is due, so the run it has finished *)
(* was finished after its run time, unless another run of the same kind is *)
(* under way for the same source.                                          *)

Due ==
  /\ \A t \in data : t.state # "pending" => t.runTime <= now
  /\ \A w \in Workers : pc[w] \in Busy \ {"enqueue"} => task[w].runTime <= now

Refreshing(s) ==
  \E v \in Workers : pc[v] = "exec" /\ task[v].kind = "refresh" /\ task[v].source = s

RefreshedSince ==
  \A w \in Workers :
    /\ pc[w] \in {"remove", "removed", "resched"}
    /\ task[w].kind = "refresh" /\ task[w].state = "ready"
    => Refreshing(task[w].source) \/ refreshed[task[w].source] >= task[w].runTime

LEMMA DueStep ==
  ASSUME IInv, Due, [Next]_vars
  PROVE  Due'
<1> USE DEF queueVars, workerVars, sourceVars
<1>1. now \in Nat /\ now' \in Nat /\ now <= now'
  <2>1. now \in Nat /\ (now' = now \/ now' = now + 1)
    BY DEF Next, BootStep, BootAuthBegin, BootAuthFail, BootAuthSucceed,
           BootRefreshTask, BootAuthTask, FireTimer, WorkerStep, Wait, Dequeue, BeginRun,
           FinishRun, Remove, SetIdle, StopChain, ComputeNext, EnqueueNext,
           RefreshAllBegin, RefreshAllEnqueue, Tick, Stop, vars, IInv, TypeInv, TypeOK
  <2> QED
    BY <2>1
<1>2. ASSUME NEW t \in data' , t.state # "pending" PROVE t.runTime <= now'
  <2>1. CASE t \in data
    <3>1. t.runTime \in Nat
      BY <2>1 DEF IInv, TypeInv, TypeOK, Task
    <3> QED
      BY <1>1, <1>2, <2>1, <3>1 DEF Due
  <2>2. ASSUME NEW tm \in timers, FireTimer(tm), t \notin data PROVE t.runTime <= now'
    <3> PICK u \in data : /\ tm = [id |-> u.id, at |-> u.runTime]
                          /\ data' = (data \ {u}) \cup {Marked(u)}
      BY <2>2, FireMarks DEF IInv
    <3>1. t = Marked(u)
      BY <2>2
    <3>2. Marked(u).runTime = u.runTime
      BY DEF Marked, IInv, TypeInv, TypeOK, Task
    <3> QED
      BY <2>2, <3>1, <3>2 DEF FireTimer
  <2>3. ASSUME NEW kind, NEW s, NEW at, NEW reason, Enqueue(kind, s, at, reason), t \notin data
        PROVE  t.state = "pending"
    BY <2>3 DEF Enqueue
  <2>4. \/ data' \subseteq data
        \/ \E tm \in timers : FireTimer(tm)
        \/ \E kind, s, at, reason : Enqueue(kind, s, at, reason)
    <3> DEFINE Enqueued == \E kind, s, at, reason : Enqueue(kind, s, at, reason)
    <3>1. CASE BootRefreshTask
      BY <3>1 DEF BootRefreshTask
    <3>2. CASE BootAuthTask
      BY <3>2 DEF BootAuthTask
    <3>3. ASSUME NEW w \in Workers, EnqueueNext(w) PROVE Enqueued
      BY <3>3 DEF EnqueueNext
    <3>4. ASSUME NEW r \in Requests, RefreshAllEnqueue(r) PROVE Enqueued
      BY <3>4 DEF RefreshAllEnqueue
    <3>5. ASSUME NEW w \in Workers, WorkerStep(w), ~EnqueueNext(w) PROVE data' \subseteq data
      BY <3>5 DEF WorkerStep, Wait, Dequeue, BeginRun, FinishRun, Remove, SetIdle,
                  StopChain, ComputeNext
    <3> HIDE DEF Enqueued
    <3> QED
      BY <3>1, <3>2, <3>3, <3>4, <3>5
         DEF Enqueued, Next, BootStep, BootAuthBegin, BootAuthFail, BootAuthSucceed,
             RefreshAllBegin, Tick, Stop, vars
  <2> QED
    BY <1>2, <2>1, <2>2, <2>3, <2>4
<1>3. ASSUME NEW w \in Workers, pc'[w] \in Busy \ {"enqueue"} PROVE task'[w].runTime <= now'
  <2>1. CASE pc[w] \in Busy \ {"enqueue"} /\ task'[w] = task[w]
    <3>1. task[w].runTime \in Nat /\ task[w].runTime <= now
      BY <2>1 DEF Due, IInv, TypeInv, Holds, Task
    <3> QED
      BY <1>1, <2>1, <3>1
  <2>2. ASSUME Dequeue(w) PROVE task'[w].runTime <= now'
    <3>1. \E t \in data : t.state # "pending" /\ task'[w].runTime = t.runTime
      BY <2>2 DEF Dequeue, IInv, TypeInv, TypeOK, Task
    <3> QED
      BY <2>2, <3>1 DEF Due, Dequeue
  <2>3. (pc[w] \in Busy \ {"enqueue"} /\ task'[w] = task[w]) \/ Dequeue(w)
    <3>1. ASSUME NEW v \in Workers, WorkerStep(v)
          PROVE  (pc[w] \in Busy \ {"enqueue"} /\ task'[w] = task[w]) \/ Dequeue(w)
      BY <1>3, <3>1 DEF WorkerStep, Wait, Dequeue, BeginRun, FinishRun, Remove, SetIdle,
                        StopChain, ComputeNext, EnqueueNext, IInv, TypeInv, TypeOK, Busy, PCs
    <3>2. ASSUME NEW tm \in timers, FireTimer(tm)
          PROVE  pc[w] \in Busy \ {"enqueue"} /\ task'[w] = task[w]
      BY <1>3, <3>2 DEF FireTimer, Signal, Busy, PCs, IInv, TypeInv, TypeOK
    <3>3. CASE BootAuthTask
      BY <1>3, <3>3 DEF BootAuthTask, Busy, PCs
    <3>4. CASE UNCHANGED workerVars
      BY <1>3, <3>4
    <3> QED
      BY <3>1, <3>2, <3>3, <3>4
         DEF Next, BootStep, BootAuthBegin, BootAuthFail, BootAuthSucceed, BootRefreshTask,
             RefreshAllBegin, RefreshAllEnqueue, Tick, Stop, vars
  <2> QED
    BY <2>1, <2>2, <2>3
<1> QED
  BY <1>2, <1>3 DEF Due

LEMMA RefreshedStep ==
  ASSUME IInv, Due, RefreshedSince, [Next]_vars
  PROVE  RefreshedSince'
<1> USE DEF IInv, TypeInv, TypeOK, queueVars, workerVars, sourceVars
<1>0. SUFFICES ASSUME NEW w \in Workers, NEW s \in Sources, NEW at \in Nat,
                      pc'[w] \in {"remove", "removed", "resched"},
                      task'[w].kind = "refresh", task'[w].state = "ready",
                      s = task'[w].source, at = task'[w].runTime
               PROVE  Refreshing(s)' \/ refreshed'[s] >= at
  <2>1. \A w \in Workers : pc'[w] \in {"remove", "removed", "resched"} =>
           task'[w].source \in Sources /\ task'[w].runTime \in Nat
    BY TypeStep DEF Holds, Busy, PCs, Task
  <2> QED
    BY <2>1 DEF RefreshedSince, Refreshing
<1> USE DEF Refreshing
<1>1. CASE \E v \in Workers : BeginRun(v)
  <2> PICK v \in Workers : BeginRun(v)
    BY <1>1
  <2>1. /\ pc[w] = pc'[w] /\ task' = task /\ task[v] \in Task /\ pc'[v] = "exec"
        /\ \A x \in Workers : pc[x] = "exec" => pc'[x] = "exec"
    BY <1>0 DEF BeginRun, Holds, Busy, PCs
  <2>2. refreshed'[s] = refreshed[s] \/ (task[v].kind = "refresh" /\ task[v].source = s)
    BY <2>1 DEF BeginRun, Task
  <2> QED
    BY <1>0, <2>1, <2>2 DEF RefreshedSince
<1>2. CASE \E v \in Workers : FinishRun(v)
  <2> PICK v \in Workers : FinishRun(v)
    BY <1>2
  <2>1. /\ task' = task /\ task[v] \in Task /\ pc[v] = "exec" /\ pc' = [pc EXCEPT ![v] = "remove"]
    BY DEF FinishRun, Holds, Busy, PCs
  <2>2. at <= now
    BY <1>0, <2>1 DEF Due, Busy, PCs
  <2>3. CASE task[v].kind = "refresh" /\ task[v].source = s
    <3>1. refreshed'[s] = now
      BY <2>3 DEF FinishRun
    <3> QED
      BY <2>2, <3>1
  <2>4. CASE ~(task[v].kind = "refresh" /\ task[v].source = s)
    <3>1. refreshed'[s] = refreshed[s] /\ w # v
      BY <1>0, <2>1, <2>4 DEF FinishRun
    <3>2. pc[w] = pc'[w] /\ \A x \in Workers : pc[x] = "exec" /\ x # v => pc'[x] = "exec"
      BY <2>1, <3>1
    <3> QED
      BY <1>0, <2>1, <2>4, <3>1, <3>2 DEF RefreshedSince
  <2> QED
    BY <2>3, <2>4
<1>3. CASE /\ refreshed' = refreshed
           /\ \A x \in Workers : pc[x] = "exec" => pc'[x] = "exec" /\ task'[x] = task[x]
           /\ pc[w] \in {"remove", "removed", "resched"} /\ task'[w] = task[w]
  BY <1>0, <1>3 DEF RefreshedSince
<1>4. ASSUME NEW v \in Workers, WorkerStep(v), ~BeginRun(v), ~FinishRun(v)
      PROVE  /\ refreshed' = refreshed
             /\ \A x \in Workers : pc[x] = "exec" => pc'[x] = "exec" /\ task'[x] = task[x]
             /\ pc[w] \in {"remove", "removed", "resched"} /\ task'[w] = task[w]
  BY <1>0, <1>4 DEF WorkerStep, Wait, Dequeue, Remove, SetIdle, StopChain, ComputeNext,
                    EnqueueNext
<1>5. CASE BootAuthTask
  BY <1>0, <1>3, <1>5 DEF BootAuthTask
<1>6. ASSUME NEW tm \in timers, FireTimer(tm)
      PROVE  Refreshing(s)' \/ refreshed'[s] >= at
  BY <1>0, <1>3, <1>6 DEF FireTimer, Signal
<1>7. CASE UNCHANGED <<workerVars, refreshed>>
  BY <1>0, <1>3, <1>7
<1> QED
  BY <1>1, <1>2, <1>3, <1>4, <1>5, <1>6, <1>7
     DEF Next, BootStep, BootAuthBegin, BootAuthFail, BootAuthSucceed, BootRefreshTask,
         WorkerStep, RefreshAllBegin, RefreshAllEnqueue, Tick, Stop, vars

(* However late runs are, how long they take, and whether they fail, no    *)
(* source is refreshed sooner than an Interval after the run time before,  *)
(* unless a request refreshes it meanwhile (source.go:41-45, 118-123).     *)
THEOREM RefreshesAreSpaced == Spec => SpacedUnlessRequested
<1>1. Init => Due /\ RefreshedSince
  BY DEF Init, Due, RefreshedSince, Busy
<1>2. IInv /\ Due /\ RefreshedSince /\ [Next]_vars => Due' /\ RefreshedSince'
  BY DueStep, RefreshedStep
<1>3. IInv /\ RefreshedSince =>
        \A w \in Workers :
          /\ ComputeNext(w) /\ task[w].kind = "refresh" /\ task[w].state = "ready"
          /\ \A v \in Workers : pc[v] = "exec" /\ task[v].kind = "refresh" =>
                                 task[v].source # task[w].source
          => task'[w].runTime >= task[w].runTime + Interval[task[w].source]
  <2> SUFFICES ASSUME IInv, RefreshedSince, NEW w \in Workers, ComputeNext(w),
                      task[w].kind = "refresh", task[w].state = "ready",
                      ~Refreshing(task[w].source)
               PROVE  task'[w].runTime >= task[w].runTime + Interval[task[w].source]
    BY DEF Refreshing
  <2> PICK s \in Sources, at \in Nat : s = task[w].source /\ at = task[w].runTime
    BY DEF ComputeNext, IInv, TypeInv, Holds, Busy, PCs, Task
  <2>1. task'[w].runTime = refreshed[s] + Interval[s]
    BY DEF ComputeNext, NextRunTime, CalcNextRefresh, IInv, TypeInv, TypeOK, Holds, Busy, PCs, Task
  <2>2. refreshed[s] >= at
    BY DEF RefreshedSince, ComputeNext
  <2>3. refreshed[s] \in Nat /\ Interval[s] \in Nat
    BY TimeAssumption DEF IInv, TypeInv, TypeOK
  <2> QED
    BY <2>1, <2>2, <2>3
<1> QED
  BY <1>1, <1>2, <1>3, Invariant, PTL DEF Spec, SpacedUnlessRequested
=============================================================================
