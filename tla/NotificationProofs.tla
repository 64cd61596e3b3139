------------------------- MODULE NotificationProofs -------------------------
(***************************************************************************)
(* Where the inbox may be wrong, and that every duplicate in it is         *)
(* explained, for any number of jobs, Celery workers, attempts,            *)
(* publications and crashes.                                               *)
(***************************************************************************)
EXTENDS NotificationTasks, TotalsProofs

(* Type correctness. *)

\* A worker that is not idle holds a task, and the row it read to store.
LEMMA Held ==
  ASSUME TasksTypeOK, NEW w \in Workers, ~On(w, "idle")
  PROVE  /\ TaskOf(w) \in Task /\ Counter(w) \in Kinds \X Jobs
         /\ On(w, "store") => running[w].row \in JobRow \ {NoRow}
<1>1. /\ running[w] \in Running /\ running[w].phase # "idle"
  BY DEF TasksTypeOK, On
<1>2. /\ running[w].task \in Task
      /\ running[w].phase = "store" => running[w].row \in JobRow \ {NoRow}
  BY <1>1 DEF Running
<1>3. /\ running[w].task.kind \in Kinds /\ running[w].task.job \in Jobs
  BY <1>2 DEF Task
<1> QED
  BY <1>2, <1>3 DEF TaskOf, Counter, On

\* The states a worker is put into.
LEMMA Phases ==
  ASSUME NEW t \in Task
  PROVE  /\ \A phase \in {"load", "push", "retry", "ack"} :
              [phase |-> phase, task |-> t] \in Running
         /\ \A row \in JobRow \ {NoRow} :
              [phase |-> "store", task |-> t, row |-> row] \in Running
         /\ Idle \in Running
BY DEF Running, Idle

\* The initial state has its types.
LEMMA InitTasksType == TasksInit => TasksTypeOK
BY TasksAssumption
DEF TasksInit, TasksTypeOK, JobRow, NoRow, Running, Idle, Counts

\* A call writes a row of the table's type.
LEMMA CommittedRow ==
  ASSUME NEW kind \in Kinds, NEW row \in JobRow
  PROVE  Committed(kind, row) \in JobRow
<1>1. CASE kind = "new_job"
  BY <1>1 DEF Committed, JobRow
<1>2. CASE kind = "job_accepted"
  BY <1>2 DEF Committed, JobRow
<1>3. CASE kind = "job_completed"
  <2>1. Committed(kind, row) = [row EXCEPT !.status = "completed"]
    BY <1>3 DEF Committed
  <2> QED
    BY <2>1 DEF JobRow
<1> QED
  BY <1>1, <1>2, <1>3 DEF Kinds

\* Neither the calls on a job
LEMMA WebType ==
  ASSUME TasksTypeOK, NEW j \in Jobs, WebStep(j)
  PROVE  TasksTypeOK'
<1>1. ASSUME NEW kind \in Kinds, Publish(kind, j)
      PROVE  TasksTypeOK'
  <2>1. Started(kind, j) \in Task
    BY TasksAssumption DEF Started, Task
  <2>2. queue' \in [Task -> Nat]
    BY <1>1, <2>1 DEF Publish, TasksTypeOK
  <2>3. published' \in Counts
    BY <1>1 DEF Publish, TasksTypeOK, Counts
  <2> QED
    BY <1>1, <2>2, <2>3 DEF Publish, TasksTypeOK
<1>2. CASE Commit(j)
  <2>1. Committed(tx[j], job[j]) \in JobRow
    BY <1>2, CommittedRow DEF Commit, TasksTypeOK
  <2>2. job' \in [Jobs -> JobRow]
    BY <1>2, <2>1 DEF Commit, TasksTypeOK
  <2> QED
    BY <1>2, <2>2 DEF Commit, TasksTypeOK
<1>3. CASE Rollback(j)
  <2>1. undone' \subseteq Jobs
    BY <1>3 DEF Rollback, TasksTypeOK
  <2> QED
    BY <1>3, <2>1 DEF Rollback, TasksTypeOK
<1>4. ASSUME NEW from, NEW to \in {"in_progress", "cancelled"},
             Move(j, from, to)
      PROVE  TasksTypeOK'
  <2>1. [job[j] EXCEPT !.status = to] \in JobRow
    BY DEF TasksTypeOK, JobRow
  <2>2. job' = [job EXCEPT ![j] = [job[j] EXCEPT !.status = to]]
    BY <1>4 DEF Move, TasksTypeOK, JobRow
  <2>3. job' \in [Jobs -> JobRow]
    BY <2>1, <2>2 DEF TasksTypeOK
  <2> QED
    BY <1>4, <2>3 DEF Move, TasksTypeOK
<1> QED
  BY <1>1, <1>2, <1>3, <1>4 DEF WebStep, StartJob, CancelJob

\* nor the worker's
LEMMA ServeType ==
  ASSUME TasksTypeOK, NEW w \in Workers, Serve(w)
  PROVE  TasksTypeOK'
<1>1. CASE Take(w)
  <2>1. PICK t \in Task :
          /\ queue[t] > 0 /\ queue' = [queue EXCEPT ![t] = @ - 1]
          /\ running' = [running EXCEPT ![w] = [phase |-> "load", task |-> t]]
    BY <1>1 DEF Take
  <2>2. queue' \in [Task -> Nat]
    BY <2>1 DEF TasksTypeOK
  <2>3. running' \in [Workers -> Running]
    BY <2>1, Phases DEF TasksTypeOK
  <2> QED
    BY <1>1, <2>2, <2>3 DEF Take, TasksTypeOK, webVars
<1>2. CASE Load(w)
  <2>1. TaskOf(w) \in Task /\ job[TaskOf(w).job] \in JobRow
    <3>1. TaskOf(w) \in Task
      BY <1>2, Held DEF Load, On
    <3> QED
      BY <3>1 DEF Task, TasksTypeOK
  <2>2. running' \in [Workers -> Running]
    <3>1. CASE Goto(w, "retry")
      BY <2>1, <3>1, Phases DEF Goto, TasksTypeOK
    <3>2. CASE /\ job[TaskOf(w).job] # NoRow
               /\ running' = [running EXCEPT ![w] =
                    [phase |-> "store", task |-> TaskOf(w),
                     row |-> job[TaskOf(w).job]]]
      BY <2>1, <3>2, Phases DEF TasksTypeOK
    <3> QED
      BY <1>2, <3>1, <3>2 DEF Load
  <2> QED
    BY <1>2, <2>2 DEF Load, TasksTypeOK, webVars
<1>3. CASE Store(w)
  <2>1. TaskOf(w) \in Task /\ Counter(w) \in Kinds \X Jobs
    BY <1>3, Held DEF Store, On
  <2>2. running' \in [Workers -> Running]
    BY <1>3, <2>1, Phases DEF Store, Goto, TasksTypeOK
  <2>3. stored' \in Counts
    BY <1>3, <2>1 DEF Store, TasksTypeOK, Counts
  <2> QED
    BY <1>3, <2>2, <2>3 DEF Store, TasksTypeOK, webVars
<1>4. CASE Push(w)
  <2>1. TaskOf(w) \in Task /\ Counter(w) \in Kinds \X Jobs
    BY <1>4, Held DEF Push, On
  <2>2. running' \in [Workers -> Running]
    BY <1>4, <2>1, Phases DEF Push, Goto, TasksTypeOK
  <2>3. mishaps' \in Counts
    BY <1>4, <2>1 DEF Push, TasksTypeOK, Counts
  <2> QED
    BY <1>4, <2>2, <2>3 DEF Push, TasksTypeOK, webVars
<1>5. CASE Retry(w)
  <2>1. TaskOf(w) \in Task
    BY <1>5, Held DEF Retry, On
  <2>2. running' \in [Workers -> Running]
    BY <1>5, <2>1, Phases DEF Retry, Goto, TasksTypeOK
  <2>3. queue' \in [Task -> Nat]
    <3>1. CASE TaskOf(w).retries < MaxRetries
      <4> DEFINE again == [TaskOf(w) EXCEPT !.retries = @ + 1]
      <4>1. again \in Task
        BY <2>1, <3>1, TasksAssumption DEF Task
      <4>2. queue' = [queue EXCEPT ![again] = @ + 1]
        BY <1>5, <3>1 DEF Retry
      <4> HIDE DEF again
      <4> QED
        BY <4>1, <4>2 DEF TasksTypeOK
    <3>2. CASE ~(TaskOf(w).retries < MaxRetries)
      BY <1>5, <3>2 DEF Retry, TasksTypeOK
    <3> QED
      BY <3>1, <3>2
  <2> QED
    BY <1>5, <2>2, <2>3 DEF Retry, TasksTypeOK, webVars
<1>6. CASE Ack(w)
  <2>1. Idle \in Running
    BY DEF Idle, Running
  <2> QED
    BY <1>6, <2>1 DEF Ack, TasksTypeOK, webVars
<1> QED
  BY <1>1, <1>2, <1>3, <1>4, <1>5, <1>6 DEF Serve

\* nor its death leave the types.
LEMMA CrashType ==
  ASSUME TasksTypeOK, NEW w \in Workers, Crash(w)
  PROVE  TasksTypeOK'
<1>1. TaskOf(w) \in Task /\ Counter(w) \in Kinds \X Jobs
  BY Held DEF Crash
<1>2. running' \in [Workers -> Running]
  <2>1. Idle \in Running
    BY DEF Idle, Running
  <2> QED
    BY <2>1 DEF Crash, TasksTypeOK
<1>3. crashes' \in 0 .. MaxCrashes
  BY TasksAssumption DEF Crash, TasksTypeOK
<1>4. queue' \in [Task -> Nat]
  BY <1>1 DEF Crash, TasksTypeOK
<1>5. mishaps' \in Counts
  BY <1>1 DEF Crash, TasksTypeOK, Counts
<1> QED
  BY <1>2, <1>3, <1>4, <1>5 DEF Crash, TasksTypeOK, webVars

\* Every step keeps the types.
LEMMA NextTasksType == TasksTypeOK /\ [TasksNext]_taskVars => TasksTypeOK'
<1> SUFFICES ASSUME TasksTypeOK, [TasksNext]_taskVars
             PROVE  TasksTypeOK'
  OBVIOUS
<1>1. CASE UNCHANGED taskVars
  BY <1>1 DEF taskVars, TasksTypeOK
<1> QED
  BY <1>1, WebType, ServeType, CrashType DEF TasksNext

\* Queues, counters and rows keep their types: no message is taken twice.
THEOREM TasksTypeCorrect == TasksSpec => []TasksTypeOK
BY InitTasksType, NextTasksType, PTL DEF TasksSpec

-----------------------------------------------------------------------------
(* Where the inbox may be wrong. *)

Exists(j) == job[j].status # "none"

\* A publisher's row is still as its call found it; a row read is one that
\* exists, and whose worker stays; what is stored is about such a row.
Told ==
  /\ \A j \in Jobs : tx[j] # "none" => job[j].status = Needs[tx[j]]
  /\ \A j \in Jobs : job[j].status = "none" => job[j] = NoRow
  /\ \A w \in Workers : On(w, "store") =>
       /\ Exists(TaskOf(w).job)
       /\ running[w].row.worker => job[TaskOf(w).job].worker
  /\ \A j \in Jobs :
       /\ stored[<<"new_job", j>>] > 0 => Exists(j)
       /\ stored[<<"job_accepted", j>>] > 0 => job[j].worker
       /\ stored[<<"job_completed", j>>] > 0 => job[j].worker

\* A call on j leaves the facts the workers rely on.
LEMMA RowsAreKept ==
  ASSUME TasksTypeOK, TasksTypeOK', Told,
         running' = running, stored' = stored,
         \A j \in Jobs : tx'[j] # "none" => job'[j].status = Needs[tx'[j]],
         \A j \in Jobs : job'[j].status = "none" => job'[j] = NoRow,
         \A j \in Jobs : /\ Exists(j) => job'[j].status # "none"
                         /\ job[j].worker => job'[j].worker
  PROVE  Told'
<1>1. ASSUME NEW w \in Workers, On(w, "store")
      PROVE  TaskOf(w).job \in Jobs
  BY <1>1, Held DEF On, Task
<1>2. \A w \in Workers : On(w, "store")' =>
        /\ Exists(TaskOf(w).job)'
        /\ running'[w].row.worker => job'[TaskOf(w).job].worker
  BY <1>1 DEF Told, On, TaskOf, Exists
<1>3. \A j \in Jobs :
        /\ stored'[<<"new_job", j>>] > 0 => Exists(j)'
        /\ stored'[<<"job_accepted", j>>] > 0 => job'[j].worker
        /\ stored'[<<"job_completed", j>>] > 0 => job'[j].worker
  BY DEF Told, Exists
<1> QED
  BY <1>2, <1>3 DEF Told, On, TaskOf

\* A row that exists stays, and so does its worker.
LEMMA WebTold ==
  ASSUME TasksTypeOK, TasksTypeOK', Told, NEW j \in Jobs, WebStep(j)
  PROVE  Told'
<1>1. ASSUME NEW kind \in Kinds, Publish(kind, j)
      PROVE  Told'
  <2>1. /\ job' = job /\ running' = running /\ stored' = stored
        /\ tx' = [tx EXCEPT ![j] = kind] /\ job[j].status = Needs[kind]
    BY <1>1 DEF Publish
  <2>2. \A i \in Jobs : tx'[i] # "none" => job'[i].status = Needs[tx'[i]]
    BY <2>1 DEF Told, TasksTypeOK
  <2> QED
    BY <2>1, <2>2, RowsAreKept DEF Told, Exists
<1>2. CASE Commit(j)
  <2>1. /\ tx[j] \in Kinds /\ job[j].status = Needs[tx[j]]
        /\ job[j] \in JobRow
        /\ job' = [job EXCEPT ![j] = Committed(tx[j], job[j])]
        /\ tx' = [tx EXCEPT ![j] = "none"]
        /\ running' = running /\ stored' = stored
    BY <1>2 DEF Commit, TasksTypeOK, Told
  <2>2. /\ Committed(tx[j], job[j]).status # "none"
        /\ job[j].worker => Committed(tx[j], job[j]).worker
    <3>1. CASE tx[j] = "new_job"
      <4>1. job[j].status = "none"
        BY <2>1, <3>1 DEF Needs
      <4>2. ~job[j].worker
        BY <4>1 DEF Told, NoRow
      <4> QED
        BY <3>1, <4>2 DEF Committed
    <3>2. CASE tx[j] = "job_accepted"
      BY <3>2 DEF Committed
    <3>3. CASE tx[j] = "job_completed"
      BY <2>1, <3>3 DEF Committed, JobRow
    <3> QED
      BY <2>1, <3>1, <3>2, <3>3 DEF Kinds
  <2>3. \A i \in Jobs : i # j => job'[i] = job[i] /\ tx'[i] = tx[i]
    BY <2>1 DEF TasksTypeOK
  <2>4. job'[j] = Committed(tx[j], job[j]) /\ tx'[j] = "none"
    BY <2>1 DEF TasksTypeOK
  <2>5. \A i \in Jobs : tx'[i] # "none" => job'[i].status = Needs[tx'[i]]
    BY <2>3, <2>4 DEF Told
  <2>6. \A i \in Jobs : job'[i].status = "none" => job'[i] = NoRow
    BY <2>2, <2>3, <2>4 DEF Told
  <2>7. \A i \in Jobs : /\ Exists(i) => job'[i].status # "none"
                        /\ job[i].worker => job'[i].worker
    BY <2>2, <2>3, <2>4 DEF Exists
  <2> QED
    BY <2>1, <2>5, <2>6, <2>7, RowsAreKept
<1>3. CASE Rollback(j)
  <2>1. /\ job' = job /\ running' = running /\ stored' = stored
        /\ tx' = [tx EXCEPT ![j] = "none"]
    BY <1>3 DEF Rollback
  <2>2. \A i \in Jobs : tx'[i] # "none" => job'[i].status = Needs[tx'[i]]
    BY <2>1 DEF Told, TasksTypeOK
  <2> QED
    BY <2>1, <2>2, RowsAreKept DEF Told, Exists
<1>4. ASSUME NEW from, NEW to \in {"in_progress", "cancelled"},
             Move(j, from, to)
      PROVE  Told'
  <2>1. /\ tx' = tx /\ running' = running /\ stored' = stored
        /\ tx[j] = "none" /\ job[j] \in JobRow
        /\ job' = [job EXCEPT ![j].status = to]
    BY <1>4 DEF Move, TasksTypeOK
  <2>2. \A i \in Jobs : i # j => job'[i] = job[i]
    BY <2>1 DEF TasksTypeOK
  <2>3. job'[j].status = to /\ job'[j].worker = job[j].worker
    BY <2>1 DEF TasksTypeOK, JobRow
  <2>4. \A i \in Jobs : tx'[i] # "none" => job'[i].status = Needs[tx'[i]]
    BY <2>1, <2>2 DEF Told
  <2>5. \A i \in Jobs : job'[i].status = "none" => job'[i] = NoRow
    BY <2>2, <2>3 DEF Told
  <2>6. \A i \in Jobs : /\ Exists(i) => job'[i].status # "none"
                        /\ job[i].worker => job'[i].worker
    BY <2>2, <2>3 DEF Exists
  <2> QED
    BY <2>1, <2>4, <2>5, <2>6, RowsAreKept
<1> QED
  BY <1>1, <1>2, <1>3, <1>4 DEF WebStep, StartJob, CancelJob

\* A worker that is not about to store needs no justification.
LEMMA OtherPhase ==
  ASSUME TasksTypeOK, Told, NEW w \in Workers, job' = job, tx' = tx,
         \A v \in Workers \ {w} : running'[v] = running[v],
         running'[w].phase # "store", stored' = stored
  PROVE  Told'
<1>1. job' = job /\ tx' = tx
  OBVIOUS
<1>3. \A v \in Workers : On(v, "store")' =>
        /\ Exists(TaskOf(v).job)'
        /\ running'[v].row.worker => job'[TaskOf(v).job].worker
  <2> SUFFICES ASSUME NEW v \in Workers, running'[v].phase = "store"
               PROVE  /\ job'[running'[v].task.job].status # "none"
                      /\ running'[v].row.worker =>
                           job'[running'[v].task.job].worker
    BY DEF On, TaskOf, Exists
  <2>1. v # w /\ running'[v] = running[v]
    OBVIOUS
  <2> QED
    BY <1>1, <2>1 DEF Told, On, TaskOf, Exists
<1> QED
  BY <1>1, <1>3 DEF Told, Exists, On, TaskOf

\* Also one that goes on to another phase.
LEMMA GoneTo ==
  ASSUME TasksTypeOK, NEW w \in Workers, NEW phase, Goto(w, phase)
  PROVE  /\ running'[w] = [phase |-> phase, task |-> TaskOf(w)]
         /\ running'[w].phase = phase
         /\ \A v \in Workers \ {w} : running'[v] = running[v]
<1> DEFINE new == [phase |-> phase, task |-> TaskOf(w)]
<1>1. running' = [running EXCEPT ![w] = new]
  BY DEF Goto
<1>2. new.phase = phase
  OBVIOUS
<1> HIDE DEF new
<1>3. running'[w] = new /\ \A v \in Workers \ {w} : running'[v] = running[v]
  BY <1>1 DEF TasksTypeOK
<1> QED
  BY <1>2, <1>3 DEF new

\* After acknowledging or giving up an attempt nothing is about to be stored.
LEMMA GoesOn ==
  ASSUME TasksTypeOK, Told, NEW w \in Workers, job' = job, tx' = tx,
         stored' = stored, Goto(w, "ack") \/ Goto(w, "retry")
  PROVE  Told'
<1>1. /\ running'[w].phase # "store"
      /\ \A v \in Workers \ {w} : running'[v] = running[v]
  <2>1. CASE Goto(w, "ack")
    BY <2>1 DEF Goto, TasksTypeOK
  <2>2. CASE Goto(w, "retry")
    BY <2>2 DEF Goto, TasksTypeOK
  <2> QED
    BY <2>1, <2>2
<1> QED
  BY <1>1, OtherPhase

\* What a worker writes, it has read.
LEMMA ServeTold ==
  ASSUME TasksTypeOK, Told, NEW w \in Workers, Serve(w) \/ Crash(w)
  PROVE  Told'
<1>1. CASE Take(w)
  <2>1. PICK t \in Task :
          running' = [running EXCEPT ![w] = [phase |-> "load", task |-> t]]
    BY <1>1 DEF Take
  <2>2. running'[w] = [phase |-> "load", task |-> t]
    BY <2>1 DEF TasksTypeOK
  <2>3. \A v \in Workers \ {w} : running'[v] = running[v]
    BY <2>1 DEF TasksTypeOK
  <2> QED
    BY <1>1, <2>2, <2>3, OtherPhase DEF Take, webVars
<1>2. CASE Load(w)
  <2> DEFINE row == job[TaskOf(w).job]
             new == [phase |-> "store", task |-> TaskOf(w), row |-> row]
  <2>1. CASE running' = [running EXCEPT ![w] = new] /\ row # NoRow
    <3>1. TaskOf(w).job \in Jobs
      BY <1>2, Held DEF Load, On, Task
    <3>2. Exists(TaskOf(w).job)
      BY <2>1, <3>1 DEF Told, Exists
    <3>3. job' = job /\ tx' = tx /\ stored' = stored
      BY <1>2 DEF Load, webVars
    <3>4. \A v \in Workers : running'[v] = IF v = w THEN new ELSE running[v]
      <4> HIDE DEF new
      <4> QED
        BY <2>1 DEF TasksTypeOK
    <3>5. \A v \in Workers : running'[v].phase = "store" =>
            /\ job'[running'[v].task.job].status # "none"
            /\ running'[v].row.worker => job'[running'[v].task.job].worker
      <4> SUFFICES ASSUME NEW v \in Workers, running'[v].phase = "store"
                   PROVE  /\ job'[running'[v].task.job].status # "none"
                          /\ running'[v].row.worker =>
                               job'[running'[v].task.job].worker
        OBVIOUS
      <4>1. CASE v = w
        BY <3>2, <3>3, <3>4, <4>1 DEF Exists
      <4>2. CASE v # w
        BY <3>3, <3>4, <4>2 DEF Told, On, TaskOf, Exists
      <4> QED
        BY <4>1, <4>2
    <3> QED
      BY <3>3, <3>5 DEF Told, On, TaskOf, Exists
  <2>2. CASE Goto(w, "retry")
    BY <1>2, <2>2, GoesOn DEF Load, webVars
  <2> QED
    BY <1>2, <2>1, <2>2 DEF Load
<1>3. CASE Store(w)
  <2>1. CASE stored' = stored /\ (Goto(w, "ack") \/ Goto(w, "retry"))
    BY <1>3, <2>1, GoesOn DEF Store, webVars
  <2>2. CASE /\ Names(TaskOf(w).kind, running[w].row)
             /\ stored' = [stored EXCEPT ![Counter(w)] = @ + 1]
             /\ Goto(w, "push")
    <3> DEFINE k == TaskOf(w).kind
               i == TaskOf(w).job
    <3>1. /\ k \in Kinds /\ i \in Jobs
      BY <1>3, Held DEF Store, On, Task
    <3>2. /\ Exists(i)
          /\ k \in {"job_accepted", "job_completed"} => job[i].worker
      BY <1>3, <2>2 DEF Told, Store, Names
    <3>3. job' = job /\ tx' = tx
      BY <1>3 DEF Store, webVars
    <3>4. /\ Counter(w) = <<k, i>>
          /\ stored' = [stored EXCEPT ![<<k, i>>] = stored[<<k, i>>] + 1]
      BY <2>2 DEF Counter
    <3> HIDE DEF k, i
    <3>5. \A h \in Kinds, j \in Jobs : <<h, j>> # <<k, i>> =>
            stored'[<<h, j>>] = stored[<<h, j>>]
      BY <3>4 DEF TasksTypeOK, Counts
    <3>6. \A j \in Jobs :
            /\ stored'[<<"new_job", j>>] > 0 => Exists(j)
            /\ stored'[<<"job_accepted", j>>] > 0 => job[j].worker
            /\ stored'[<<"job_completed", j>>] > 0 => job[j].worker
      <4>1. {"new_job", "job_accepted", "job_completed"} \subseteq Kinds
        BY DEF Kinds
      <4>2. ASSUME NEW j \in Jobs, stored'[<<"new_job", j>>] > 0
            PROVE  Exists(j)
        <5>1. CASE j = i
          BY <3>2, <5>1
        <5>2. CASE j # i
          BY <3>5, <4>1, <4>2, <5>2 DEF Told
        <5> QED
          BY <5>1, <5>2
      <4>3. ASSUME NEW j \in Jobs, NEW h \in {"job_accepted", "job_completed"},
                   stored'[<<h, j>>] > 0
            PROVE  job[j].worker
        <5>1. CASE j = i /\ k = h
          BY <3>2, <5>1
        <5>2. CASE j # i \/ k # h
          <6>1. <<h, j>> # <<k, i>>
            BY <5>2
          <6>2. stored[<<h, j>>] > 0
            BY <3>5, <4>1, <4>3, <6>1
          <6> QED
            BY <6>2 DEF Told
        <5> QED
          BY <5>1, <5>2
      <4> QED
        BY <4>2, <4>3
    <3>7. \A v \in Workers : running'[v].phase = "store" =>
            v # w /\ running'[v] = running[v]
      <4>1. Goto(w, "push")
        BY <2>2
      <4>2. /\ running'[w].phase = "push"
            /\ \A v \in Workers \ {w} : running'[v] = running[v]
        BY <4>1, GoneTo
      <4> QED
        BY <4>2
    <3>8. \A v \in Workers : running'[v].phase = "store" =>
            /\ job'[running'[v].task.job].status # "none"
            /\ running'[v].row.worker => job'[running'[v].task.job].worker
      BY <3>3, <3>7 DEF Told, On, TaskOf, Exists
    <3> QED
      BY <3>3, <3>6, <3>8 DEF Told, On, TaskOf, Exists
  <2> QED
    BY <1>3, <2>1, <2>2 DEF Store
<1>4. CASE Push(w) \/ Retry(w)
  <2>1. Goto(w, "ack") \/ Goto(w, "retry")
    BY <1>4 DEF Push, Retry
  <2>2. job' = job /\ tx' = tx /\ stored' = stored
    BY <1>4 DEF Push, Retry, webVars
  <2> QED
    BY <2>1, <2>2, GoesOn
<1>5. CASE Ack(w) \/ Crash(w)
  <2>1. /\ running'[w].phase = "idle"
        /\ \A v \in Workers \ {w} : running'[v] = running[v]
    BY <1>5 DEF Ack, Crash, Idle, TasksTypeOK
  <2>2. job' = job /\ tx' = tx /\ stored' = stored
    BY <1>5 DEF Ack, Crash, webVars
  <2> QED
    BY <2>1, <2>2, OtherPhase
<1> QED
  BY <1>1, <1>2, <1>3, <1>4, <1>5 DEF Serve

\* What waits, is worked on or is stored, some call has published.
Behind ==
  /\ \A t \in Task : queue[t] > 0 => published[<<t.kind, t.job>>] > 0
  /\ \A w \in Workers : ~On(w, "idle") => published[Counter(w)] > 0
  /\ \A k \in Kinds \X Jobs : stored[k] > 0 => published[k] > 0

\* A step of a worker that holds, and goes on with, the task t.
LEMMA StillBehind ==
  ASSUME TasksTypeOK, TasksTypeOK', Behind, published' = published,
         NEW w \in Workers, NEW c \in Kinds \X Jobs, published[c] > 0,
         \A v \in Workers \ {w} : running'[v] = running[v],
         On(w, "idle")' \/ Counter(w)' = c,
         \A t \in Task : queue'[t] > queue[t] => <<t.kind, t.job>> = c,
         \A k \in Kinds \X Jobs : k # c => stored'[k] = stored[k]
  PROVE  Behind'
<1>1. ASSUME NEW t \in Task, queue'[t] > 0
      PROVE  published'[<<t.kind, t.job>>] > 0
  <2>1. CASE <<t.kind, t.job>> = c
    BY <2>1
  <2>2. CASE <<t.kind, t.job>> # c
    <3>1. queue[t] \in Nat /\ queue'[t] \in Nat
      BY DEF TasksTypeOK
    <3>2. queue[t] > 0
      BY <1>1, <2>2, <3>1
    <3> QED
      BY <3>2 DEF Behind
  <2> QED
    BY <2>1, <2>2
<1>2. ASSUME NEW v \in Workers, ~On(v, "idle")'
      PROVE  published'[Counter(v)'] > 0
  <2>1. CASE v = w
    BY <1>2, <2>1
  <2>2. CASE v # w
    BY <1>2, <2>2 DEF Behind, On, Counter, TaskOf
  <2> QED
    BY <2>1, <2>2
<1>3. ASSUME NEW k \in Kinds \X Jobs, stored'[k] > 0
      PROVE  published'[k] > 0
  <2>1. CASE k = c
    BY <2>1
  <2>2. CASE k # c
    BY <1>3, <2>2 DEF Behind
  <2> QED
    BY <2>1, <2>2
<1> QED
  BY <1>1, <1>2, <1>3 DEF Behind

\* A call publishes before a worker can take its task.
LEMMA WebBehind ==
  ASSUME TasksTypeOK, TasksTypeOK', Behind, NEW j \in Jobs, WebStep(j)
  PROVE  Behind'
<1>1. running' = running /\ stored' = stored
  BY DEF WebStep, Publish, Commit, Rollback, StartJob, CancelJob, Move
<1>2. ASSUME NEW w \in Workers, ~On(w, "idle")
      PROVE  Counter(w) \in Kinds \X Jobs
  BY <1>2, Held
<1>3. ASSUME NEW kind \in Kinds, Publish(kind, j)
      PROVE  Behind'
  <2> DEFINE s == Started(kind, j)
             d == <<kind, j>>
  <2>1. s \in Task /\ <<s.kind, s.job>> = d /\ d \in Kinds \X Jobs
    BY TasksAssumption DEF Started, Task
  <2>2. /\ queue' = [queue EXCEPT ![s] = queue[s] + 1]
        /\ published' = [published EXCEPT ![d] = published[d] + 1]
    BY <1>3 DEF Publish
  <2> HIDE DEF s, d
  <2>3. /\ published'[d] > 0
        /\ \A k \in Kinds \X Jobs : published[k] > 0 => published'[k] > 0
    BY <2>1, <2>2 DEF TasksTypeOK, Counts
  <2>4. \A t \in Task : t # s => queue'[t] = queue[t]
    BY <2>2 DEF TasksTypeOK
  <2>5. ASSUME NEW t \in Task, queue'[t] > 0
        PROVE  published'[<<t.kind, t.job>>] > 0
    <3>1. CASE t = s
      BY <2>1, <2>3, <3>1
    <3>2. CASE t # s
      <4>1. published[<<t.kind, t.job>>] > 0
        BY <2>4, <2>5, <3>2 DEF Behind
      <4>2. <<t.kind, t.job>> \in Kinds \X Jobs
        BY DEF Task
      <4> QED
        BY <2>3, <4>1, <4>2
    <3> QED
      BY <3>1, <3>2
  <2>6. \A w \in Workers : ~On(w, "idle")' => published'[Counter(w)'] > 0
    BY <1>1, <1>2, <2>3 DEF Behind, On, Counter, TaskOf
  <2>7. \A k \in Kinds \X Jobs : stored'[k] > 0 => published'[k] > 0
    BY <1>1, <2>3 DEF Behind
  <2> QED
    BY <2>5, <2>6, <2>7 DEF Behind
<1>4. CASE queue' = queue /\ published' = published
  BY <1>1, <1>4 DEF Behind, On, Counter, TaskOf
<1> QED
  BY <1>3, <1>4
  DEF WebStep, Commit, Rollback, StartJob, CancelJob, Move

\* A worker stores and repeats what it took.
LEMMA ServeBehind ==
  ASSUME TasksTypeOK, TasksTypeOK', Behind,
         NEW w \in Workers, Serve(w) \/ Crash(w)
  PROVE  Behind'
<1>1. published' = published
  BY DEF Serve, Take, Load, Store, Push, Retry, Ack, Crash, webVars
<1>2. CASE Take(w)
  <2>1. PICK t \in Task :
          /\ queue[t] > 0 /\ queue' = [queue EXCEPT ![t] = @ - 1]
          /\ running' = [running EXCEPT ![w] = [phase |-> "load", task |-> t]]
    BY <1>2 DEF Take
  <2>2. PICK c \in Kinds \X Jobs : c = <<t.kind, t.job>>
    BY DEF Task
  <2>3. published[c] > 0
    BY <2>1, <2>2 DEF Behind
  <2>4. /\ running'[w].task = t
        /\ \A v \in Workers \ {w} : running'[v] = running[v]
    BY <2>1 DEF TasksTypeOK
  <2>5. Counter(w)' = c
    BY <2>2, <2>4 DEF Counter, TaskOf
  <2>6. \A u \in Task : ~(queue'[u] > queue[u])
    BY <2>1 DEF TasksTypeOK
  <2>7. stored' = stored
    BY <1>2 DEF Take
  <2> QED
    BY <1>1, <2>3, <2>4, <2>5, <2>6, <2>7, StillBehind
<1>3. CASE ~Take(w)
  <2>1. ~On(w, "idle")
    BY <1>3 DEF Serve, Load, Store, Push, Retry, Ack, Crash, On
  <2>2. PICK t \in Task, c \in Kinds \X Jobs :
          t = TaskOf(w) /\ c = Counter(w) /\ c = <<t.kind, t.job>>
    BY <2>1, Held DEF Counter
  <2>3. published[c] > 0
    BY <2>1, <2>2 DEF Behind
  <2>4. ASSUME NEW phase, Goto(w, phase)
        PROVE  /\ Counter(w)' = c
               /\ \A v \in Workers \ {w} : running'[v] = running[v]
    <3>1. running'[w] = [phase |-> phase, task |-> TaskOf(w)]
      BY <2>4, GoneTo
    <3>2. running'[w].task = TaskOf(w)
      BY <3>1
    <3> QED
      BY <2>2, <2>4, <3>2, GoneTo DEF Counter, TaskOf
  <2>5. CASE Load(w)
    <3>1. queue' = queue /\ stored' = stored
      BY <2>5 DEF Load
    <3>2. /\ Counter(w)' = c
          /\ \A v \in Workers \ {w} : running'[v] = running[v]
      <4>1. CASE running' = [running EXCEPT ![w] =
                   [phase |-> "store", task |-> TaskOf(w),
                    row |-> job[TaskOf(w).job]]]
        <5>1. /\ \A v \in Workers \ {w} : running'[v] = running[v]
              /\ running'[w].task = TaskOf(w)
          BY <4>1 DEF TasksTypeOK
        <5> QED
          BY <2>2, <5>1 DEF Counter, TaskOf
      <4> QED
        BY <2>4, <2>5, <4>1 DEF Load
    <3>3. \A u \in Task : ~(queue'[u] > queue[u])
      BY <3>1 DEF TasksTypeOK
    <3> QED
      BY <1>1, <2>3, <3>1, <3>2, <3>3, StillBehind
  <2>6. CASE Store(w)
    <3>1. queue' = queue
      BY <2>6 DEF Store
    <3>2. Goto(w, "push") \/ Goto(w, "ack") \/ Goto(w, "retry")
      BY <2>6 DEF Store
    <3>3. \A k \in Kinds \X Jobs : k # c => stored'[k] = stored[k]
      <4>1. stored' = stored \/ stored' = [stored EXCEPT ![c] = @ + 1]
        BY <2>2, <2>6 DEF Store
      <4> QED
        BY <4>1 DEF TasksTypeOK, Counts
    <3>4. \A u \in Task : ~(queue'[u] > queue[u])
      BY <3>1 DEF TasksTypeOK
    <3> QED
      BY <1>1, <2>3, <2>4, <3>2, <3>3, <3>4, StillBehind
  <2>7. CASE Push(w)
    <3>1. queue' = queue /\ stored' = stored
      BY <2>7 DEF Push
    <3>2. Goto(w, "ack") \/ Goto(w, "retry")
      BY <2>7 DEF Push
    <3>3. \A u \in Task : ~(queue'[u] > queue[u])
      BY <3>1 DEF TasksTypeOK
    <3> QED
      BY <1>1, <2>3, <2>4, <3>1, <3>2, <3>3, StillBehind
  <2>8. CASE Retry(w)
    <3> DEFINE again == [t EXCEPT !.retries = @ + 1]
    <3>1. stored' = stored /\ Goto(w, "ack")
      BY <2>8 DEF Retry
    <3>2. \A u \in Task : queue'[u] > queue[u] => <<u.kind, u.job>> = c
      <4>1. CASE t.retries < MaxRetries
        <5>1. c = <<again.kind, again.job>>
          BY <2>2 DEF Task
        <5>2. queue' = [queue EXCEPT ![again] = @ + 1]
          BY <2>2, <2>8, <4>1 DEF Retry
        <5> HIDE DEF again
        <5>3. \A u \in Task : u # again => queue'[u] = queue[u]
          BY <5>2 DEF TasksTypeOK
        <5> SUFFICES ASSUME NEW u \in Task, queue'[u] > queue[u]
                     PROVE  u = again
          BY <5>1
        <5> QED
          BY <5>3 DEF TasksTypeOK
      <4>2. CASE ~(t.retries < MaxRetries)
        BY <2>2, <2>8, <4>2 DEF Retry, TasksTypeOK
      <4> QED
        BY <4>1, <4>2
    <3> QED
      BY <1>1, <2>3, <2>4, <3>1, <3>2, StillBehind
  <2>9. CASE Ack(w) \/ Crash(w)
    <3>1. /\ \A v \in Workers \ {w} : running'[v] = running[v]
          /\ running'[w].phase = "idle"
      BY <2>9 DEF Ack, Crash, Idle, TasksTypeOK
    <3>2. On(w, "idle")'
      BY <3>1 DEF On
    <3>3. stored' = stored
      BY <2>9 DEF Ack, Crash
    <3>4. \A u \in Task : queue'[u] > queue[u] => u = t
      BY <2>2, <2>9 DEF Ack, Crash, TasksTypeOK
    <3> QED
      BY <1>1, <2>2, <2>3, <3>1, <3>2, <3>3, <3>4, StillBehind
  <2> QED
    BY <1>3, <2>5, <2>6, <2>7, <2>8, <2>9 DEF Serve
<1> QED
  BY <1>2, <1>3

\* A completion was published for a job that was started, and it is over or
\* was undone.
Finishing(j) ==
  published[<<"job_completed", j>>] > 0 =>
    /\ job[j].status \in {"in_progress", "completed", "cancelled"}
    /\ \/ job[j].status = "completed"
       \/ tx[j] = "job_completed" \/ j \in undone

\* What is completed stays so, and a row is held until its call has ended.
LEMMA WebFinishing ==
  ASSUME TasksTypeOK, TasksTypeOK', Told, \A i \in Jobs : Finishing(i),
         NEW j \in Jobs, WebStep(j)
  PROVE  \A i \in Jobs : Finishing(i)'
<1>1. ASSUME NEW i \in Jobs, i # j
      PROVE  /\ job'[i] = job[i] /\ tx'[i] = tx[i] /\ (i \in undone => i \in undone')
             /\ published'[<<"job_completed", i>>]
                  = published[<<"job_completed", i>>]
  <2>1. ASSUME NEW kind \in Kinds, Publish(kind, j)
        PROVE  published'[<<"job_completed", i>>]
                 = published[<<"job_completed", i>>]
    <3>1. PICK d, e : d = <<kind, j>> /\ e = <<"job_completed", i>>
      OBVIOUS
    <3>2. d # e /\ e \in Kinds \X Jobs
      BY <1>1, <3>1 DEF Kinds
    <3>3. published' = [published EXCEPT ![d] = @ + 1]
      BY <2>1, <3>1 DEF Publish
    <3> QED
      BY <3>1, <3>2, <3>3 DEF TasksTypeOK, Counts
  <2> QED
    BY <1>1, <2>1
    DEF WebStep, Publish, Commit, Rollback, StartJob, CancelJob, Move, TasksTypeOK
<1>2. Finishing(j)'
  <2>1. ASSUME NEW kind \in Kinds, Publish(kind, j)
        PROVE  Finishing(j)'
    <3>1. job' = job /\ undone' = undone /\ tx'[j] = kind /\ tx[j] = "none"
      BY <2>1 DEF Publish, TasksTypeOK
    <3>2. CASE kind = "job_completed"
      <4>1. job[j].status = "in_progress"
        BY <2>1, <3>2 DEF Publish, Needs
      <4> QED
        BY <3>1, <3>2, <4>1 DEF Finishing
    <3>3. CASE kind # "job_completed"
      <4>1. PICK d, e : d = <<kind, j>> /\ e = <<"job_completed", j>>
        OBVIOUS
      <4>2. d # e /\ e \in Kinds \X Jobs
        BY <3>3, <4>1 DEF Kinds
      <4>3. published' = [published EXCEPT ![d] = @ + 1]
        BY <2>1, <4>1 DEF Publish
      <4>4. published'[e] = published[e]
        BY <4>2, <4>3 DEF TasksTypeOK, Counts
      <4> QED
        BY <3>1, <4>1, <4>4 DEF Finishing
    <3> QED
      BY <3>2, <3>3
  <2>2. CASE Commit(j)
    <3>1. /\ tx[j] \in Kinds /\ job[j].status = Needs[tx[j]] /\ job[j] \in JobRow
          /\ job'[j] = Committed(tx[j], job[j])
          /\ published' = published /\ undone' = undone
      BY <2>2 DEF Commit, TasksTypeOK, Told
    <3>2. CASE tx[j] = "job_completed"
      <4>1. job'[j].status = "completed"
        BY <3>1, <3>2 DEF Committed, JobRow
      <4> QED
        BY <4>1 DEF Finishing
    <3>3. CASE tx[j] # "job_completed"
      <4>1. job[j].status \in {"none", "created"}
        BY <3>1, <3>3 DEF Needs, Kinds
      <4> QED
        BY <3>1, <4>1 DEF Finishing
    <3> QED
      BY <3>2, <3>3
  <2>3. CASE Rollback(j)
    <3>1. /\ job' = job /\ published' = published
          /\ j \in undone \/ tx[j] = "job_completed" => j \in undone'
      BY <2>3 DEF Rollback
    <3> QED
      BY <3>1 DEF Finishing
  <2>4. CASE StartJob(j)
    <3>1. job[j].status = "accepted" /\ published' = published
      BY <2>4 DEF StartJob, Move
    <3> QED
      BY <3>1 DEF Finishing
  <2>5. CASE CancelJob(j)
    <3>1. /\ tx[j] = "none" /\ job[j].status # "completed"
          /\ published' = published /\ undone' = undone
          /\ job' = [job EXCEPT ![j].status = "cancelled"]
      BY <2>5 DEF CancelJob, Move
    <3>2. job'[j].status = "cancelled"
      BY <3>1 DEF TasksTypeOK, JobRow
    <3> QED
      BY <3>1, <3>2 DEF Finishing
  <2> QED
    BY <2>1, <2>2, <2>3, <2>4, <2>5 DEF WebStep
<1> QED
  BY <1>1, <1>2 DEF Finishing

(***************************************************************************)
(* Whatever is rolled back, retried, lost or delivered again, the inbox    *)
(* announces only jobs that exist and acceptances that happened, and of a  *)
(* completion it is wrong only until complete_job ends, or when it was     *)
(* rolled back.                                                            *)
(***************************************************************************)
THEOREM WrongOnlyMeanwhile == TasksSpec => []WrongOnlyBeforeCommit
<1> DEFINE Inv == Told /\ Behind /\ \A j \in Jobs : Finishing(j)
<1>1. TasksInit => Inv
  <2> SUFFICES ASSUME TasksInit
               PROVE  Inv
    OBVIOUS
  <2>1. \A j \in Jobs : tx[j] = "none" /\ job[j] = NoRow
    BY DEF TasksInit
  <2>2. \A w \in Workers : ~On(w, "store") /\ On(w, "idle")
    BY DEF TasksInit, On, Idle
  <2>3. /\ \A k \in Kinds \X Jobs : stored[k] = 0 /\ published[k] = 0
        /\ \A t \in Task : queue[t] = 0
    BY DEF TasksInit
  <2>4. \A j \in Jobs, k \in Kinds : stored[<<k, j>>] = 0 /\ published[<<k, j>>] = 0
    BY <2>3
  <2>5. {"new_job", "job_accepted", "job_completed"} \subseteq Kinds
    BY DEF Kinds
  <2>6. Told
    BY <2>1, <2>2, <2>4, <2>5 DEF Told
  <2>7. Behind
    BY <2>2, <2>3 DEF Behind
  <2>8. \A j \in Jobs : Finishing(j)
    BY <2>4, <2>5 DEF Finishing
  <2> QED
    BY <2>6, <2>7, <2>8
<1>2. TasksTypeOK /\ TasksTypeOK' /\ Inv /\ [TasksNext]_taskVars => Inv'
  <2> SUFFICES ASSUME TasksTypeOK, TasksTypeOK', Inv, [TasksNext]_taskVars
               PROVE  Inv'
    OBVIOUS
  <2>1. CASE UNCHANGED taskVars
    BY <2>1
    DEF taskVars, Told, Behind, Finishing, On, Counter, TaskOf, Exists
  <2>2. ASSUME NEW j \in Jobs, WebStep(j)
        PROVE  Inv'
    BY <2>2, WebTold, WebBehind, WebFinishing
  <2>3. ASSUME NEW w \in Workers, Serve(w) \/ Crash(w)
        PROVE  Inv'
    <3>1. job' = job /\ tx' = tx /\ undone' = undone /\ published' = published
      BY <2>3 DEF Serve, Take, Load, Store, Push, Retry, Ack, Crash, webVars
    <3>2. \A j \in Jobs : Finishing(j)'
      BY <3>1 DEF Finishing
    <3> QED
      BY <2>3, <3>2, ServeTold, ServeBehind
  <2> QED
    BY <2>1, <2>2, <2>3 DEF TasksNext
<1>3. Inv => WrongOnlyBeforeCommit
  <2> SUFFICES ASSUME Inv, NEW j \in Jobs
               PROVE  /\ stored[<<"new_job", j>>] > 0 => job[j] # NoRow
                      /\ stored[<<"job_accepted", j>>] > 0 => job[j].worker
                      /\ stored[<<"job_completed", j>>] > 0 =>
                           /\ job[j].worker
                           /\ job[j].status \in
                                {"in_progress", "completed", "cancelled"}
                           /\ \/ job[j].status = "completed"
                              \/ tx[j] = "job_completed" \/ j \in undone
    BY DEF WrongOnlyBeforeCommit
  <2>1. Exists(j) => job[j] # NoRow
    BY DEF Exists, NoRow
  <2>2. stored[<<"job_completed", j>>] > 0 =>
          published[<<"job_completed", j>>] > 0
    <3>1. <<"job_completed", j>> \in Kinds \X Jobs
      BY DEF Kinds
    <3> QED
      BY <3>1 DEF Behind
  <2> QED
    BY <2>1, <2>2 DEF Told, Finishing
<1> HIDE DEF Inv
<1>4. TasksSpec => []Inv
  BY <1>1, <1>2, TasksTypeCorrect, PTL DEF TasksSpec
<1> QED
  BY <1>3, <1>4, PTL

-----------------------------------------------------------------------------
(* Every duplicate is explained. *)

About(k) == {t \in Task : <<t.kind, t.job>> = k}

\* A worker that may yet write the notification, or have it written again.
Owes(w, k) == running[w].phase \in {"load", "store", "retry"} /\ Counter(w) = k
Owed(k) == [w \in Workers |-> IF Owes(w, k) THEN 1 ELSE 0]

\* What is written and what may yet be were published, or follow a failure.
Accounted(k) ==
  /\ Countable(About(k), queue) /\ Countable(Workers, Owed(k))
  /\ stored[k] + Total(About(k), queue) + Total(Workers, Owed(k))
       <= published[k] + mishaps[k]
AllAccounted == \A k \in Kinds \X Jobs : Accounted(k)

\* Nothing is pending at first.
LEMMA InitAccounted == TasksInit => AllAccounted
<1> SUFFICES ASSUME TasksInit, NEW k \in Kinds \X Jobs
             PROVE  Accounted(k)
  BY DEF AllAccounted
<1>1. Coins(About(k), queue) = {}
  <2>1. \A t \in About(k) : 1 .. queue[t] = {}
    BY DEF TasksInit, About
  <2> QED
    BY <2>1 DEF Coins
<1>2. Coins(Workers, Owed(k)) = {}
  <2>1. \A w \in Workers : Owed(k)[w] = 0
    BY DEF TasksInit, Owed, Owes, Idle
  <2> HIDE DEF Owed
  <2>2. \A w \in Workers : 1 .. Owed(k)[w] = {}
    BY <2>1
  <2> QED
    BY <2>2 DEF Coins
<1>3. stored[k] = 0 /\ published[k] = 0 /\ mishaps[k] = 0
  BY DEF TasksInit
<1>4. IsFiniteSet({}) /\ Cardinality({}) = 0
  BY FS_EmptySet
<1> QED
  BY <1>1, <1>2, <1>3, <1>4 DEF Accounted, Countable, Total

\* A message more or less of t.
LEMMA QueueMoves ==
  ASSUME TasksTypeOK, TasksTypeOK', NEW k, Countable(About(k), queue),
         NEW t \in Task, \A u \in Task \ {t} : queue'[u] = queue[u]
  PROVE  /\ Countable(About(k), queue')
         /\ Total(About(k), queue') = Total(About(k), queue) +
              (IF <<t.kind, t.job>> = k THEN queue'[t] - queue[t] ELSE 0)
<1>1. queue \in [Task -> Nat] /\ queue' \in [Task -> Nat]
  BY DEF TasksTypeOK
<1>2. About(k) \in SUBSET Task /\ (t \in About(k) <=> <<t.kind, t.job>> = k)
  BY DEF About
<1>3. \A u \in About(k) \ {t} : queue'[u] = queue[u]
  BY <1>2
<1>4. /\ Countable(About(k), queue')
      /\ Total(About(k), queue') = Total(About(k), queue)
           + (IF t \in About(k) THEN queue'[t] ELSE 0)
           - (IF t \in About(k) THEN queue[t] ELSE 0)
  BY <1>1, <1>2, <1>3, TotalMoves
<1>5. /\ Total(About(k), queue) \in Nat
      /\ queue[t] \in Nat /\ queue'[t] \in Nat
  BY <1>1, TotalNat
<1> QED
  BY <1>2, <1>4, <1>5

\* A worker that takes a debt on or settles one.
LEMMA WorkerMoves ==
  ASSUME NEW k, Countable(Workers, Owed(k)), NEW w \in Workers,
         \A v \in Workers \ {w} : running'[v] = running[v]
  PROVE  /\ Countable(Workers, Owed(k)')
         /\ Total(Workers, Owed(k)') = Total(Workers, Owed(k))
              + (IF Owes(w, k)' THEN 1 ELSE 0) - (IF Owes(w, k) THEN 1 ELSE 0)
<1>1. Owed(k) \in [Workers -> Nat] /\ Owed(k)' \in [Workers -> Nat]
  BY DEF Owed
<1>2. \A v \in Workers \ {w} : Owed(k)'[v] = Owed(k)[v]
  BY DEF Owed, Owes, Counter, TaskOf
<1>3. /\ Owed(k)'[w] = IF Owes(w, k)' THEN 1 ELSE 0
      /\ Owed(k)[w] = IF Owes(w, k) THEN 1 ELSE 0
  BY DEF Owed
<1> HIDE DEF Owed
<1>4. /\ Countable(Workers, Owed(k)')
      /\ Total(Workers, Owed(k)') =
           Total(Workers, Owed(k)) + Owed(k)'[w] - Owed(k)[w]
  BY <1>1, <1>2, TotalMoves
<1> QED
  BY <1>3, <1>4

\* A call publishes what the broker gets.
LEMMA WebAccounted ==
  ASSUME TasksTypeOK, TasksTypeOK', AllAccounted, NEW j \in Jobs, WebStep(j)
  PROVE  AllAccounted'
<1> SUFFICES ASSUME NEW k \in Kinds \X Jobs
             PROVE  Accounted(k)'
  BY DEF AllAccounted
<1>1. Accounted(k)
  BY DEF AllAccounted
<1>2. running' = running /\ stored' = stored /\ mishaps' = mishaps
  BY DEF WebStep, Publish, Commit, Rollback, StartJob, CancelJob, Move
<1>3. Owed(k)' = Owed(k)
  BY <1>2 DEF Owed, Owes, Counter, TaskOf
<1>4. ASSUME NEW kind \in Kinds, Publish(kind, j)
      PROVE  Accounted(k)'
  <2> DEFINE t == Started(kind, j)
  <2>1. t \in Task /\ <<t.kind, t.job>> = <<kind, j>>
    BY TasksAssumption DEF Started, Task
  <2>2. queue' = [queue EXCEPT ![t] = queue[t] + 1]
    BY <1>4 DEF Publish
  <2> HIDE DEF t
  <2>3. queue'[t] = queue[t] + 1 /\ \A u \in Task \ {t} : queue'[u] = queue[u]
    BY <2>1, <2>2 DEF TasksTypeOK
  <2>4. queue[t] \in Nat
    BY <2>1 DEF TasksTypeOK
  <2>5. /\ Countable(About(k), queue')
        /\ Total(About(k), queue') = Total(About(k), queue) +
             (IF <<kind, j>> = k THEN 1 ELSE 0)
    <3>1. /\ Countable(About(k), queue')
          /\ Total(About(k), queue') = Total(About(k), queue) +
               (IF <<t.kind, t.job>> = k THEN queue'[t] - queue[t] ELSE 0)
      BY <1>1, <2>1, <2>3, QueueMoves DEF Accounted
    <3> QED
      BY <2>1, <2>3, <2>4, <3>1
  <2>6. published'[k] = published[k] + (IF <<kind, j>> = k THEN 1 ELSE 0)
    <3> DEFINE d == <<kind, j>>
    <3>1. /\ d \in Kinds \X Jobs
          /\ published' = [published EXCEPT ![d] = published[d] + 1]
      BY <1>4 DEF Publish
    <3> HIDE DEF d
    <3>2. published'[k] = published[k] + (IF d = k THEN 1 ELSE 0)
      BY <3>1 DEF TasksTypeOK, Counts
    <3> QED
      BY <3>2 DEF d
  <2>7. Total(About(k), queue) \in Nat /\ Total(Workers, Owed(k)) \in Nat
    <3>1. Countable(About(k), queue)
      BY <1>1 DEF Accounted
    <3>2. Countable(Workers, Owed(k))
      BY <1>1 DEF Accounted
    <3> QED
      BY <3>1, <3>2, TotalNat
  <2>8. stored[k] \in Nat /\ published[k] \in Nat /\ mishaps[k] \in Nat
    BY DEF TasksTypeOK, Counts
  <2> QED
    BY <1>1, <1>2, <1>3, <2>5, <2>6, <2>7, <2>8 DEF Accounted
<1>5. CASE queue' = queue /\ published' = published
  BY <1>1, <1>2, <1>3, <1>5 DEF Accounted, About
<1> QED
  BY <1>4, <1>5
  DEF WebStep, Commit, Rollback, StartJob, CancelJob, Move

\* A worker's step about t, counted under c, leaves the other workers,
\* messages and counters alone, ...
Aside(w, t, c) ==
  /\ \A v \in Workers \ {w} : running'[v] = running[v]
  /\ \A u \in Task \ {t} : queue'[u] = queue[u]
  /\ \A k \in Kinds \X Jobs : k # c =>
       /\ stored'[k] = stored[k] /\ mishaps'[k] = mishaps[k]
       /\ Owes(w, k)' => Owes(w, k)

\* ... and balances for c.
Balanced(w, t, c) ==
  stored'[c] + (queue'[t] - queue[t]) + (IF Owes(w, c)' THEN 1 ELSE 0)
    <= stored[c] + (mishaps'[c] - mishaps[c]) + (IF Owes(w, c) THEN 1 ELSE 0)

\* Such a step is accounted for.
LEMMA StepAccounted ==
  ASSUME TasksTypeOK, TasksTypeOK', AllAccounted, published' = published,
         NEW w \in Workers, NEW t \in Task, NEW c \in Kinds \X Jobs,
         c = <<t.kind, t.job>>, Aside(w, t, c), Balanced(w, t, c)
  PROVE  AllAccounted'
<1> SUFFICES ASSUME NEW k \in Kinds \X Jobs
             PROVE  Accounted(k)'
  BY DEF AllAccounted
<1>1. Accounted(k)
  BY DEF AllAccounted
<1>2. Countable(About(k), queue) /\ Countable(Workers, Owed(k))
  BY <1>1 DEF Accounted
<1>3. Total(About(k), queue) \in Nat /\ Total(Workers, Owed(k)) \in Nat
  BY <1>2, TotalNat
<1>4. /\ Countable(About(k), queue')
      /\ Total(About(k), queue') = Total(About(k), queue) +
           (IF c = k THEN queue'[t] - queue[t] ELSE 0)
  BY <1>2, QueueMoves DEF Aside
<1>5. /\ Countable(Workers, Owed(k)')
      /\ Total(Workers, Owed(k)') = Total(Workers, Owed(k))
           + (IF Owes(w, k)' THEN 1 ELSE 0) - (IF Owes(w, k) THEN 1 ELSE 0)
  BY <1>2, WorkerMoves DEF Aside
<1>6. /\ stored[k] \in Nat /\ published[k] \in Nat /\ mishaps[k] \in Nat
      /\ stored'[k] \in Nat /\ mishaps'[k] \in Nat
      /\ queue[t] \in Nat /\ queue'[t] \in Nat
  BY DEF TasksTypeOK, Counts
<1>7. stored'[k] + Total(About(k), queue') + Total(Workers, Owed(k)')
        <= published[k] + mishaps'[k]
  <2>1. stored[k] + Total(About(k), queue) + Total(Workers, Owed(k))
          <= published[k] + mishaps[k]
    BY <1>1 DEF Accounted
  <2>2. CASE k = c
    <3>1. stored'[k] + (queue'[t] - queue[t])
            + (IF Owes(w, k)' THEN 1 ELSE 0)
            <= stored[k] + (mishaps'[k] - mishaps[k])
               + (IF Owes(w, k) THEN 1 ELSE 0)
      BY <2>2 DEF Balanced
    <3>2. Total(About(k), queue')
            = Total(About(k), queue) + (queue'[t] - queue[t])
      BY <1>4, <2>2
    <3> QED
      BY <1>3, <3>2, <1>5, <1>6, <2>1, <3>1
  <2>3. CASE k # c
    BY <1>3, <1>4, <1>5, <1>6, <2>1, <2>3 DEF Aside
  <2> QED
    BY <2>2, <2>3
<1> QED
  BY <1>4, <1>5, <1>7 DEF Accounted, About

\* Where a worker's step leaves it.
LEMMA GoneOwing ==
  ASSUME TasksTypeOK, NEW w \in Workers
  PROVE  /\ Goto(w, "ack") \/ Goto(w, "push") =>
              /\ \A v \in Workers \ {w} : running'[v] = running[v]
              /\ \A k : ~Owes(w, k)'
         /\ Goto(w, "retry") =>
              /\ \A v \in Workers \ {w} : running'[v] = running[v]
              /\ \A k : Owes(w, k)' <=> Counter(w) = k
<1>1. ASSUME Goto(w, "ack") \/ Goto(w, "push")
      PROVE  /\ \A v \in Workers \ {w} : running'[v] = running[v]
             /\ running'[w].phase \in {"ack", "push"}
  BY <1>1 DEF Goto, TasksTypeOK
<1>2. ASSUME Goto(w, "retry")
      PROVE  /\ \A v \in Workers \ {w} : running'[v] = running[v]
             /\ running'[w].phase = "retry" /\ running'[w].task = TaskOf(w)
  BY <1>2 DEF Goto, TasksTypeOK
<1> QED
  BY <1>1, <1>2 DEF Owes, Counter, TaskOf

\* Each step of a worker balances.
LEMMA ServeAccounted ==
  ASSUME TasksTypeOK, TasksTypeOK', AllAccounted,
         NEW w \in Workers, Serve(w) \/ Crash(w)
  PROVE  AllAccounted'
<1>1. published' = published
  BY DEF Serve, Take, Load, Store, Push, Retry, Ack, Crash, webVars
<1>2. ASSUME NEW k \in Kinds \X Jobs
      PROVE  /\ stored[k] \in Nat /\ mishaps[k] \in Nat
  BY DEF TasksTypeOK, Counts
<1>3. CASE Take(w)
  <2>1. PICK t \in Task :
          /\ queue[t] > 0 /\ queue' = [queue EXCEPT ![t] = @ - 1]
          /\ running' = [running EXCEPT ![w] = [phase |-> "load", task |-> t]]
    BY <1>3 DEF Take
  <2> DEFINE c == <<t.kind, t.job>>
  <2>2. c \in Kinds \X Jobs
    BY DEF Task
  <2>3. /\ stored' = stored /\ mishaps' = mishaps
        /\ \A k : ~Owes(w, k)
    BY <1>3 DEF Take, On, Owes
  <2>4. /\ running'[w].phase = "load" /\ running'[w].task = t
        /\ \A v \in Workers \ {w} : running'[v] = running[v]
    BY <2>1 DEF TasksTypeOK
  <2>5. \A k : Owes(w, k)' <=> c = k
    BY <2>4 DEF Owes, Counter, TaskOf
  <2>6. /\ queue'[t] = queue[t] - 1 /\ queue[t] \in Nat
        /\ \A u \in Task \ {t} : queue'[u] = queue[u]
    BY <2>1 DEF TasksTypeOK
  <2> HIDE DEF c
  <2>7. Balanced(w, t, c)
    BY <1>2, <2>2, <2>3, <2>5, <2>6 DEF Balanced
  <2>8. Aside(w, t, c)
    BY <2>3, <2>4, <2>5, <2>6 DEF Aside
  <2>9. c = <<t.kind, t.job>>
    BY DEF c
  <2> QED
    BY <1>1, <2>2, <2>7, <2>8, <2>9, StepAccounted
<1>4. CASE ~Take(w)
  <2>1. ~On(w, "idle")
    BY <1>4 DEF Serve, Load, Store, Push, Retry, Ack, Crash, On
  <2>2. PICK t \in Task, c \in Kinds \X Jobs :
          t = TaskOf(w) /\ c = Counter(w) /\ c = <<t.kind, t.job>>
    BY <2>1, Held DEF Counter
  <2>3. \A k : Owes(w, k) <=> /\ running[w].phase \in {"load", "store", "retry"}
                              /\ c = k
    BY <2>2 DEF Owes
  <2>4. queue[t] \in Nat
    BY DEF TasksTypeOK
  <2>5. /\ Goto(w, "ack") \/ Goto(w, "push") =>
              /\ \A v \in Workers \ {w} : running'[v] = running[v]
              /\ ~Owes(w, c)' /\ \A k : Owes(w, k)' => Owes(w, k)
        /\ Goto(w, "retry") =>
              /\ \A v \in Workers \ {w} : running'[v] = running[v]
              /\ Owes(w, c)' /\ \A k : k # c => ~Owes(w, k)'
    BY <2>2, GoneOwing
  <2>6. CASE Load(w)
    <3>1. Owes(w, c)
      BY <2>3, <2>6 DEF Load, On
    <3>2. /\ queue' = queue /\ stored' = stored /\ mishaps' = mishaps
      BY <2>6 DEF Load
    <3>3. /\ \A v \in Workers \ {w} : running'[v] = running[v]
          /\ \A k : k # c => ~Owes(w, k)'
      <4>1. CASE Goto(w, "retry")
        BY <2>5, <4>1
      <4>2. CASE running' = [running EXCEPT ![w] =
                   [phase |-> "store", task |-> TaskOf(w),
                    row |-> job[TaskOf(w).job]]]
        <5>1. /\ \A v \in Workers \ {w} : running'[v] = running[v]
              /\ running'[w].task = TaskOf(w)
          BY <4>2 DEF TasksTypeOK
        <5> QED
          BY <2>2, <5>1 DEF Owes, Counter, TaskOf
      <4> QED
        BY <2>6, <4>1, <4>2 DEF Load
    <3>4. Balanced(w, t, c)
      BY <1>2, <2>2, <2>4, <3>1, <3>2 DEF Balanced
    <3>5. Aside(w, t, c)
      BY <2>2, <3>2, <3>3 DEF Aside
    <3> QED
      BY <1>1, <2>2, <3>4, <3>5, StepAccounted
  <2>7. CASE Store(w)
    <3>1. Owes(w, c)
      BY <2>3, <2>7 DEF Store, On
    <3>2. queue' = queue /\ mishaps' = mishaps
      BY <2>7 DEF Store
    <3>3. \/ /\ stored' = [stored EXCEPT ![c] = stored[c] + 1]
             /\ Goto(w, "push")
          \/ /\ stored' = stored
             /\ Goto(w, "ack") \/ Goto(w, "retry")
      BY <2>2, <2>7 DEF Store
    <3>4. /\ \A v \in Workers \ {w} : running'[v] = running[v]
          /\ \A k : k # c => (Owes(w, k)' => Owes(w, k))
      BY <2>5, <3>3
    <3>5. \A k \in Kinds \X Jobs : k # c => stored'[k] = stored[k]
      BY <3>3 DEF TasksTypeOK, Counts
    <3>6. Balanced(w, t, c)
      <4>1. \/ stored'[c] = stored[c] + 1 /\ ~Owes(w, c)'
            \/ stored'[c] = stored[c]
        BY <2>2, <2>5, <3>3 DEF TasksTypeOK, Counts
      <4> QED
        BY <1>2, <2>2, <2>4, <3>1, <3>2, <4>1 DEF Balanced
    <3>7. Aside(w, t, c)
      BY <2>2, <3>2, <3>4, <3>5 DEF Aside
    <3> QED
      BY <1>1, <2>2, <3>6, <3>7, StepAccounted
  <2>8. CASE Push(w)
    <3>1. \A k : ~Owes(w, k)
      BY <2>3, <2>8 DEF Push, On
    <3>2. queue' = queue /\ stored' = stored
      BY <2>8 DEF Push
    <3>3. \/ mishaps' = mishaps /\ Goto(w, "ack")
          \/ /\ mishaps' = [mishaps EXCEPT ![c] = mishaps[c] + 1]
             /\ Goto(w, "retry")
      BY <2>2, <2>8 DEF Push
    <3>4. /\ \A v \in Workers \ {w} : running'[v] = running[v]
          /\ \A k : k # c => (Owes(w, k)' => Owes(w, k))
      BY <2>5, <3>3
    <3>5. \A k \in Kinds \X Jobs : k # c => mishaps'[k] = mishaps[k]
      BY <3>3 DEF TasksTypeOK, Counts
    <3>6. Balanced(w, t, c)
      <4>1. \/ mishaps'[c] = mishaps[c] + 1
            \/ mishaps'[c] = mishaps[c] /\ ~Owes(w, c)'
        BY <2>2, <2>5, <3>3 DEF TasksTypeOK, Counts
      <4> QED
        BY <1>2, <2>2, <2>4, <3>1, <3>2, <4>1 DEF Balanced
    <3>7. Aside(w, t, c)
      BY <2>2, <3>2, <3>4, <3>5 DEF Aside
    <3> QED
      BY <1>1, <2>2, <3>6, <3>7, StepAccounted
  <2>9. CASE Retry(w)
    <3> DEFINE again == [t EXCEPT !.retries = @ + 1]
    <3>1. Owes(w, c)
      BY <2>3, <2>9 DEF Retry, On
    <3>2. stored' = stored /\ mishaps' = mishaps /\ Goto(w, "ack")
      BY <2>9 DEF Retry
    <3>3. /\ \A v \in Workers \ {w} : running'[v] = running[v]
          /\ ~Owes(w, c)' /\ \A k : Owes(w, k)' => Owes(w, k)
      BY <2>5, <3>2
    <3>4. CASE t.retries < MaxRetries
      <4>1. again \in Task /\ c = <<again.kind, again.job>>
        BY <2>2, <3>4, TasksAssumption DEF Task
      <4>2. queue' = [queue EXCEPT ![again] = @ + 1]
        BY <2>2, <2>9, <3>4 DEF Retry
      <4> HIDE DEF again
      <4>3. /\ queue'[again] = queue[again] + 1 /\ queue[again] \in Nat
            /\ \A u \in Task \ {again} : queue'[u] = queue[u]
        BY <4>1, <4>2 DEF TasksTypeOK
      <4>4. Balanced(w, again, c)
        BY <1>2, <2>2, <3>1, <3>2, <3>3, <4>3 DEF Balanced
      <4>5. Aside(w, again, c)
        BY <2>2, <3>2, <3>3, <4>1, <4>3 DEF Aside
      <4> QED
        BY <1>1, <2>2, <4>1, <4>4, <4>5, StepAccounted
    <3>5. CASE ~(t.retries < MaxRetries)
      <4>1. queue' = queue
        BY <2>2, <2>9, <3>5 DEF Retry
      <4>2. Balanced(w, t, c)
        BY <1>2, <2>2, <2>4, <3>1, <3>2, <3>3, <4>1 DEF Balanced
      <4>3. Aside(w, t, c)
        BY <2>2, <3>2, <3>3, <4>1 DEF Aside
      <4> QED
        BY <1>1, <2>2, <4>2, <4>3, StepAccounted
    <3> QED
      BY <3>4, <3>5
  <2>10. CASE Ack(w) \/ Crash(w)
    <3>1. /\ \A v \in Workers \ {w} : running'[v] = running[v]
          /\ running'[w].phase = "idle"
      BY <2>10 DEF Ack, Crash, Idle, TasksTypeOK
    <3>2. \A k : ~Owes(w, k)'
      BY <3>1 DEF Owes
    <3>3. stored' = stored
      BY <2>10 DEF Ack, Crash
    <3>4. CASE queue' = queue /\ mishaps' = mishaps
      <4>1. Balanced(w, t, c)
        BY <1>2, <2>2, <2>4, <3>2, <3>3, <3>4 DEF Balanced
      <4>2. Aside(w, t, c)
        BY <2>2, <3>1, <3>2, <3>3, <3>4 DEF Aside
      <4> QED
        BY <1>1, <2>2, <4>1, <4>2, StepAccounted
    <3>5. CASE /\ queue' = [queue EXCEPT ![t] = @ + 1]
               /\ mishaps' = IF On(w, "push") \/ On(w, "ack")
                             THEN [mishaps EXCEPT ![c] = @ + 1] ELSE mishaps
      <4>1. /\ queue'[t] = queue[t] + 1
            /\ \A u \in Task \ {t} : queue'[u] = queue[u]
        BY <2>2, <3>5 DEF TasksTypeOK
      <4>2. \A k \in Kinds \X Jobs : k # c => mishaps'[k] = mishaps[k]
        BY <3>5 DEF TasksTypeOK, Counts
      <4>3. \/ mishaps'[c] = mishaps[c] + 1
            \/ mishaps'[c] = mishaps[c] /\ Owes(w, c)
        <5>1. CASE On(w, "push") \/ On(w, "ack")
          BY <2>2, <3>5, <5>1 DEF TasksTypeOK, Counts
        <5>2. CASE ~(On(w, "push") \/ On(w, "ack"))
          <6>1. running[w].phase \in
                  {"idle", "load", "push", "retry", "ack", "store"}
            BY DEF TasksTypeOK, Running
          <6>2. Owes(w, c)
            BY <2>1, <2>3, <5>2, <6>1 DEF On
          <6> QED
            BY <3>5, <5>2, <6>2
        <5> QED
          BY <5>1, <5>2
      <4>4. Balanced(w, t, c)
        BY <1>2, <2>2, <2>4, <3>2, <3>3, <4>1, <4>3 DEF Balanced
      <4>5. Aside(w, t, c)
        BY <2>2, <3>1, <3>2, <3>3, <4>1, <4>2 DEF Aside
      <4> QED
        BY <1>1, <2>2, <4>4, <4>5, StepAccounted
    <3> QED
      BY <2>2, <2>10, <3>4, <3>5 DEF Ack, Crash
  <2> QED
    BY <1>4, <2>6, <2>7, <2>8, <2>9, <2>10 DEF Serve
<1> QED
  BY <1>3, <1>4

(***************************************************************************)
(* Whatever is retried, lost or delivered again, a notification is in the  *)
(* inbox once for each publication, but for the failures after it was      *)
(* written.                                                                *)
(***************************************************************************)
THEOREM DuplicatesAreExplained == TasksSpec => []DuplicatesExplained
<1>1. /\ TasksTypeOK /\ TasksTypeOK' /\ AllAccounted /\ [TasksNext]_taskVars
        => AllAccounted'
  <2> SUFFICES ASSUME TasksTypeOK, TasksTypeOK', AllAccounted,
                      [TasksNext]_taskVars
               PROVE  AllAccounted'
    OBVIOUS
  <2>1. CASE UNCHANGED taskVars
    <3> SUFFICES ASSUME NEW k \in Kinds \X Jobs
                 PROVE  Accounted(k)'
      BY DEF AllAccounted
    <3>1. Owed(k)' = Owed(k)
      BY <2>1 DEF taskVars, Owed, Owes, Counter, TaskOf
    <3> QED
      BY <2>1, <3>1 DEF taskVars, AllAccounted, Accounted, About
  <2> QED
    BY <2>1, WebAccounted, ServeAccounted DEF TasksNext
<1>2. TasksTypeOK /\ AllAccounted => DuplicatesExplained
  <2> SUFFICES ASSUME TasksTypeOK, AllAccounted, NEW k \in Kinds \X Jobs
               PROVE  stored[k] <= published[k] + mishaps[k]
    BY DEF DuplicatesExplained
  <2>1. Countable(About(k), queue) /\ Countable(Workers, Owed(k))
    BY DEF AllAccounted, Accounted
  <2>2. Total(About(k), queue) \in Nat /\ Total(Workers, Owed(k)) \in Nat
    BY <2>1, TotalNat
  <2>3. stored[k] \in Nat /\ published[k] \in Nat /\ mishaps[k] \in Nat
    BY DEF TasksTypeOK, Counts
  <2> QED
    BY <2>2, <2>3 DEF AllAccounted, Accounted
<1> QED
  BY <1>1, <1>2, InitAccounted, TasksTypeCorrect, PTL DEF TasksSpec
=============================================================================
