-------------------------- MODULE NotificationTasks --------------------------
(***************************************************************************)
(* The notification tasks: published by the calls on a job inside their    *)
(* transactions, taken from the broker by Celery workers, retried, stored  *)
(* in the inbox and pushed.  A task sees what is committed when it runs,   *)
(* which may be less than what its publisher had written.                  *)
(***************************************************************************)
EXTENDS Integers, FiniteSets

CONSTANTS
  Jobs,
  Workers,       \* Celery worker processes
  Importable,    \* notifications/services.py compiles
  MaxRetries,    \* max_retries
  MaxPublished,  \* bound: tasks published for a job
  MaxCrashes     \* bound: Celery workers that die

ASSUME TasksAssumption ==
  /\ Importable \in BOOLEAN
  /\ {MaxRetries, MaxPublished, MaxCrashes} \subseteq Nat

Kinds == {"new_job", "job_accepted", "job_completed"}

VARIABLES
  job,        \* the committed rows
  tx,         \* per job, the transaction that has published and not ended
  undone,     \* the jobs of which a completion was rolled back once published
  published,  \* per kind and job, how many tasks were published ...
  queue,      \* ... the messages of the broker, how many of each ...
  running,    \* ... and per Celery worker, the one it has not acknowledged
  stored,     \* how often the notification was written to the inbox
  mishaps,    \* failures after it was written, which repeat a task
  crashes

taskVars ==
  <<job, tx, undone, published, queue, running, stored, mishaps, crashes>>
webVars == <<job, tx, undone, published>>

Task == [kind : Kinds, job : Jobs, retries : 0 .. MaxRetries]
NoRow == [status |-> "none", worker |-> FALSE]
JobRow == [status : {"none", "created", "accepted", "in_progress", "completed",
                     "cancelled"},
           worker : BOOLEAN]    \* worker is not null

Running ==
  [phase : {"idle"}] \cup
  [phase : {"load", "push", "retry", "ack"}, task : Task] \cup
  [phase : {"store"}, task : Task, row : JobRow \ {NoRow}]
Idle == [phase |-> "idle"]

Counts == [Kinds \X Jobs -> Nat]

TasksTypeOK ==
  /\ job \in [Jobs -> JobRow]
  /\ tx \in [Jobs -> Kinds \cup {"none"}]
  /\ undone \subseteq Jobs
  /\ queue \in [Task -> Nat]
  /\ running \in [Workers -> Running]
  /\ published \in Counts /\ stored \in Counts /\ mishaps \in Counts
  /\ crashes \in 0 .. MaxCrashes

TasksInit ==
  /\ job = [j \in Jobs |-> NoRow]
  /\ tx = [j \in Jobs |-> "none"] /\ undone = {}
  /\ queue = [t \in Task |-> 0]
  /\ running = [w \in Workers |-> Idle]
  /\ published = [k \in Kinds \X Jobs |-> 0]
  /\ stored = published /\ mishaps = published
  /\ crashes = 0

-----------------------------------------------------------------------------
(* The calls on a job.  Its row lock admits one transaction at a time. *)

Needs == [new_job |-> "none", job_accepted |-> "created",
          job_completed |-> "in_progress"]
Committed(kind, row) ==
  CASE kind = "new_job" -> [status |-> "created", worker |-> FALSE]
    [] kind = "job_accepted" -> [status |-> "accepted", worker |-> TRUE]
    [] kind = "job_completed" -> [row EXCEPT !.status = "completed"]

Started(kind, j) == [kind |-> kind, job |-> j, retries |-> 0]

\* When the broker does not answer delay() raises, the call is undone and
\* nothing is published: no step.
Publish(kind, j) ==
  /\ tx[j] = "none" /\ job[j].status = Needs[kind]
  /\ published[<<"new_job", j>>] + published[<<"job_accepted", j>>]
       + published[<<"job_completed", j>>] < MaxPublished
  /\ tx' = [tx EXCEPT ![j] = kind]
  /\ published' = [published EXCEPT ![<<kind, j>>] = @ + 1]
  /\ queue' = [queue EXCEPT ![Started(kind, j)] = @ + 1]
  /\ UNCHANGED <<job, undone, running, stored, mishaps, crashes>>

Commit(j) ==
  /\ tx[j] # "none" /\ tx' = [tx EXCEPT ![j] = "none"]
  /\ job' = [job EXCEPT ![j] = Committed(tx[j], @)]
  /\ UNCHANGED <<undone, published, queue, running, stored, mishaps, crashes>>

\* The cache is down or the commit fails: the task stays published.
Rollback(j) ==
  /\ tx[j] # "none" /\ tx' = [tx EXCEPT ![j] = "none"]
  /\ undone' = undone \cup {i \in {j} : tx[j] = "job_completed"}
  /\ UNCHANGED <<job, published, queue, running, stored, mishaps, crashes>>

\* start_job and cancel_job publish nothing.
Move(j, from, to) ==
  /\ tx[j] = "none" /\ job[j].status \in from
  /\ job' = [job EXCEPT ![j].status = to]
  /\ UNCHANGED <<tx, undone, published, queue, running, stored, mishaps, crashes>>
StartJob(j) == Move(j, {"accepted"}, "in_progress")
CancelJob(j) == Move(j, {"created", "accepted", "in_progress"}, "cancelled")

-----------------------------------------------------------------------------
(* A Celery worker *)

On(w, phase) == running[w].phase = phase
TaskOf(w) == running[w].task
Counter(w) == <<TaskOf(w).kind, TaskOf(w).job>>
Goto(w, phase) ==
  running' = [running EXCEPT ![w] = [phase |-> phase, task |-> TaskOf(w)]]

Take(w) ==
  \E t \in Task :
    /\ On(w, "idle") /\ queue[t] > 0
    /\ queue' = [queue EXCEPT ![t] = @ - 1]
    /\ running' = [running EXCEPT ![w] = [phase |-> "load", task |-> t]]
    /\ UNCHANGED <<webVars, stored, mishaps, crashes>>

\* Mutant of Load: filter().first() for get(), a missing row is no error.
LoadFirst(w) ==
  LET row == job[TaskOf(w).job]
  IN  /\ On(w, "load")
      /\ running' = [running EXCEPT ![w] =
           [phase |-> "store", task |-> TaskOf(w), row |-> row]]
      /\ UNCHANGED <<webVars, queue, stored, mishaps, crashes>>

\* The import of the service, then Job.objects.get; any error is retried.
Load(w) ==
  LET row == job[TaskOf(w).job]
  IN  /\ On(w, "load")
      /\ \/ /\ Importable /\ row # NoRow
            /\ running' = [running EXCEPT ![w] =
                 [phase |-> "store", task |-> TaskOf(w), row |-> row]]
         \/ Goto(w, "retry")
      /\ UNCHANGED <<webVars, queue, stored, mishaps, crashes>>

\* Mutant of Names: the accepted job's worker is not named.
NamesEmployerOnly(kind, row) == kind = "job_completed" => row.worker

\* notify_job_accepted names the worker in its text and notify_job_completed
\* writes to the worker's inbox: without one both raise.
Names(kind, row) == kind \in {"job_accepted", "job_completed"} => row.worker

\* One INSERT; send_bulk is called only when there are workers to tell.
Store(w) ==
  /\ On(w, "store")
  /\ \/ /\ Names(TaskOf(w).kind, running[w].row)
        /\ stored' = [stored EXCEPT ![Counter(w)] = @ + 1]
        /\ Goto(w, "push")
     \/ /\ TaskOf(w).kind = "new_job"
        /\ Goto(w, "ack") /\ UNCHANGED stored
     \/ Goto(w, "retry") /\ UNCHANGED stored
  /\ UNCHANGED <<webVars, queue, mishaps, crashes>>

\* Mutant of Push: a provider's error is raised.
PushOrRaise(w) ==
  /\ On(w, "push")
  /\ \/ Goto(w, "ack") /\ UNCHANGED mishaps
     \/ Goto(w, "retry") /\ UNCHANGED mishaps
     \/ Goto(w, "retry") /\ mishaps' = [mishaps EXCEPT ![Counter(w)] = @ + 1]
  /\ UNCHANGED <<webVars, queue, stored, crashes>>

\* A provider's error is only logged; one of the query for the tokens is not.
Push(w) ==
  /\ On(w, "push")
  /\ \/ Goto(w, "ack") /\ UNCHANGED mishaps
     \/ Goto(w, "retry") /\ mishaps' = [mishaps EXCEPT ![Counter(w)] = @ + 1]
  /\ UNCHANGED <<webVars, queue, stored, crashes>>

\* Mutant of Retry: the number of the attempt is not counted.
RetryForEver(w) ==
  /\ On(w, "retry")
  /\ queue' = [queue EXCEPT ![TaskOf(w)] = @ + 1]
  /\ Goto(w, "ack")
  /\ UNCHANGED <<webVars, stored, mishaps, crashes>>

\* self.retry publishes the task again and raises; after the last attempt it
\* raises the error and the task has failed.
Retry(w) ==
  LET t == TaskOf(w)
  IN  /\ On(w, "retry")
      /\ queue' = IF t.retries < MaxRetries
                  THEN [queue EXCEPT ![[t EXCEPT !.retries = @ + 1]] = @ + 1]
                  ELSE queue
      /\ Goto(w, "ack")
      /\ UNCHANGED <<webVars, stored, mishaps, crashes>>

Ack(w) ==
  /\ On(w, "ack")
  /\ running' = [running EXCEPT ![w] = Idle]
  /\ UNCHANGED <<webVars, queue, stored, mishaps, crashes>>

\* task_acks_late: the message of a node that dies is delivered again; the
\* one of a child process that is killed is acknowledged and lost.
Crash(w) ==
  /\ ~On(w, "idle") /\ crashes < MaxCrashes
  /\ crashes' = crashes + 1
  /\ running' = [running EXCEPT ![w] = Idle]
  /\ \/ /\ queue' = [queue EXCEPT ![TaskOf(w)] = @ + 1]
        /\ mishaps' = IF On(w, "push") \/ On(w, "ack")
                      THEN [mishaps EXCEPT ![Counter(w)] = @ + 1] ELSE mishaps
     \/ UNCHANGED <<queue, mishaps>>
  /\ UNCHANGED <<webVars, stored>>

-----------------------------------------------------------------------------

Serve(w) ==
  Take(w) \/ Load(w) \/ Store(w) \/ Push(w) \/ Retry(w) \/ Ack(w)

WebStep(j) ==
  \/ \E kind \in Kinds : Publish(kind, j)
  \/ Commit(j) \/ Rollback(j) \/ StartJob(j) \/ CancelJob(j)

TasksNext ==
  (\E j \in Jobs : WebStep(j)) \/ (\E w \in Workers : Serve(w) \/ Crash(w))

TasksSpec == TasksInit /\ [][TasksNext]_taskVars

\* The Celery workers keep consuming.  Nothing obliges a client to call.
FairTasksSpec == TasksSpec /\ \A w \in Workers : WF_taskVars(Serve(w))

-----------------------------------------------------------------------------

(***************************************************************************)
(* Tasks run before, or without, the commit of the call that published     *)
(* them.  Even so a job announced exists, one reported as accepted has     *)
(* been, and one reported as completed was started by its worker.  What    *)
(* may not be true of it, yet or ever, is that it is completed and paid:   *)
(* the inbox is wrong while complete_job has not ended or once it was      *)
(* rolled back, and only then.  Its text promises more ("payment           *)
(* received", notifications/services.py:174).                              *)
(***************************************************************************)
WrongOnlyBeforeCommit ==
  \A j \in Jobs :
    /\ stored[<<"new_job", j>>] > 0 => job[j] # NoRow
    /\ stored[<<"job_accepted", j>>] > 0 => job[j].worker
    /\ stored[<<"job_completed", j>>] > 0 =>
         /\ job[j].worker
         /\ job[j].status \in {"in_progress", "completed", "cancelled"}
         /\ \/ job[j].status = "completed"
            \/ tx[j] = "job_completed" \/ j \in undone

(***************************************************************************)
(* A notification is written once for each call that published it, but for *)
(* the failures that happen after it was written and repeat the task.      *)
(***************************************************************************)
DuplicatesExplained ==
  \A k \in Kinds \X Jobs : stored[k] <= published[k] + mishaps[k]

(***************************************************************************)
(* No task is retried for ever: whatever fails, the broker and the workers *)
(* are done with it some day.                                              *)
(***************************************************************************)
Outstanding(k, j) ==
  \/ \E t \in Task : t.kind = k /\ t.job = j /\ queue[t] > 0
  \/ \E w \in Workers : ~On(w, "idle") /\ Counter(w) = <<k, j>>

TasksEnd ==
  \A k \in Kinds, j \in Jobs : Outstanding(k, j) ~> ~Outstanding(k, j)
=============================================================================
