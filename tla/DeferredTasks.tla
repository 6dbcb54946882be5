---------------------------- MODULE DeferredTasks ----------------------------
(***************************************************************************)
(* DeferredResolver (mempool/advanced_orphan_management.rs), the queue of  *)
(* orphans that wait for their resolution, and the processor that drains   *)
(* it in batches (mempool/background_batch_processor.rs).  The time of the *)
(* last batch is read before the lock of the queue is taken, and each has  *)
(* a lock of its own, as have the statistics.                              *)
(***************************************************************************)
EXTENDS Naturals, FiniteSets, SequencesExt

CONSTANTS Caller,         \* threads
          MinInterval,    \* min_resolution_interval_ms
          TaskTtl,        \* the 20 minutes of a task
          MaxBatch,       \* max_tasks_per_batch
          MaxTasks, MaxTaskCalls, MaxTime

ASSUME TasksAssumption == IsFiniteSet(Caller) /\ {MinInterval, TaskTtl, MaxBatch} \subseteq Nat

VARIABLE dt   \* queue: tasks as [id, at]; last: last_resolution; scheduled, processed, expired, size:
              \* ResolutionStats; running, shown: is_running and the copy of it in the statistics; batches,
              \* tasks: BackgroundProcessorStats; clock; calls; call: what each thread is at: [op, now, n];
              \* history: out: ids handed over, in order; gone: ids expired or cleared; took, takes: when the
              \* last batch was taken and how many were; early: a batch too soon after another that it did not overlap; overtaken:
              \* a call came between the two locks of a clear; starts: a start or a stop overlapped another

NoCall == [op |-> "none", now |-> 0, n |-> 0]
DtInit == dt = [queue |-> <<>>, last |-> 0, scheduled |-> 0, processed |-> 0, expired |-> 0, size |-> 0,
                running |-> FALSE, shown |-> FALSE, batches |-> 0, tasks |-> 0, clock |-> 0, calls |-> 0,
                call |-> [p \in Caller |-> NoCall], out |-> <<>>, gone |-> {}, took |-> 0, takes |-> 0, early |-> FALSE,
                overtaken |-> FALSE, starts |-> FALSE]

TaskAt(p, op) == dt.call[p].op = op
EnterCall(p, call) == TaskAt(p, "none") /\ dt.calls < MaxTaskCalls /\ call
During(op) == \E q \in Caller : TaskAt(q, op)

ScheduleResolution(p) ==
  EnterCall(p, /\ dt.scheduled < MaxTasks
               /\ dt' = [dt EXCEPT !.queue = Append(@, [id |-> dt.scheduled + 1, at |-> dt.clock]), !.calls = @ + 1,
                                   !.scheduled = @ + 1, !.size = Len(dt.queue) + 1,
                                   !.overtaken = @ \/ During("clear")])

\* process_batch, by itself or for the processor: too soon after the last batch there is nothing to do
ProcessBatch(p, owner) ==
  EnterCall(p, /\ owner = "processor" => dt.running
               /\ dt' = [dt EXCEPT !.calls = @ + 1,
                                   !.call[p] = IF dt.clock < dt.last + MinInterval THEN NoCall
                                               ELSE [op |-> owner, now |-> dt.clock, n |-> dt.takes]])

\* the loop over the queue: until the batch is full a task is taken from the front, into the batch
\* unless it is too old
Expired(task, now) == now > task.at + TaskTtl
PopFront(now, acc, task) ==
  IF Len(acc.batch) >= MaxBatch THEN acc
  ELSE IF Expired(task, now) THEN [acc EXCEPT !.popped = @ + 1, !.old = @ \union {task.id}]
  ELSE [acc EXCEPT !.popped = @ + 1, !.batch = Append(@, task.id)]
Drained(queue, now) ==
  FoldLeft(LAMBDA acc, task : PopFront(now, acc, task), [popped |-> 0, batch |-> <<>>, old |-> {}], queue)

\* mutant: the time of the batch is not kept
SameTime == dt.last
BatchTime == dt.clock
TakeTasks(p, r) ==
  [dt EXCEPT !.queue = SubSeq(@, r.popped + 1, Len(@)), !.last = BatchTime, !.processed = @ + Len(r.batch),
             !.expired = @ + Cardinality(r.old), !.size = Len(dt.queue) - r.popped,
             !.out = @ \o r.batch, !.gone = @ \union r.old, !.took = dt.clock, !.takes = @ + 1,
             !.early = @ \/ (dt.clock < dt.took + MinInterval /\ dt.call[p].n = dt.takes),
             !.overtaken = @ \/ During("clear")]
TakeBatch(p) ==
  TaskAt(p, "direct") /\ dt' = [TakeTasks(p, Drained(dt.queue, dt.call[p].now)) EXCEPT !.call[p] = NoCall]
\* process_batch_once counts the batch once it has it
TakeForProcessor(p) ==
  /\ TaskAt(p, "processor")
  /\ LET r == Drained(dt.queue, dt.call[p].now)
     IN dt' = [TakeTasks(p, r) EXCEPT !.call[p] = IF r.batch = <<>> THEN NoCall
                                                 ELSE [NoCall EXCEPT !.op = "count", !.n = Len(r.batch)]]
CountBatch(p) == TaskAt(p, "count") /\ dt' = [dt EXCEPT !.batches = @ + 1, !.tasks = @ + dt.call[p].n, !.call[p] = NoCall]

ClearStats(p) == EnterCall(p, dt' = [dt EXCEPT !.batches = 0, !.tasks = 0, !.calls = @ + 1])

ClearQueue(p) == EnterCall(p, dt' = [dt EXCEPT !.queue = <<>>, !.calls = @ + 1, !.call[p].op = "clear",
                                               !.gone = @ \union {task.id : task \in Range(dt.queue)}])
ClearSize(p) == TaskAt(p, "clear") /\ dt' = [dt EXCEPT !.size = 0, !.call[p] = NoCall]

\* start reads the flag, sets it and then the statistics; stop sets both
Switching == \E q \in Caller : dt.call[q].op \in {"set", "show", "hide"}
Start(p) == EnterCall(p, ~dt.running /\ dt' = [dt EXCEPT !.call[p].op = "set", !.calls = @ + 1, !.starts = @ \/ Switching])
StartSet(p) == TaskAt(p, "set") /\ dt' = [dt EXCEPT !.running = TRUE, !.call[p].op = "show"]
StartShow(p) == TaskAt(p, "show") /\ dt' = [dt EXCEPT !.shown = TRUE, !.call[p] = NoCall]
Stop(p) == EnterCall(p, dt' = [dt EXCEPT !.running = FALSE, !.call[p].op = "hide", !.calls = @ + 1, !.starts = @ \/ Switching])
StopShow(p) == TaskAt(p, "hide") /\ dt' = [dt EXCEPT !.shown = FALSE, !.call[p] = NoCall]

TaskTick == dt.clock < MaxTime /\ dt' = [dt EXCEPT !.clock = @ + 1]

DtNext == \/ TaskTick
          \/ \E p \in Caller :
               \/ ScheduleResolution(p) \/ ProcessBatch(p, "direct") \/ ProcessBatch(p, "processor")
               \/ TakeBatch(p) \/ TakeForProcessor(p) \/ CountBatch(p) \/ ClearStats(p) \/ ClearQueue(p) \/ ClearSize(p)
               \/ Start(p) \/ StartSet(p) \/ StartShow(p) \/ Stop(p) \/ StopShow(p)

-----------------------------------------------------------------------------
\* However the batches of two threads interleave, every task is queued, handed over or gone, and in one
\* of these only, the tasks are handed over in the order in which they came, and the counts are theirs;
\* the size shown is the length of the queue unless a call came between the two locks of a clear
\* (advanced_orphan_management.rs:154-156).
TasksConserved ==
  LET queued == {task.id : task \in Range(dt.queue)}
  IN /\ queued \union Range(dt.out) \union dt.gone = 1 .. dt.scheduled
     /\ queued \intersect Range(dt.out) = {} /\ dt.gone \intersect (queued \union Range(dt.out)) = {}
     /\ \A i, j \in DOMAIN dt.out : i < j => dt.out[i] < dt.out[j]
     /\ dt.processed = Len(dt.out)
     /\ During("clear") \/ dt.overtaken \/ dt.size = Len(dt.queue)

\* Two batches that do not overlap are taken at least the interval apart, the processor has counted no
\* more tasks than were handed over, and what the statistics show of the processor is so when no start
\* or stop overlapped another.
BatchesThrottled ==
  /\ ~dt.early
  /\ dt.tasks <= dt.processed
  /\ dt.starts \/ Switching \/ dt.shown = dt.running

\* What the deferred resolver promises: no task is lost or handed over twice, and batches keep their distance.
TasksKept == TasksConserved /\ BatchesThrottled
=============================================================================
