--------------------------- MODULE OrderedPipeline --------------------------
(* The worker pool of library/process.go.  ProcessDatabase and processArchive
   run the same code over batches of book ids and of zip entries: a consumer
   submits batches to the workers through the channel jobs, never more than a
   window ahead of the next batch to write, receives their results in whatever
   order they finish, holds the early ones in pending, and writes the batches in
   order to the record spool of the manifest writer, which is published when the
   last worker has gone. *)
EXTENDS Integers, Sequences, FiniteSets

CONSTANTS Workers,           \* the worker goroutines
          MaxBatches,        \* bound: the largest number of batches of a source
          Hollow             \* batches none of whose entries yields a record

ASSUME WorkersAssumption == IsFiniteSet(Workers) /\ Workers # {}
ASSUME MaxBatchesAssumption == MaxBatches \in Nat

VARIABLES
  totalBatches, nextSubmit, nextBatch, pending, written,  \* the consumer's locals
  pc,                        \* where the consumer is
  retErr,                    \* the error it returns, or the one it falls back on
  jobs, jobsClosed,          \* chan of batches, capacity 2 * workers
  results, resultsClosed,    \* chan of batch results, capacity 2 * workers
  resultsDone,               \* the closing goroutine has sent the group's error
  at, held,                  \* where each worker is, and the batch it holds
  groupErr,                  \* errgroup: the first error of a worker
  parentDone, cancelled,     \* the caller's context ended; cancel() was called
  source,                    \* the zip reader, or the repository, the workers read
  manifest                   \* the file at the manifest's path

consumerVars == <<totalBatches, nextSubmit, nextBatch, pending, written>>
workerVars   == <<at, held, groupErr>>
fileVars     == <<source, manifest>>
vars == <<consumerVars, workerVars, fileVars, pc, retErr, jobs, jobsClosed,
          results, resultsClosed, resultsDone, parentDone, cancelled>>

\* resultWindow: how far submission may run ahead of the next batch to write.
Window == 2 * Cardinality(Workers)
Capacity == 2 * Cardinality(Workers)

Batches == 0..(totalBatches - 1)
WorkerErrors == {"worker", "ctx"}
Errors == WorkerErrors \cup {"none", "write", "publish", "stopped"}

ProcessCtxDone == parentDone \/ cancelled
\* The group's context ends with its parent, with the first worker error, and
\* when Wait returns.
WorkerCtxDone == ProcessCtxDone \/ groupErr # "none" \/ resultsClosed

Init ==
  /\ totalBatches \in 0..MaxBatches
  /\ nextSubmit = 0 /\ nextBatch = 0 /\ pending = {} /\ written = <<>>
  /\ pc = "submit" /\ retErr = "none"
  /\ jobs = <<>> /\ jobsClosed = FALSE
  /\ results = <<>> /\ resultsClosed = FALSE /\ resultsDone = FALSE
  /\ at = [w \in Workers |-> "select"] /\ held = [w \in Workers |-> 0]
  /\ groupErr = "none" /\ parentDone = FALSE /\ cancelled = FALSE
  /\ source = "open" /\ manifest = "earlier"

-----------------------------------------------------------------------------
(* The workers. *)

\* A goroutine of the group ends with err; the first error is the group's.
Exit(w, err) ==
  /\ at' = [at EXCEPT ![w] = "exited"]
  /\ groupErr' = IF groupErr = "none" THEN err ELSE groupErr
  /\ UNCHANGED held

TakeJob(w) ==
  /\ at[w] = "select" /\ jobs # <<>>
  /\ held' = [held EXCEPT ![w] = Head(jobs)]
  /\ at' = [at EXCEPT ![w] = "load"]
  /\ jobs' = Tail(jobs)
  /\ UNCHANGED <<consumerVars, fileVars, pc, retErr, jobsClosed, results,
                 resultsClosed, resultsDone, groupErr, parentDone, cancelled>>

\* Mutant: a worker leaves as soon as jobs is closed, without draining it.
WorkerExitUndrained(w) ==
  /\ \/ at[w] = "select" /\ jobsClosed /\ Exit(w, "none")
     \/ at[w] = "load" /\ Exit(w, "worker")
  /\ UNCHANGED <<consumerVars, fileVars, pc, retErr, jobs, jobsClosed, results,
                 resultsClosed, resultsDone, parentDone, cancelled>>

\* The select of a worker sees the closed channel only once it is drained.
WorkerExit(w) ==
  /\ \/ at[w] = "select" /\ jobs = <<>> /\ jobsClosed /\ Exit(w, "none")
     \/ at[w] \in {"select", "send"} /\ WorkerCtxDone /\ Exit(w, "ctx")
     \/ at[w] = "load" /\ Exit(w, "worker")
     \/ at[w] = "load" /\ WorkerCtxDone /\ Exit(w, "ctx")
  /\ UNCHANGED <<consumerVars, fileVars, pc, retErr, jobs, jobsClosed, results,
                 resultsClosed, resultsDone, parentDone, cancelled>>

Load(w) ==
  /\ at[w] = "load"
  /\ at' = [at EXCEPT ![w] = "send"]
  /\ UNCHANGED <<consumerVars, fileVars, pc, retErr, jobs, jobsClosed, results,
                 resultsClosed, resultsDone, held, groupErr, parentDone, cancelled>>

SendResult(w) ==
  /\ at[w] = "send" /\ Len(results) < Capacity
  /\ results' = Append(results, held[w])
  /\ at' = [at EXCEPT ![w] = "select"]
  /\ UNCHANGED <<consumerVars, fileVars, pc, retErr, jobs, jobsClosed,
                 resultsClosed, resultsDone, held, groupErr, parentDone, cancelled>>

Worker(w) == TakeJob(w) \/ Load(w) \/ SendResult(w) \/ WorkerExit(w)

\* The goroutine that waits for the group: close(results), then the send.
CloseResults ==
  /\ ~resultsClosed /\ \A w \in Workers : at[w] = "exited"
  /\ resultsClosed' = TRUE
  /\ UNCHANGED <<consumerVars, workerVars, fileVars, pc, retErr, jobs, jobsClosed,
                 results, resultsDone, parentDone, cancelled>>

SendDone ==
  /\ resultsClosed /\ ~resultsDone
  /\ resultsDone' = TRUE
  /\ UNCHANGED <<consumerVars, workerVars, fileVars, pc, retErr, jobs, jobsClosed,
                 results, resultsClosed, parentDone, cancelled>>

Closer == CloseResults \/ SendDone

-----------------------------------------------------------------------------
(* The consumer. *)

\* Mutants: the loop runs once too often; the window is not looked at.
MoreToSubmitOnceTooOften == nextSubmit <= totalBatches /\ nextSubmit - nextBatch < Window
MoreToSubmitWithoutWindow == nextSubmit < totalBatches

MoreToSubmit == nextSubmit < totalBatches /\ nextSubmit - nextBatch < Window

SubmitJob ==
  /\ pc = "submit" /\ MoreToSubmit /\ Len(jobs) < Capacity
  /\ jobs' = Append(jobs, nextSubmit)
  /\ nextSubmit' = nextSubmit + 1
  /\ UNCHANGED <<workerVars, fileVars, totalBatches, nextBatch, pending, written,
                 pc, retErr, jobsClosed, results, resultsClosed, resultsDone,
                 parentDone, cancelled>>

\* cancel(); closeJobs(); then waitWorkers, whose error goes before err.
CancelAndWait(err) ==
  /\ cancelled' = TRUE /\ jobsClosed' = TRUE
  /\ pc' = "wait" /\ retErr' = err

SubmitCancelled ==
  /\ pc = "submit" /\ MoreToSubmit /\ WorkerCtxDone
  /\ CancelAndWait("ctx")
  /\ UNCHANGED <<consumerVars, workerVars, fileVars, jobs, results, resultsClosed,
                 resultsDone, parentDone>>

\* Mutants: jobs closed at the end of every call; jobs never closed.
SubmitDoneClosing ==
  /\ pc = "submit" /\ ~MoreToSubmit
  /\ jobsClosed' = TRUE
  /\ pc' = IF nextBatch < totalBatches THEN "receive" ELSE "join"
  /\ UNCHANGED <<consumerVars, workerVars, fileVars, retErr, jobs, results,
                 resultsClosed, resultsDone, parentDone, cancelled>>

SubmitDoneLeavingOpen ==
  /\ pc = "submit" /\ ~MoreToSubmit
  /\ UNCHANGED jobsClosed
  /\ pc' = IF nextBatch < totalBatches THEN "receive" ELSE "join"
  /\ UNCHANGED <<consumerVars, workerVars, fileVars, retErr, jobs, results,
                 resultsClosed, resultsDone, parentDone, cancelled>>

\* submitBatches closes jobs when nothing is left; the loop condition follows.
SubmitDone ==
  /\ pc = "submit" /\ ~MoreToSubmit
  /\ jobsClosed' = (jobsClosed \/ nextSubmit = totalBatches)
  /\ pc' = IF nextBatch < totalBatches THEN "receive" ELSE "join"
  /\ UNCHANGED <<consumerVars, workerVars, fileVars, retErr, jobs, results,
                 resultsClosed, resultsDone, parentDone, cancelled>>

ReceiveResult ==
  /\ pc = "receive" /\ results # <<>>
  /\ pending' = pending \cup {Head(results)}
  /\ results' = Tail(results)
  /\ pc' = "write"
  /\ UNCHANGED <<workerVars, fileVars, totalBatches, nextSubmit, nextBatch, written,
                 retErr, jobs, jobsClosed, resultsClosed, resultsDone, parentDone,
                 cancelled>>

\* "workers stopped before all database results were processed"
ReceiveClosed ==
  /\ pc = "receive" /\ results = <<>> /\ resultsClosed
  /\ pc' = "wait" /\ retErr' = "stopped"
  /\ UNCHANGED <<consumerVars, workerVars, fileVars, jobs, jobsClosed, results,
                 resultsClosed, resultsDone, parentDone, cancelled>>

ReceiveCancelled ==
  /\ pc = "receive" /\ ProcessCtxDone
  /\ CancelAndWait("ctx")
  /\ UNCHANGED <<consumerVars, workerVars, fileVars, jobs, results, resultsClosed,
                 resultsDone, parentDone>>

\* Mutant: batches are written in the order they arrive.
WriteBatchOnArrival ==
  /\ pc = "write"
  /\ \E b \in pending : written' = Append(written, b) /\ pending' = pending \ {b}
  /\ nextBatch' = nextBatch + 1
  /\ UNCHANGED <<workerVars, fileVars, totalBatches, nextSubmit, pc, retErr, jobs,
                 jobsClosed, results, resultsClosed, resultsDone, parentDone, cancelled>>

\* writeBatch looks at the context before each record, so a batch without
\* records is written even when the context has ended.
WriteBatch ==
  /\ pc = "write" /\ nextBatch \in pending
  /\ ~ProcessCtxDone \/ nextBatch \in Hollow
  /\ written' = Append(written, nextBatch)
  /\ pending' = pending \ {nextBatch}
  /\ nextBatch' = nextBatch + 1
  /\ UNCHANGED <<workerVars, fileVars, totalBatches, nextSubmit, pc, retErr, jobs,
                 jobsClosed, results, resultsClosed, resultsDone, parentDone, cancelled>>

\* Mutant: the error of a write ends the loop but not the function.
WriteFailsUnseen ==
  /\ pc = "write" /\ nextBatch \in pending \ Hollow
  /\ pc' = "publish"
  /\ UNCHANGED <<consumerVars, workerVars, fileVars, retErr, jobs, jobsClosed,
                 results, resultsClosed, resultsDone, parentDone, cancelled>>

WriteFails ==
  /\ pc = "write" /\ nextBatch \in pending \ Hollow
  /\ retErr' = IF ProcessCtxDone THEN "ctx" ELSE "write"
  /\ cancelled' = TRUE
  /\ pc' = "return"
  /\ UNCHANGED <<consumerVars, workerVars, fileVars, jobs, jobsClosed, results,
                 resultsClosed, resultsDone, parentDone>>

WriteGap ==
  /\ pc = "write" /\ nextBatch \notin pending
  /\ pc' = "submit"
  /\ UNCHANGED <<consumerVars, workerVars, fileVars, retErr, jobs, jobsClosed,
                 results, resultsClosed, resultsDone, parentDone, cancelled>>

\* Mutant: the consumer's own error goes before the workers'.
WaitWorkersOwnErrorFirst ==
  /\ pc \in {"wait", "join"} /\ resultsDone
  /\ retErr' = IF retErr # "none" THEN retErr ELSE groupErr
  /\ pc' = IF pc = "join" /\ groupErr = "none" THEN "publish" ELSE "return"
  /\ UNCHANGED <<consumerVars, workerVars, fileVars, jobs, jobsClosed, results,
                 resultsClosed, resultsDone, parentDone, cancelled>>

\* waitWorkers on an error path, and after the last batch.
WaitWorkers ==
  /\ pc \in {"wait", "join"} /\ resultsDone
  /\ retErr' = IF groupErr # "none" THEN groupErr ELSE retErr
  /\ pc' = IF pc = "join" /\ groupErr = "none" THEN "publish" ELSE "return"
  /\ UNCHANGED <<consumerVars, workerVars, fileVars, jobs, jobsClosed, results,
                 resultsClosed, resultsDone, parentDone, cancelled>>

\* manifestWriter.Close: the header and the spooled records go into a second
\* temporary file, renamed over the manifest.  Any step may fail; Abort, which
\* removes the spool, may fail when the manifest is already in place.
Publish ==
  /\ pc = "publish"
  /\ pc' = "return"
  /\ \/ manifest' = "new" /\ retErr' \in {"none", "publish"}
     \/ UNCHANGED manifest /\ retErr' = "publish"
  /\ UNCHANGED <<consumerVars, workerVars, source, jobs, jobsClosed, results,
                 resultsClosed, resultsDone, parentDone, cancelled>>

\* The deferred calls in their order: cancel and closeJobs, then waitWorkers,
\* then the reader is closed.
ReturnCancel ==
  /\ pc = "return"
  /\ cancelled' = TRUE /\ jobsClosed' = TRUE
  /\ pc' = "cleanup"
  /\ UNCHANGED <<consumerVars, workerVars, fileVars, retErr, jobs, results,
                 resultsClosed, resultsDone, parentDone>>

\* Mutant: the reader is closed without waiting for the workers.
CleanupUnjoined ==
  /\ pc = "cleanup"
  /\ source' = "closed"
  /\ pc' = "returned"
  /\ UNCHANGED <<consumerVars, workerVars, manifest, retErr, jobs, jobsClosed,
                 results, resultsClosed, resultsDone, parentDone, cancelled>>

Cleanup ==
  /\ pc = "cleanup" /\ resultsDone
  /\ source' = "closed"
  /\ pc' = "returned"
  /\ UNCHANGED <<consumerVars, workerVars, manifest, retErr, jobs, jobsClosed,
                 results, resultsClosed, resultsDone, parentDone, cancelled>>

Consumer ==
  \/ SubmitJob \/ SubmitCancelled \/ SubmitDone
  \/ ReceiveResult \/ ReceiveClosed \/ ReceiveCancelled
  \/ WriteBatch \/ WriteFails \/ WriteGap
  \/ WaitWorkers \/ Publish \/ ReturnCancel \/ Cleanup

\* The caller's context ends: the user interrupts the command.
Interrupt ==
  /\ ~parentDone /\ pc # "returned"
  /\ parentDone' = TRUE
  /\ UNCHANGED <<consumerVars, workerVars, fileVars, pc, retErr, jobs, jobsClosed,
                 results, resultsClosed, resultsDone, cancelled>>

Finished == pc = "returned" /\ UNCHANGED vars

Next == (\E w \in Workers : Worker(w)) \/ Closer \/ Consumer \/ Interrupt \/ Finished

\* The Go scheduler runs every goroutine that can run; a query, a parse or a
\* write ends, well or badly.
Fairness == /\ \A w \in Workers : WF_vars(Worker(w))
            /\ WF_vars(Closer)
            /\ WF_vars(Consumer)

Spec == Init /\ [][Next]_vars /\ Fairness

-----------------------------------------------------------------------------
(* Properties. *)

InOrder(n) == [i \in 1..n |-> i - 1]

\* The types of the variables, and the order of the consumer's counters: it
\* never submits past the last batch, nor past the window.
TypeOK ==
  /\ totalBatches \in 0..MaxBatches /\ nextSubmit \in 0..totalBatches
  /\ nextBatch \in 0..nextSubmit /\ nextSubmit - nextBatch <= Window
  /\ pending \subseteq Batches /\ written \in Seq(Nat)
  /\ pc \in {"submit", "receive", "write", "wait", "join", "publish", "return",
             "cleanup", "returned"}
  /\ retErr \in Errors
  /\ jobs \in Seq(Nat) /\ jobsClosed \in BOOLEAN
  /\ results \in Seq(Nat) /\ resultsClosed \in BOOLEAN /\ resultsDone \in BOOLEAN
  /\ at \in [Workers -> {"select", "load", "send", "exited"}]
  /\ held \in [Workers -> Nat]
  /\ groupErr \in WorkerErrors \cup {"none"}
  /\ parentDone \in BOOLEAN /\ cancelled \in BOOLEAN
  /\ source \in {"open", "closed"} /\ manifest \in {"earlier", "new"}

\* A manifest that was published holds every batch of the source, once, in the
\* order of the source, whatever order the workers finished in and whatever
\* failed or was cancelled.
PublishedInOrder ==
  manifest = "new" => written = InOrder(totalBatches)

\* The window keeps both channels below their capacity: neither the consumer
\* submitting nor a worker handing over a result ever waits for the other, so
\* the two can never wait for each other; and the results held back for an
\* earlier batch are bounded by the window.
NeverBlocked ==
  /\ pc = "submit" /\ MoreToSubmit => Len(jobs) < Capacity
  /\ \A w \in Workers : at[w] = "send" => Len(results) < Capacity
  /\ Cardinality(pending) <= Window

\* Go panics on a send on a closed channel: jobs is closed only after the last
\* submission, results only after the last worker that could send on it.
NoSendOnClosed ==
  /\ pc = "submit" /\ MoreToSubmit => ~jobsClosed
  /\ \A w \in Workers : at[w] # "exited" => ~resultsClosed

\* The error "workers stopped before all ... results were processed" is never
\* returned: a channel of results that is closed and empty before the last batch
\* always means that a worker failed, and then the worker's error is returned.
NeverStopsShort == pc \in {"return", "cleanup", "returned"} => retErr # "stopped"

\* A builder returns a context error only when its caller's context ended: the
\* cancellation a failing worker causes is never reported in place of the error
\* of that worker.
CauseReported == pc = "returned" /\ retErr = "ctx" => parentDone

\* The zip reader and the repository are closed only when no worker can still
\* read from them, on every path out of the function.
NoWorkerOutlivesSource ==
  source = "closed" => \A w \in Workers : at[w] = "exited"

\* On every path the function returns: no worker, channel or wait group keeps it.
Terminates == <>(pc = "returned")

\* What the caller sees: the pool implements OrderedBuild.
Outcome == IF pc # "returned" THEN "running"
           ELSE IF retErr = "none" THEN "ok" ELSE "failed"

Build == INSTANCE OrderedBuild WITH
           total <- totalBatches, emitted <- nextBatch,
           manifest <- manifest, outcome <- Outcome

\* Every behaviour of the pool is one of the abstract builder, which emits the
\* batches in order, publishes once after the last one, and ends.
ImplementsOrderedBuild == Build!Spec
=============================================================================
