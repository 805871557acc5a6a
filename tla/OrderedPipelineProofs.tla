----------------------- MODULE OrderedPipelineProofs -----------------------
(* Theorems about OrderedPipeline, for any finite pool of workers and any number
   of batches.  The invariant says where a batch can be: between its submission
   and its writing it is in exactly one of the channel jobs, the hands of a
   worker, the channel results and the set pending, unless a worker failed. *)
EXTENDS OrderedPipeline, FiniteSetTheorems, TLAPS

-----------------------------------------------------------------------------
(* The inductive invariant. *)

Elements(s) == {s[i] : i \in 1..Len(s)}
Distinct(s) == \A i, j \in 1..Len(s) : s[i] = s[j] => i = j

Busy == {w \in Workers : at[w] \in {"load", "send"}}
Loaded == {held[w] : w \in Busy}
Submitted == nextBatch..(nextSubmit - 1)

\* The types, and the bounds of the counters.
Types ==
  /\ totalBatches \in 0..MaxBatches /\ nextSubmit \in 0..totalBatches
  /\ nextBatch \in 0..nextSubmit /\ nextSubmit - nextBatch <= Window
  /\ pending \in SUBSET Nat /\ written \in Seq(Nat)
  /\ pc \in {"submit", "receive", "write", "wait", "join", "publish", "return",
             "cleanup", "returned"}
  /\ retErr \in Errors
  /\ jobs \in Seq(Nat) /\ jobsClosed \in BOOLEAN
  /\ results \in Seq(Nat) /\ resultsClosed \in BOOLEAN /\ resultsDone \in BOOLEAN
  /\ at \in [Workers -> {"select", "load", "send", "exited"}]
  /\ held \in [Workers -> Nat]
  /\ groupErr \in WorkerErrors \cup {"none"}
  /\ parentDone \in BOOLEAN /\ cancelled \in BOOLEAN
  /\ source \in {"open", "closed"} /\ manifest \in {"earlier", "new"}

\* No batch is in two places.
OnePlace ==
  /\ Elements(jobs) \subseteq Submitted /\ Elements(results) \subseteq Submitted
  /\ Loaded \subseteq Submitted /\ pending \subseteq Submitted
  /\ Distinct(jobs) /\ Distinct(results)
  /\ \A v, w \in Busy : held[v] = held[w] => v = w
  /\ Elements(jobs) \cap Elements(results) = {} /\ Elements(jobs) \cap Loaded = {}
  /\ Elements(jobs) \cap pending = {} /\ Elements(results) \cap Loaded = {}
  /\ Elements(results) \cap pending = {} /\ Loaded \cap pending = {}

\* No batch is lost while no worker failed.
NoneLost ==
  groupErr = "none" =>
    Submitted \subseteq Elements(jobs) \cup Elements(results) \cup Loaded \cup pending

\* Where the consumer is and what it knows there.
Flow ==
  /\ pc \in {"submit", "receive"} => nextBatch \notin pending
  /\ pc = "receive" => nextBatch < nextSubmit
  /\ pc \in {"join", "publish"} => nextBatch = totalBatches
  /\ pc \in {"submit", "receive", "write", "join", "publish"} =>
       ~cancelled /\ retErr = "none"
  /\ jobsClosed => nextSubmit = totalBatches \/ cancelled
  /\ pc = "wait" /\ retErr = "stopped" => groupErr # "none"
  /\ retErr = "stopped" => pc = "wait"
  /\ pc = "wait" => retErr \in {"ctx", "stopped"}
  /\ written = InOrder(nextBatch)
  /\ manifest = "new" =>
       nextBatch = totalBatches /\ pc \in {"return", "cleanup", "returned"}
  /\ pc \in {"return", "cleanup", "returned"} /\ retErr = "none" => manifest = "new"

\* How the workers end.
Ends ==
  /\ resultsDone => resultsClosed
  /\ resultsClosed => \A w \in Workers : at[w] = "exited"
  /\ \A w \in Workers : at[w] = "exited" /\ groupErr = "none" =>
       jobsClosed /\ jobs = <<>>
  /\ source = "closed" => resultsDone

\* Why a context has ended.
Causes ==
  /\ cancelled => parentDone \/ groupErr # "none" \/ retErr = "write" \/ resultsDone
  /\ groupErr = "ctx" => parentDone \/ retErr = "write"
  /\ retErr = "write" => pc \in {"return", "cleanup", "returned"}
  /\ pc = "wait" /\ retErr = "ctx" => parentDone \/ groupErr # "none"
  /\ pc \in {"return", "cleanup", "returned"} /\ retErr = "ctx" => parentDone
  /\ pc \in {"return", "cleanup", "publish"} => cancelled \/ resultsDone

IInv == Types /\ OnePlace /\ NoneLost /\ Flow /\ Ends /\ Causes

\* How much the window holds.
Room == Len(jobs) + Len(results) + Cardinality(pending) + Cardinality(Busy)
          <= nextSubmit - nextBatch

-----------------------------------------------------------------------------
(* Lemmas on sequences. *)

LEMMA ElementsAppend ==
  ASSUME NEW S, NEW s \in Seq(S), NEW x \in S
  PROVE  /\ Elements(Append(s, x)) = Elements(s) \cup {x}
         /\ x \notin Elements(s) /\ Distinct(s) => Distinct(Append(s, x))
<1> DEFINE t == Append(s, x)
<1>1. /\ Len(t) = Len(s) + 1 /\ Len(s) \in Nat
      /\ \A i \in 1..Len(t) : t[i] = IF i <= Len(s) THEN s[i] ELSE x
  OBVIOUS
<1>2. Elements(t) = Elements(s) \cup {x}
  <2>1. ASSUME NEW i \in 1..Len(t) PROVE t[i] \in Elements(s) \cup {x}
    BY <1>1 DEF Elements
  <2>2. ASSUME NEW i \in 1..Len(s) PROVE s[i] \in Elements(t)
    <3>1. i \in 1..Len(t) /\ t[i] = s[i]
      BY <1>1
    <3> QED BY <3>1 DEF Elements
  <2>3. x \in Elements(t)
    <3>1. Len(t) \in 1..Len(t) /\ t[Len(t)] = x
      BY <1>1
    <3> QED BY <3>1 DEF Elements
  <2> HIDE DEF t
  <2> QED BY <2>1, <2>2, <2>3 DEF Elements
<1>3. ASSUME x \notin Elements(s), Distinct(s) PROVE Distinct(t)
  <2> SUFFICES ASSUME NEW i \in 1..Len(t), NEW j \in 1..Len(t), t[i] = t[j]
               PROVE  i = j
    BY DEF Distinct
  <2>1. \A k \in 1..Len(s) : s[k] # x
    BY <1>3 DEF Elements
  <2> HIDE DEF t
  <2> QED BY <2>1, <1>1, <1>3 DEF Distinct
<1> QED BY <1>2, <1>3

LEMMA ElementsTail ==
  ASSUME NEW S, NEW s \in Seq(S), s # <<>>, Distinct(s)
  PROVE  /\ Elements(Tail(s)) = Elements(s) \ {Head(s)}
         /\ Distinct(Tail(s)) /\ Head(s) \in Elements(s) /\ Head(s) \in S
<1> DEFINE t == Tail(s)
<1>1. /\ Len(s) \in Nat /\ Len(s) >= 1 /\ Len(t) = Len(s) - 1
      /\ Head(s) = s[1] /\ Head(s) \in S
      /\ \A i \in 1..Len(t) : t[i] = s[i + 1]
  OBVIOUS
<1> HIDE DEF t
<1>2. Head(s) \in Elements(s)
  BY <1>1 DEF Elements
<1>3. Elements(t) = Elements(s) \ {Head(s)}
  <2>1. ASSUME NEW i \in 1..Len(t) PROVE t[i] \in Elements(s) \ {Head(s)}
    <3>1. i + 1 \in 1..Len(s) /\ 1 \in 1..Len(s) /\ t[i] = s[i + 1] /\ i + 1 # 1
      BY <1>1
    <3>2. s[i + 1] # s[1]
      BY <3>1 DEF Distinct
    <3> QED BY <3>1, <3>2, <1>1 DEF Elements
  <2>2. ASSUME NEW i \in 1..Len(s), s[i] # Head(s) PROVE s[i] \in Elements(t)
    <3>1. i - 1 \in 1..Len(t) /\ t[i - 1] = s[i]
      BY <1>1, <2>2
    <3> QED BY <3>1 DEF Elements
  <2> QED BY <2>1, <2>2 DEF Elements
<1>4. Distinct(t)
  BY <1>1 DEF Distinct
<1> QED BY <1>1, <1>2, <1>3, <1>4 DEF t

LEMMA WindowType == Window \in Nat /\ Window >= 2 /\ Capacity = Window
<1>1. Cardinality(Workers) \in Nat
  BY FS_CardinalityType, WorkersAssumption
<1>2. Cardinality(Workers) # 0
  BY FS_EmptySet, WorkersAssumption
<1> QED BY <1>1, <1>2 DEF Window, Capacity

-----------------------------------------------------------------------------
(* Each part of the invariant is preserved by each action. *)

\* A step preserves the types.
LEMMA TypesStep ==
  ASSUME IInv, [Next]_vars
  PROVE  Types'
<1>1. ASSUME NEW w \in Workers, TakeJob(w) PROVE Types'
  BY <1>1, WindowType DEF TakeJob, IInv, Types, vars, consumerVars, workerVars, fileVars, Errors, WorkerErrors
<1>2. ASSUME NEW w \in Workers, Load(w) PROVE Types'
  BY <1>2, WindowType DEF Load, IInv, Types, vars, consumerVars, workerVars, fileVars, Errors, WorkerErrors
<1>3. ASSUME NEW w \in Workers, SendResult(w) PROVE Types'
  BY <1>3, WindowType DEF SendResult, IInv, Types, vars, consumerVars, workerVars, fileVars, Errors, WorkerErrors
<1>4. ASSUME NEW w \in Workers, WorkerExit(w) PROVE Types'
  BY <1>4, WindowType DEF WorkerExit, Exit, IInv, Types, vars, consumerVars, workerVars, fileVars, Errors, WorkerErrors
<1>5. CASE CloseResults
  BY <1>5, WindowType DEF CloseResults, IInv, Types, vars, consumerVars, workerVars, fileVars, Errors, WorkerErrors
<1>6. CASE SendDone
  BY <1>6, WindowType DEF SendDone, IInv, Types, vars, consumerVars, workerVars, fileVars, Errors, WorkerErrors
<1>7. CASE SubmitJob
  BY <1>7, WindowType DEF SubmitJob, MoreToSubmit, IInv, Types, vars, consumerVars, workerVars, fileVars, Errors, WorkerErrors
<1>8. CASE SubmitCancelled
  BY <1>8, WindowType DEF SubmitCancelled, CancelAndWait, IInv, Types, vars, consumerVars, workerVars, fileVars, Errors, WorkerErrors
<1>9. CASE SubmitDone
  BY <1>9, WindowType DEF SubmitDone, IInv, Types, vars, consumerVars, workerVars, fileVars, Errors, WorkerErrors
<1>10. CASE ReceiveResult
  <2>1. Head(results) \in Nat /\ Tail(results) \in Seq(Nat)
    BY <1>10 DEF ReceiveResult, IInv, Types
  <2>2. pending \cup {Head(results)} \in SUBSET Nat
    BY <2>1 DEF IInv, Types
  <2> QED BY <1>10, <2>1, <2>2, WindowType DEF ReceiveResult, IInv, Types, vars, consumerVars, workerVars, fileVars, Errors, WorkerErrors
<1>11. CASE ReceiveClosed
  BY <1>11, WindowType DEF ReceiveClosed, IInv, Types, vars, consumerVars, workerVars, fileVars, Errors, WorkerErrors
<1>12. CASE ReceiveCancelled
  BY <1>12, WindowType DEF ReceiveCancelled, CancelAndWait, IInv, Types, vars, consumerVars, workerVars, fileVars, Errors, WorkerErrors
<1>13. CASE WriteBatch
  BY <1>13, WindowType DEF WriteBatch, IInv, Types, OnePlace, Submitted, vars, consumerVars, workerVars, fileVars, Errors, WorkerErrors
<1>14. CASE WriteFails
  BY <1>14, WindowType DEF WriteFails, IInv, Types, vars, consumerVars, workerVars, fileVars, Errors, WorkerErrors
<1>15. CASE WriteGap
  BY <1>15, WindowType DEF WriteGap, IInv, Types, vars, consumerVars, workerVars, fileVars, Errors, WorkerErrors
<1>16. CASE WaitWorkers
  BY <1>16, WindowType DEF WaitWorkers, IInv, Types, vars, consumerVars, workerVars, fileVars, Errors, WorkerErrors
<1>17. CASE Publish
  BY <1>17, WindowType DEF Publish, IInv, Types, vars, consumerVars, workerVars, fileVars, Errors, WorkerErrors
<1>18. CASE ReturnCancel
  BY <1>18, WindowType DEF ReturnCancel, IInv, Types, vars, consumerVars, workerVars, fileVars, Errors, WorkerErrors
<1>19. CASE Cleanup
  BY <1>19, WindowType DEF Cleanup, IInv, Types, vars, consumerVars, workerVars, fileVars, Errors, WorkerErrors
<1>20. CASE Interrupt
  BY <1>20, WindowType DEF Interrupt, IInv, Types, vars, consumerVars, workerVars, fileVars, Errors, WorkerErrors
<1>21. CASE UNCHANGED vars
  BY <1>21, WindowType DEF IInv, Types, vars, consumerVars, workerVars, fileVars, Errors, WorkerErrors
<1> QED
  BY <1>1, <1>2, <1>3, <1>4, <1>5, <1>6, <1>7, <1>8, <1>9, <1>10, <1>11, <1>12, <1>13, <1>14, <1>15, <1>16, <1>17, <1>18, <1>19, <1>20, <1>21
     DEF Next, Worker, Closer, Consumer, Finished

\* A step moves a batch from one place to the next, and drops none unless a
\* worker fails.
LEMMA OnePlaceStep ==
  ASSUME IInv, [Next]_vars
  PROVE  OnePlace' /\ NoneLost'
<1>0. ASSUME UNCHANGED <<jobs, results, pending, at, held, groupErr, nextSubmit, nextBatch>>
      PROVE  OnePlace' /\ NoneLost'
  <2>1. /\ UNCHANGED <<Elements(jobs), Distinct(jobs), Elements(results), Distinct(results)>>
        /\ UNCHANGED <<Busy, held, Loaded, Submitted, pending>>
    BY <1>0 DEF Busy, Loaded, Submitted, Elements, Distinct
  <2> QED BY <2>1, <1>0 DEF IInv, OnePlace, NoneLost
<1>1. ASSUME NEW w \in Workers, TakeJob(w) PROVE OnePlace' /\ NoneLost'
  <2>1. /\ Elements(jobs') = Elements(jobs) \ {Head(jobs)} /\ Distinct(jobs')
        /\ Head(jobs) \in Elements(jobs)
    BY <1>1, ElementsTail DEF TakeJob, IInv, Types, OnePlace
  <2>2. Busy' = Busy \cup {w} /\ w \notin Busy
    BY <1>1 DEF TakeJob, IInv, Types, Busy
  <2>3. held'[w] = Head(jobs) /\ \A v \in Busy : held'[v] = held[v]
    BY <1>1, <2>2 DEF TakeJob, IInv, Types, Busy
  <2>4. Loaded' = Loaded \cup {Head(jobs)}
    BY <2>2, <2>3 DEF Loaded
  <2>5. \A u, v \in Busy' : held'[u] = held'[v] => u = v
    BY <2>1, <2>2, <2>3 DEF IInv, OnePlace, Loaded
  <2>6. UNCHANGED <<results, pending, groupErr, nextSubmit, nextBatch>>
    BY <1>1 DEF TakeJob, consumerVars
  <2>7. UNCHANGED <<Elements(results), Distinct(results), Submitted>>
    BY <2>6 DEF Elements, Distinct, Submitted
  <2> QED BY <2>1, <2>4, <2>5, <2>6, <2>7 DEF IInv, OnePlace, NoneLost
<1>2. ASSUME NEW w \in Workers, Load(w) PROVE OnePlace' /\ NoneLost'
  <2>1. Busy' = Busy
    BY <1>2 DEF Load, IInv, Types, Busy
  <2>2. UNCHANGED <<jobs, results, pending, held, groupErr, nextSubmit, nextBatch>>
    BY <1>2 DEF Load, consumerVars
  <2>3. /\ UNCHANGED <<Elements(jobs), Distinct(jobs), Elements(results), Distinct(results)>>
        /\ UNCHANGED <<Loaded, Submitted>>
    BY <2>1, <2>2 DEF Loaded, Submitted, Elements, Distinct
  <2> QED BY <2>1, <2>2, <2>3 DEF IInv, OnePlace, NoneLost
<1>3. ASSUME NEW w \in Workers, SendResult(w) PROVE OnePlace' /\ NoneLost'
  <2>1. w \in Busy /\ held[w] \in Nat /\ held[w] \in Loaded
    BY <1>3 DEF SendResult, IInv, Types, Busy, Loaded
  <2>2. /\ Elements(results') = Elements(results) \cup {held[w]} /\ Distinct(results')
    BY <1>3, <2>1, ElementsAppend DEF SendResult, IInv, Types, OnePlace
  <2>3. Busy' = Busy \ {w}
    BY <1>3 DEF SendResult, IInv, Types, Busy
  <2>4. UNCHANGED <<jobs, held, pending, groupErr, nextSubmit, nextBatch>>
    BY <1>3 DEF SendResult, consumerVars
  <2>5. Loaded' = Loaded \ {held[w]}
    BY <2>1, <2>3, <2>4 DEF IInv, OnePlace, Loaded
  <2>6. \A u, v \in Busy' : held'[u] = held'[v] => u = v
    BY <2>3, <2>4 DEF IInv, OnePlace
  <2>7. UNCHANGED <<Elements(jobs), Distinct(jobs), Submitted>>
    BY <2>4 DEF Elements, Distinct, Submitted
  <2> QED BY <2>1, <2>2, <2>4, <2>5, <2>6, <2>7 DEF IInv, OnePlace, NoneLost
<1>4. ASSUME NEW w \in Workers, WorkerExit(w) PROVE OnePlace' /\ NoneLost'
  <2>1. Busy' \subseteq Busy /\ (groupErr' = "none" => Busy' = Busy /\ groupErr = "none")
    BY <1>4 DEF WorkerExit, Exit, IInv, Types, Busy
  <2>2. UNCHANGED <<jobs, results, held, pending, nextSubmit, nextBatch>>
    BY <1>4 DEF WorkerExit, Exit, consumerVars
  <2>3. Loaded' \subseteq Loaded /\ (groupErr' = "none" => Loaded' = Loaded)
    BY <2>1, <2>2 DEF Loaded
  <2>4. /\ UNCHANGED <<Elements(jobs), Distinct(jobs), Elements(results), Distinct(results)>>
        /\ UNCHANGED Submitted
    BY <2>2 DEF Submitted, Elements, Distinct
  <2> QED BY <2>1, <2>2, <2>3, <2>4 DEF IInv, OnePlace, NoneLost
<1>5. CASE CloseResults
  BY <1>5, <1>0 DEF CloseResults, vars, consumerVars, workerVars, fileVars
<1>6. CASE SendDone
  BY <1>6, <1>0 DEF SendDone, vars, consumerVars, workerVars, fileVars
<1>7. CASE SubmitJob
  <2>1. nextSubmit \in Nat /\ nextBatch \in Nat /\ nextBatch <= nextSubmit
    BY DEF IInv, Types
  <2>2. nextSubmit \notin Submitted /\ Submitted' = Submitted \cup {nextSubmit}
    BY <1>7, <2>1 DEF SubmitJob, Submitted
  <2>3. Elements(jobs') = Elements(jobs) \cup {nextSubmit} /\ Distinct(jobs')
    BY <1>7, <2>1, <2>2, ElementsAppend DEF SubmitJob, IInv, Types, OnePlace
  <2>4. UNCHANGED <<results, Elements(results), Distinct(results), pending, Busy, held, Loaded, groupErr>>
    BY <1>7 DEF SubmitJob, workerVars, Busy, Loaded, Elements, Distinct
  <2> QED BY <2>2, <2>3, <2>4 DEF IInv, OnePlace, NoneLost
<1>8. CASE SubmitCancelled
  BY <1>8, <1>0 DEF SubmitCancelled, CancelAndWait, vars, consumerVars, workerVars, fileVars
<1>9. CASE SubmitDone
  BY <1>9, <1>0 DEF SubmitDone, vars, consumerVars, workerVars, fileVars
<1>10. CASE ReceiveResult
  <2>1. /\ Elements(results') = Elements(results) \ {Head(results)}
        /\ Distinct(results') /\ Head(results) \in Elements(results)
    BY <1>10, ElementsTail DEF ReceiveResult, IInv, Types, OnePlace
  <2>2. UNCHANGED <<jobs, Elements(jobs), Distinct(jobs), Busy, held, Loaded, Submitted, groupErr>>
    BY <1>10 DEF ReceiveResult, workerVars, Busy, Loaded, Elements, Distinct, Submitted
  <2>3. pending' = pending \cup {Head(results)}
    BY <1>10 DEF ReceiveResult
  <2> QED BY <2>1, <2>2, <2>3 DEF IInv, OnePlace, NoneLost
<1>11. CASE ReceiveClosed
  BY <1>11, <1>0 DEF ReceiveClosed, vars, consumerVars, workerVars, fileVars
<1>12. CASE ReceiveCancelled
  BY <1>12, <1>0 DEF ReceiveCancelled, CancelAndWait, vars, consumerVars, workerVars, fileVars
<1>13. CASE WriteBatch
  <2>1. nextSubmit \in Nat /\ nextBatch \in Nat /\ nextBatch \in pending
    BY <1>13 DEF WriteBatch, IInv, Types
  <2>2. Submitted' = Submitted \ {nextBatch}
    BY <1>13, <2>1 DEF WriteBatch, Submitted
  <2>3. pending' = pending \ {nextBatch}
    BY <1>13 DEF WriteBatch
  <2>4. /\ UNCHANGED <<Elements(jobs), Distinct(jobs), Elements(results), Distinct(results)>>
        /\ UNCHANGED <<Busy, held, Loaded, groupErr>>
    BY <1>13 DEF WriteBatch, workerVars, Busy, Loaded, Elements, Distinct
  <2> QED BY <2>1, <2>2, <2>3, <2>4 DEF IInv, OnePlace, NoneLost
<1>14. CASE WriteFails
  BY <1>14, <1>0 DEF WriteFails, vars, consumerVars, workerVars, fileVars
<1>15. CASE WriteGap
  BY <1>15, <1>0 DEF WriteGap, vars, consumerVars, workerVars, fileVars
<1>16. CASE WaitWorkers
  BY <1>16, <1>0 DEF WaitWorkers, vars, consumerVars, workerVars, fileVars
<1>17. CASE Publish
  BY <1>17, <1>0 DEF Publish, vars, consumerVars, workerVars, fileVars
<1>18. CASE ReturnCancel
  BY <1>18, <1>0 DEF ReturnCancel, vars, consumerVars, workerVars, fileVars
<1>19. CASE Cleanup
  BY <1>19, <1>0 DEF Cleanup, vars, consumerVars, workerVars, fileVars
<1>20. CASE Interrupt
  BY <1>20, <1>0 DEF Interrupt, vars, consumerVars, workerVars, fileVars
<1>21. CASE UNCHANGED vars
  BY <1>21, <1>0 DEF vars, consumerVars, workerVars, fileVars
<1> QED
  BY <1>1, <1>2, <1>3, <1>4, <1>5, <1>6, <1>7, <1>8, <1>9, <1>10, <1>11, <1>12, <1>13, <1>14, <1>15, <1>16, <1>17, <1>18, <1>19, <1>20, <1>21
     DEF Next, Worker, Closer, Consumer, Finished

\* A step preserves what the consumer knows at each place.
LEMMA FlowStep ==
  ASSUME IInv, [Next]_vars
  PROVE  Flow'
<1>1. ASSUME NEW w \in Workers, TakeJob(w) PROVE Flow'
  BY <1>1 DEF TakeJob, IInv, Types, Flow, vars, consumerVars, workerVars, fileVars
<1>2. ASSUME NEW w \in Workers, Load(w) PROVE Flow'
  BY <1>2 DEF Load, IInv, Types, Flow, vars, consumerVars, workerVars, fileVars
<1>3. ASSUME NEW w \in Workers, SendResult(w) PROVE Flow'
  BY <1>3 DEF SendResult, IInv, Types, Flow, vars, consumerVars, workerVars, fileVars
<1>4. ASSUME NEW w \in Workers, WorkerExit(w) PROVE Flow'
  BY <1>4 DEF WorkerExit, Exit, IInv, Types, Flow, vars, consumerVars, workerVars, fileVars
<1>5. CASE CloseResults
  BY <1>5 DEF CloseResults, IInv, Types, Flow, vars, consumerVars, workerVars, fileVars
<1>6. CASE SendDone
  BY <1>6 DEF SendDone, IInv, Types, Flow, vars, consumerVars, workerVars, fileVars
<1>7. CASE SubmitJob
  BY <1>7 DEF SubmitJob, MoreToSubmit, IInv, Types, Flow, vars, consumerVars, workerVars, fileVars
<1>8. CASE SubmitCancelled
  BY <1>8 DEF SubmitCancelled, CancelAndWait, IInv, Types, Flow, vars, consumerVars, workerVars, fileVars
<1>9. CASE SubmitDone
  BY <1>9, WindowType DEF SubmitDone, MoreToSubmit, IInv, Types, Flow, vars, consumerVars, workerVars, fileVars
<1>10. CASE ReceiveResult
  BY <1>10 DEF ReceiveResult, IInv, Types, Flow, vars, consumerVars, workerVars, fileVars
<1>11. CASE ReceiveClosed
  <2>1. \A v \in Workers : at[v] = "exited"
    BY <1>11 DEF ReceiveClosed, IInv, Ends
  <2>2. Loaded = {} /\ Elements(results) = {}
    BY <1>11, <2>1 DEF ReceiveClosed, Loaded, Busy, Elements
  <2>3. groupErr = "none" => Elements(jobs) = {}
    BY <2>1, WorkersAssumption DEF IInv, Ends, Elements
  <2>4. nextBatch \in Submitted /\ nextBatch \notin pending
    BY <1>11 DEF ReceiveClosed, IInv, Types, Flow, Submitted
  <2>5. groupErr # "none"
    BY <2>2, <2>3, <2>4 DEF IInv, NoneLost
  <2> QED BY <1>11, <2>5 DEF ReceiveClosed, IInv, Types, Flow, vars, consumerVars, workerVars, fileVars
<1>12. CASE ReceiveCancelled
  BY <1>12 DEF ReceiveCancelled, CancelAndWait, IInv, Types, Flow, vars, consumerVars, workerVars, fileVars
<1>13. CASE WriteBatch
  <2>1. Append(written, nextBatch) = InOrder(nextBatch + 1)
    BY DEF IInv, Types, Flow, InOrder
  <2> QED BY <1>13, <2>1 DEF WriteBatch, IInv, Types, Flow, vars, consumerVars, workerVars, fileVars
<1>14. CASE WriteFails
  BY <1>14 DEF WriteFails, IInv, Types, Flow, vars, consumerVars, workerVars, fileVars
<1>15. CASE WriteGap
  BY <1>15 DEF WriteGap, IInv, Types, Flow, vars, consumerVars, workerVars, fileVars
<1>16. CASE WaitWorkers
  BY <1>16 DEF WaitWorkers, WorkerErrors, IInv, Types, Flow, vars, consumerVars, workerVars, fileVars
<1>17. CASE Publish
  BY <1>17 DEF Publish, IInv, Types, Flow, vars, consumerVars, workerVars, fileVars
<1>18. CASE ReturnCancel
  BY <1>18 DEF ReturnCancel, IInv, Types, Flow, vars, consumerVars, workerVars, fileVars
<1>19. CASE Cleanup
  BY <1>19 DEF Cleanup, IInv, Types, Flow, vars, consumerVars, workerVars, fileVars
<1>20. CASE Interrupt
  BY <1>20 DEF Interrupt, IInv, Types, Flow, vars, consumerVars, workerVars, fileVars
<1>21. CASE UNCHANGED vars
  BY <1>21 DEF IInv, Types, Flow, vars, consumerVars, workerVars, fileVars
<1> QED
  BY <1>1, <1>2, <1>3, <1>4, <1>5, <1>6, <1>7, <1>8, <1>9, <1>10, <1>11, <1>12, <1>13, <1>14, <1>15, <1>16, <1>17, <1>18, <1>19, <1>20, <1>21
     DEF Next, Worker, Closer, Consumer, Finished

\* A worker that has ended stays ended, and has left no job behind.
LEMMA EndsStep ==
  ASSUME IInv, [Next]_vars
  PROVE  Ends'
<1>1. ASSUME NEW w \in Workers, TakeJob(w) PROVE Ends'
  BY <1>1 DEF TakeJob, IInv, Types, Flow, Ends, vars, consumerVars, workerVars, fileVars
<1>2. ASSUME NEW w \in Workers, Load(w) PROVE Ends'
  BY <1>2 DEF Load, IInv, Types, Flow, Ends, vars, consumerVars, workerVars, fileVars
<1>3. ASSUME NEW w \in Workers, SendResult(w) PROVE Ends'
  BY <1>3 DEF SendResult, IInv, Types, Flow, Ends, vars, consumerVars, workerVars, fileVars
<1>4. ASSUME NEW w \in Workers, WorkerExit(w) PROVE Ends'
  BY <1>4 DEF WorkerExit, Exit, IInv, Types, Flow, Ends, vars, consumerVars, workerVars, fileVars
<1>5. CASE CloseResults
  BY <1>5 DEF CloseResults, IInv, Types, Ends, vars, consumerVars, workerVars, fileVars
<1>6. CASE SendDone
  BY <1>6 DEF SendDone, IInv, Types, Flow, Ends, vars, consumerVars, workerVars, fileVars
<1>7. CASE SubmitJob
  BY <1>7 DEF SubmitJob, MoreToSubmit, IInv, Types, Flow, Ends, vars, consumerVars, workerVars, fileVars
<1>8. CASE SubmitCancelled
  BY <1>8 DEF SubmitCancelled, CancelAndWait, IInv, Types, Flow, Ends, vars, consumerVars, workerVars, fileVars
<1>9. CASE SubmitDone
  BY <1>9 DEF SubmitDone, IInv, Types, Flow, Ends, vars, consumerVars, workerVars, fileVars
<1>10. CASE ReceiveResult
  BY <1>10 DEF ReceiveResult, IInv, Types, Flow, Ends, vars, consumerVars, workerVars, fileVars
<1>11. CASE ReceiveClosed
  BY <1>11 DEF ReceiveClosed, IInv, Types, Flow, Ends, vars, consumerVars, workerVars, fileVars
<1>12. CASE ReceiveCancelled
  BY <1>12 DEF ReceiveCancelled, CancelAndWait, IInv, Types, Flow, Ends, vars, consumerVars, workerVars, fileVars
<1>13. CASE WriteBatch
  BY <1>13 DEF WriteBatch, IInv, Types, Flow, Ends, vars, consumerVars, workerVars, fileVars
<1>14. CASE WriteFails
  BY <1>14 DEF WriteFails, IInv, Types, Flow, Ends, vars, consumerVars, workerVars, fileVars
<1>15. CASE WriteGap
  BY <1>15 DEF WriteGap, IInv, Types, Flow, Ends, vars, consumerVars, workerVars, fileVars
<1>16. CASE WaitWorkers
  BY <1>16 DEF WaitWorkers, IInv, Types, Flow, Ends, vars, consumerVars, workerVars, fileVars
<1>17. CASE Publish
  BY <1>17 DEF Publish, IInv, Types, Flow, Ends, vars, consumerVars, workerVars, fileVars
<1>18. CASE ReturnCancel
  BY <1>18 DEF ReturnCancel, IInv, Types, Flow, Ends, vars, consumerVars, workerVars, fileVars
<1>19. CASE Cleanup
  BY <1>19 DEF Cleanup, IInv, Types, Flow, Ends, vars, consumerVars, workerVars, fileVars
<1>20. CASE Interrupt
  BY <1>20 DEF Interrupt, IInv, Types, Flow, Ends, vars, consumerVars, workerVars, fileVars
<1>21. CASE UNCHANGED vars
  BY <1>21 DEF IInv, Types, Flow, Ends, vars, consumerVars, workerVars, fileVars
<1> QED
  BY <1>1, <1>2, <1>3, <1>4, <1>5, <1>6, <1>7, <1>8, <1>9, <1>10, <1>11, <1>12, <1>13, <1>14, <1>15, <1>16, <1>17, <1>18, <1>19, <1>20, <1>21
     DEF Next, Worker, Closer, Consumer, Finished

\* A context ends for a reason that the function returns.
LEMMA CausesStep ==
  ASSUME IInv, [Next]_vars
  PROVE  Causes'
<1>1. ASSUME NEW w \in Workers, TakeJob(w) PROVE Causes'
  BY <1>1 DEF TakeJob, IInv, Types, Flow, Causes, Errors, WorkerErrors, vars, consumerVars, workerVars, fileVars
<1>2. ASSUME NEW w \in Workers, Load(w) PROVE Causes'
  BY <1>2 DEF Load, IInv, Types, Flow, Causes, Errors, WorkerErrors, vars, consumerVars, workerVars, fileVars
<1>3. ASSUME NEW w \in Workers, SendResult(w) PROVE Causes'
  BY <1>3 DEF SendResult, IInv, Types, Flow, Causes, Errors, WorkerErrors, vars, consumerVars, workerVars, fileVars
<1>4. ASSUME NEW w \in Workers, WorkerExit(w) PROVE Causes'
  <2>1. ~resultsClosed /\ ~resultsDone
    BY <1>4 DEF WorkerExit, Exit, IInv, Ends, Types
  <2> QED BY <1>4, <2>1 DEF WorkerExit, Exit, WorkerCtxDone, ProcessCtxDone, IInv, Types, Causes, vars, consumerVars, workerVars, fileVars
<1>5. CASE CloseResults
  BY <1>5 DEF CloseResults, IInv, Types, Flow, Causes, Errors, WorkerErrors, vars, consumerVars, workerVars, fileVars
<1>6. CASE SendDone
  BY <1>6 DEF SendDone, IInv, Types, Flow, Causes, Errors, WorkerErrors, vars, consumerVars, workerVars, fileVars
<1>7. CASE SubmitJob
  BY <1>7 DEF SubmitJob, IInv, Types, Flow, Causes, Errors, WorkerErrors, vars, consumerVars, workerVars, fileVars
<1>8. CASE SubmitCancelled
  <2>1. nextSubmit < totalBatches /\ ~cancelled
    BY <1>8 DEF SubmitCancelled, MoreToSubmit, IInv, Flow
  <2>2. resultsClosed => groupErr # "none"
    BY <2>1, WorkersAssumption DEF IInv, Types, Flow, Ends
  <2> QED BY <1>8, <2>1, <2>2 DEF SubmitCancelled, CancelAndWait, WorkerCtxDone, ProcessCtxDone, IInv, Types, Flow, Causes, vars, consumerVars, workerVars, fileVars
<1>9. CASE SubmitDone
  BY <1>9 DEF SubmitDone, IInv, Types, Flow, Causes, Errors, WorkerErrors, vars, consumerVars, workerVars, fileVars
<1>10. CASE ReceiveResult
  BY <1>10 DEF ReceiveResult, IInv, Types, Flow, Causes, Errors, WorkerErrors, vars, consumerVars, workerVars, fileVars
<1>11. CASE ReceiveClosed
  BY <1>11 DEF ReceiveClosed, IInv, Types, Flow, Causes, Errors, WorkerErrors, vars, consumerVars, workerVars, fileVars
<1>12. CASE ReceiveCancelled
  BY <1>12 DEF ReceiveCancelled, CancelAndWait, ProcessCtxDone, IInv, Types, Flow, Causes, vars, consumerVars, workerVars, fileVars
<1>13. CASE WriteBatch
  BY <1>13 DEF WriteBatch, IInv, Types, Flow, Causes, Errors, WorkerErrors, vars, consumerVars, workerVars, fileVars
<1>14. CASE WriteFails
  BY <1>14 DEF WriteFails, ProcessCtxDone, IInv, Types, Flow, Causes, Errors, WorkerErrors, vars, consumerVars, workerVars, fileVars
<1>15. CASE WriteGap
  BY <1>15 DEF WriteGap, IInv, Types, Flow, Causes, Errors, WorkerErrors, vars, consumerVars, workerVars, fileVars
<1>16. CASE WaitWorkers
  BY <1>16 DEF WaitWorkers, IInv, Types, Flow, Causes, Errors, WorkerErrors, vars, consumerVars, workerVars, fileVars
<1>17. CASE Publish
  BY <1>17 DEF Publish, IInv, Types, Flow, Causes, Errors, WorkerErrors, vars, consumerVars, workerVars, fileVars
<1>18. CASE ReturnCancel
  BY <1>18 DEF ReturnCancel, IInv, Types, Flow, Causes, Errors, WorkerErrors, vars, consumerVars, workerVars, fileVars
<1>19. CASE Cleanup
  BY <1>19 DEF Cleanup, IInv, Types, Flow, Causes, Errors, WorkerErrors, vars, consumerVars, workerVars, fileVars
<1>20. CASE Interrupt
  BY <1>20 DEF Interrupt, IInv, Types, Flow, Causes, Errors, WorkerErrors, vars, consumerVars, workerVars, fileVars
<1>21. CASE UNCHANGED vars
  BY <1>21 DEF IInv, Types, Flow, Causes, Errors, WorkerErrors, vars, consumerVars, workerVars, fileVars
<1> QED
  BY <1>1, <1>2, <1>3, <1>4, <1>5, <1>6, <1>7, <1>8, <1>9, <1>10, <1>11, <1>12, <1>13, <1>14, <1>15, <1>16, <1>17, <1>18, <1>19, <1>20, <1>21
     DEF Next, Worker, Closer, Consumer, Finished

-----------------------------------------------------------------------------
(* The room the window leaves. *)

LEMMA BusyFinite == Types => /\ IsFiniteSet(Busy) /\ Cardinality(Busy) \in Nat
                            /\ IsFiniteSet(Workers)
  BY FS_Subset, FS_CardinalityType, WorkersAssumption DEF Busy

\* pending holds batches of the window only, so it is finite.
LEMMA PendingFinite ==
  IInv => IsFiniteSet(pending) /\ Cardinality(pending) \in Nat
<1> SUFFICES ASSUME IInv PROVE IsFiniteSet(pending)
  BY FS_CardinalityType
<1>1. IsFiniteSet(Submitted)
  BY FS_Interval DEF IInv, Types, Submitted
<1> QED BY <1>1, FS_Subset DEF IInv, OnePlace

\* Every batch in a channel, a hand or pending takes its place in the window.
LEMMA RoomStep ==
  ASSUME IInv, Room, [Next]_vars
  PROVE  Room'
<1> USE DEF Room
<1>a. /\ Len(jobs) \in Nat /\ Len(results) \in Nat /\ nextSubmit \in Nat
      /\ nextBatch \in Nat /\ IsFiniteSet(Busy) /\ IsFiniteSet(pending)
      /\ Cardinality(Busy) \in Nat /\ Cardinality(pending) \in Nat
  BY BusyFinite, PendingFinite DEF IInv, Types
<1>0. ASSUME UNCHANGED <<jobs, results, pending, at, nextSubmit, nextBatch>>
      PROVE  Room'
  BY <1>0 DEF Busy
<1>1. ASSUME NEW w \in Workers, TakeJob(w) PROVE Room'
  <2>1. Busy' = Busy \cup {w} /\ w \notin Busy
    BY <1>1 DEF TakeJob, IInv, Types, Busy
  <2>2. Cardinality(Busy') = Cardinality(Busy) + 1
    BY <2>1, <1>a, FS_AddElement
  <2>3. Len(jobs') = Len(jobs) - 1
    BY <1>1 DEF TakeJob, IInv, Types
  <2> QED BY <1>1, <1>a, <2>2, <2>3 DEF TakeJob, consumerVars
<1>2. ASSUME NEW w \in Workers, Load(w) PROVE Room'
  <2>1. Busy' = Busy
    BY <1>2 DEF Load, IInv, Types, Busy
  <2> QED BY <1>2, <2>1 DEF Load, consumerVars
<1>3. ASSUME NEW w \in Workers, SendResult(w) PROVE Room'
  <2>1. Busy' = Busy \ {w} /\ w \in Busy
    BY <1>3 DEF SendResult, IInv, Types, Busy
  <2>2. Cardinality(Busy') = Cardinality(Busy) - 1
    BY <2>1, <1>a, FS_RemoveElement
  <2>3. Len(results') = Len(results) + 1
    BY <1>3 DEF SendResult, IInv, Types
  <2> QED BY <1>3, <1>a, <2>2, <2>3 DEF SendResult, consumerVars
<1>4. ASSUME NEW w \in Workers, WorkerExit(w) PROVE Room'
  <2>1. Busy' \subseteq Busy
    BY <1>4 DEF WorkerExit, Exit, IInv, Types, Busy
  <2>2. Cardinality(Busy') \in Nat /\ Cardinality(Busy') <= Cardinality(Busy)
    BY <2>1, <1>a, FS_Subset, FS_CardinalityType
  <2> QED BY <1>4, <1>a, <2>2 DEF WorkerExit, Exit, consumerVars
<1>5. CASE CloseResults
  BY <1>5, <1>0 DEF CloseResults, vars, consumerVars, workerVars, fileVars
<1>6. CASE SendDone
  BY <1>6, <1>0 DEF SendDone, vars, consumerVars, workerVars, fileVars
<1>7. CASE SubmitJob
  <2>1. Len(jobs') = Len(jobs) + 1
    BY <1>7 DEF SubmitJob, IInv, Types
  <2>2. UNCHANGED <<results, pending, Busy, nextBatch>> /\ nextSubmit' = nextSubmit + 1
    BY <1>7 DEF SubmitJob, workerVars, Busy
  <2> QED BY <1>a, <2>1, <2>2
<1>8. CASE SubmitCancelled
  BY <1>8, <1>0 DEF SubmitCancelled, CancelAndWait, vars, consumerVars, workerVars, fileVars
<1>9. CASE SubmitDone
  BY <1>9, <1>0 DEF SubmitDone, vars, consumerVars, workerVars, fileVars
<1>10. CASE ReceiveResult
  <2>1. Len(results') = Len(results) - 1
    BY <1>10 DEF ReceiveResult, IInv, Types
  <2>2. Cardinality(pending') \in Nat /\ Cardinality(pending') <= Cardinality(pending) + 1
    <3>1. pending' = pending \cup {Head(results)}
      BY <1>10 DEF ReceiveResult
    <3>2. /\ Cardinality(pending') \in Nat
          /\ Cardinality(pending') = IF Head(results) \in pending
                                     THEN Cardinality(pending) ELSE Cardinality(pending) + 1
      BY <3>1, <1>a, FS_AddElement, FS_CardinalityType
    <3> QED BY <3>2, <1>a
  <2>3. UNCHANGED <<jobs, Busy, nextSubmit, nextBatch>>
    BY <1>10 DEF ReceiveResult, workerVars, Busy
  <2> QED BY <1>a, <2>1, <2>2, <2>3
<1>11. CASE ReceiveClosed
  BY <1>11, <1>0 DEF ReceiveClosed, vars, consumerVars, workerVars, fileVars
<1>12. CASE ReceiveCancelled
  BY <1>12, <1>0 DEF ReceiveCancelled, CancelAndWait, vars, consumerVars, workerVars, fileVars
<1>13. CASE WriteBatch
  <2>1. Cardinality(pending') = Cardinality(pending) - 1
    BY <1>13, <1>a, FS_RemoveElement DEF WriteBatch
  <2>2. UNCHANGED <<jobs, results, Busy, nextSubmit>> /\ nextBatch' = nextBatch + 1
    BY <1>13 DEF WriteBatch, workerVars, Busy
  <2> QED BY <1>a, <2>1, <2>2
<1>14. CASE WriteFails
  BY <1>14, <1>0 DEF WriteFails, vars, consumerVars, workerVars, fileVars
<1>15. CASE WriteGap
  BY <1>15, <1>0 DEF WriteGap, vars, consumerVars, workerVars, fileVars
<1>16. CASE WaitWorkers
  BY <1>16, <1>0 DEF WaitWorkers, vars, consumerVars, workerVars, fileVars
<1>17. CASE Publish
  BY <1>17, <1>0 DEF Publish, vars, consumerVars, workerVars, fileVars
<1>18. CASE ReturnCancel
  BY <1>18, <1>0 DEF ReturnCancel, vars, consumerVars, workerVars, fileVars
<1>19. CASE Cleanup
  BY <1>19, <1>0 DEF Cleanup, vars, consumerVars, workerVars, fileVars
<1>20. CASE Interrupt
  BY <1>20, <1>0 DEF Interrupt, vars, consumerVars, workerVars, fileVars
<1>21. CASE UNCHANGED vars
  BY <1>21, <1>0 DEF vars, consumerVars, workerVars, fileVars
<1> QED
  BY <1>1, <1>2, <1>3, <1>4, <1>5, <1>6, <1>7, <1>8, <1>9, <1>10, <1>11, <1>12, <1>13, <1>14, <1>15, <1>16, <1>17, <1>18, <1>19, <1>20, <1>21
     DEF Next, Worker, Closer, Consumer, Finished

-----------------------------------------------------------------------------
(* The refinement. *)

\* A step of the pool is a step of the abstract builder, or none.
LEMMA BuildStep ==
  ASSUME IInv, [Next]_vars
  PROVE  [Build!Next]_(Build!vars)
<1>1. ASSUME NEW w \in Workers, TakeJob(w) PROVE [Build!Next]_(Build!vars)
  BY <1>1 DEF TakeJob, IInv, Types, Flow, Outcome, Build!vars, vars, consumerVars, workerVars, fileVars
<1>2. ASSUME NEW w \in Workers, Load(w) PROVE [Build!Next]_(Build!vars)
  BY <1>2 DEF Load, IInv, Types, Flow, Outcome, Build!vars, vars, consumerVars, workerVars, fileVars
<1>3. ASSUME NEW w \in Workers, SendResult(w) PROVE [Build!Next]_(Build!vars)
  BY <1>3 DEF SendResult, IInv, Types, Flow, Outcome, Build!vars, vars, consumerVars, workerVars, fileVars
<1>4. ASSUME NEW w \in Workers, WorkerExit(w) PROVE [Build!Next]_(Build!vars)
  BY <1>4 DEF WorkerExit, Exit, Outcome, Build!vars, vars, consumerVars, workerVars, fileVars
<1>5. CASE CloseResults
  BY <1>5 DEF CloseResults, IInv, Types, Flow, Outcome, Build!vars, vars, consumerVars, workerVars, fileVars
<1>6. CASE SendDone
  BY <1>6 DEF SendDone, IInv, Types, Flow, Outcome, Build!vars, vars, consumerVars, workerVars, fileVars
<1>7. CASE SubmitJob
  BY <1>7 DEF SubmitJob, IInv, Types, Flow, Outcome, Build!vars, vars, consumerVars, workerVars, fileVars
<1>8. CASE SubmitCancelled
  BY <1>8 DEF SubmitCancelled, CancelAndWait, IInv, Types, Flow, Outcome, Build!vars, vars, consumerVars, workerVars, fileVars
<1>9. CASE SubmitDone
  BY <1>9 DEF SubmitDone, IInv, Types, Flow, Outcome, Build!vars, vars, consumerVars, workerVars, fileVars
<1>10. CASE ReceiveResult
  BY <1>10 DEF ReceiveResult, IInv, Types, Flow, Outcome, Build!vars, vars, consumerVars, workerVars, fileVars
<1>11. CASE ReceiveClosed
  BY <1>11 DEF ReceiveClosed, IInv, Types, Flow, Outcome, Build!vars, vars, consumerVars, workerVars, fileVars
<1>12. CASE ReceiveCancelled
  BY <1>12 DEF ReceiveCancelled, CancelAndWait, IInv, Types, Flow, Outcome, Build!vars, vars, consumerVars, workerVars, fileVars
<1>13. CASE WriteBatch
  BY <1>13 DEF WriteBatch, IInv, Types, OnePlace, Submitted, Flow, Outcome, Build!Next, Build!Emit, Build!vars, vars, consumerVars, workerVars, fileVars
<1>14. CASE WriteFails
  BY <1>14 DEF WriteFails, IInv, Types, Flow, Outcome, Build!vars, vars, consumerVars, workerVars, fileVars
<1>15. CASE WriteGap
  BY <1>15 DEF WriteGap, IInv, Types, Flow, Outcome, Build!vars, vars, consumerVars, workerVars, fileVars
<1>16. CASE WaitWorkers
  BY <1>16 DEF WaitWorkers, IInv, Types, Flow, Outcome, Build!vars, vars, consumerVars, workerVars, fileVars
<1>17. CASE Publish
  BY <1>17 DEF Publish, IInv, Types, Flow, Outcome, Build!Next, Build!Emit, Build!Publish, Build!End, Build!vars, vars, consumerVars, workerVars, fileVars
<1>18. CASE ReturnCancel
  BY <1>18 DEF ReturnCancel, IInv, Types, Flow, Outcome, Build!vars, vars, consumerVars, workerVars, fileVars
<1>19. CASE Cleanup
  BY <1>19 DEF Cleanup, IInv, Types, Flow, Outcome, Build!Next, Build!Emit, Build!Publish, Build!End, Build!vars, vars, consumerVars, workerVars, fileVars
<1>20. CASE Interrupt
  BY <1>20 DEF Interrupt, IInv, Types, Flow, Outcome, Build!vars, vars, consumerVars, workerVars, fileVars
<1>21. CASE UNCHANGED vars
  BY <1>21 DEF IInv, Types, Flow, Outcome, Build!vars, vars, consumerVars, workerVars, fileVars
<1> QED
  BY <1>1, <1>2, <1>3, <1>4, <1>5, <1>6, <1>7, <1>8, <1>9, <1>10, <1>11, <1>12, <1>13, <1>14, <1>15, <1>16, <1>17, <1>18, <1>19, <1>20, <1>21
     DEF Next, Worker, Closer, Consumer, Finished

-----------------------------------------------------------------------------
(* The theorems. *)

LEMMA InitInv == Init => IInv /\ Room
<1> SUFFICES ASSUME Init PROVE IInv /\ Room
  OBVIOUS
<1> USE DEF Init
<1>1. Types
  <2>1. totalBatches \in Nat /\ totalBatches \in 0..MaxBatches /\ Window >= 0
    BY WindowType, MaxBatchesAssumption
  <2>2. written \in Seq(Nat) /\ jobs \in Seq(Nat) /\ results \in Seq(Nat)
    OBVIOUS
  <2>3. /\ at \in [Workers -> {"select", "load", "send", "exited"}]
        /\ held \in [Workers -> Nat]
    OBVIOUS
  <2>4. /\ nextSubmit \in 0..totalBatches /\ nextBatch \in 0..nextSubmit
        /\ nextSubmit - nextBatch <= Window /\ pending \in SUBSET Nat
    BY <2>1, WindowType
  <2>5. retErr \in Errors /\ groupErr \in WorkerErrors \cup {"none"}
    BY DEF Errors, WorkerErrors
  <2> QED BY <2>1, <2>2, <2>3, <2>4, <2>5 DEF Types
<1>2. Busy = {} /\ Loaded = {} /\ Elements(jobs) = {} /\ Elements(results) = {}
  BY DEF Busy, Loaded, Elements
<1>3. OnePlace /\ NoneLost
  BY <1>2 DEF OnePlace, NoneLost, Submitted, Distinct
<1>4. Flow /\ Ends /\ Causes
  <2>1. written = InOrder(nextBatch)
    BY DEF InOrder
  <2> QED BY <2>1 DEF Flow, Ends, Causes
<1>5. Room
  BY <1>2, FS_EmptySet DEF Room
<1> QED BY <1>1, <1>3, <1>4, <1>5 DEF IInv

\* The invariant holds in every behaviour.
THEOREM Invariance == Spec => [](IInv /\ Room)
<1>1. Init => IInv /\ Room
  BY InitInv
<1>2. IInv /\ Room /\ [Next]_vars => (IInv /\ Room)'
  BY TypesStep, OnePlaceStep, FlowStep, EndsStep, CausesStep, RoomStep DEF IInv
<1> QED BY <1>1, <1>2, PTL DEF Spec

\* The types of OrderedPipeline, for any pool and any number of batches.
THEOREM TypeCorrect == Spec => []TypeOK
<1>1. IInv => TypeOK
  BY DEF IInv, Types, OnePlace, Submitted, TypeOK, Batches
<1> QED BY <1>1, Invariance, PTL

\* A published manifest holds all the batches of its source, in order, once.
THEOREM PublishedIsInOrder == Spec => []PublishedInOrder
<1>1. IInv => PublishedInOrder
  BY DEF IInv, Flow, PublishedInOrder
<1> QED BY <1>1, Invariance, PTL

\* The window bounds pending, and neither side of the pool waits on a full channel.
THEOREM NeverWaitsOnFullChannel == Spec => []NeverBlocked
<1>1. ASSUME IInv, Room PROVE NeverBlocked
  <2>1. /\ Len(jobs) \in Nat /\ Len(results) \in Nat /\ Cardinality(Busy) \in Nat
        /\ Cardinality(pending) \in Nat /\ nextSubmit - nextBatch <= Window
        /\ nextSubmit \in Nat /\ nextBatch \in Nat /\ IsFiniteSet(Busy)
    BY <1>1, BusyFinite, PendingFinite DEF IInv, Types
  <2>2. pc = "submit" /\ MoreToSubmit => Len(jobs) < Capacity
    BY <1>1, <2>1, WindowType DEF Room, MoreToSubmit
  <2>3. ASSUME NEW w \in Workers, at[w] = "send" PROVE Len(results) < Capacity
    <3>1. Busy # {}
      BY <2>3 DEF Busy
    <3>2. Cardinality(Busy) >= 1
      BY <2>1, <3>1, FS_EmptySet
    <3> QED BY <1>1, <2>1, <3>2, WindowType DEF Room
  <2>4. Cardinality(pending) <= Window
    BY <1>1, <2>1, WindowType DEF Room
  <2> QED BY <2>2, <2>3, <2>4 DEF NeverBlocked
<1> QED BY <1>1, Invariance, PTL

\* No goroutine of the pool sends on a closed channel, which would panic.
THEOREM NeverSendsOnClosed == Spec => []NoSendOnClosed
<1>1. IInv => NoSendOnClosed
  BY DEF IInv, Types, Flow, Ends, NoSendOnClosed, MoreToSubmit
<1> QED BY <1>1, Invariance, PTL

\* The error "workers stopped before all ... results were processed" is dead code.
THEOREM StopsShortIsUnreachable == Spec => []NeverStopsShort
<1>1. IInv => NeverStopsShort
  BY DEF IInv, Flow, NeverStopsShort
<1> QED BY <1>1, Invariance, PTL

\* A context error is returned only to a caller whose context ended.
THEOREM ErrorsHaveTheirCause == Spec => []CauseReported
<1>1. IInv => CauseReported
  BY DEF IInv, Causes, CauseReported
<1> QED BY <1>1, Invariance, PTL

\* The source is closed after the last worker.
THEOREM SourceOutlivesWorkers == Spec => []NoWorkerOutlivesSource
<1>1. IInv => NoWorkerOutlivesSource
  BY DEF IInv, Ends, NoWorkerOutlivesSource
<1> QED BY <1>1, Invariance, PTL

\* The safety part of the refinement: the pool starts and moves as the abstract
\* builder does.
THEOREM BuildsInOrder == Spec => Build!Init /\ [][Build!Next]_(Build!vars)
<1>1. Init => Build!Init
  BY DEF Init, Build!Init, Outcome
<1>2. IInv /\ [Next]_vars => [Build!Next]_(Build!vars)
  BY BuildStep
<1> QED BY <1>1, <1>2, Invariance, PTL DEF Spec
=============================================================================
