---------------------------- MODULE ScanWorkers ----------------------------
(***************************************************************************)
(* ScanOp: goroutines that each run storage.Scan over a share of the       *)
(* segments and send batches into one channel, and the operator above that *)
(* pulls from it, closes early, or is cancelled.                           *)
(***************************************************************************)
EXTENDS Integers, Sequences, FiniteSets

CONSTANTS
    Segments,    \* per segment of the snapshot, the batches it yields
    Parallelism, \* workers asked for
    TopK         \* whether ORDER BY ... LIMIT is pushed into the scan

ASSUME SegmentsAssumption == Segments \in Seq(Nat)
ASSUME ParallelismAssumption == Parallelism \in Int
ASSUME TopKAssumption == TopK \in BOOLEAN

Wanted == IF Parallelism < 1 \/ Len(Segments) <= 1 \/ TopK THEN 1 ELSE Parallelism

\* Workers started; none for a table without segments.
Count == IF Wanted > Len(Segments) THEN Len(Segments) ELSE Wanted
Workers == 0..(Count - 1)

\* partitionSegments deals the segments out in turn.
WorkerOf(s) == (s - 1) % Count
Earlier(s) == {r \in DOMAIN Segments : r < s /\ WorkerOf(r) = WorkerOf(s)}

VARIABLES
    sent,      \* per segment, batches put into the channel
    loaded,    \* workers with a cloned batch that waits for room
    status,    \* of a worker: "running", "reporting" an error, "returned"
    out,       \* the channel: a sequence of <<segment, batch>>
    outClosed,
    errs,      \* the error channel: workers whose error it holds
    cancelled, \* the context of the scan is done
    pc,        \* of the consumer: "pulling", "answered", "draining", "closed"
    outcome,   \* what Next returned instead of a batch
    taken,     \* per segment, the last batch Next returned
    failed     \* history: a worker could not read a segment

workerVars == <<sent, loaded, status, errs>>
consumerVars == <<pc, outcome, taken>>
vars == <<sent, loaded, status, out, outClosed, errs, cancelled, pc, outcome, taken, failed>>

\* Open
Init == /\ sent = [s \in DOMAIN Segments |-> 0]
        /\ loaded = {}
        /\ status = [w \in Workers |-> "running"]
        /\ out = <<>> /\ outClosed = FALSE
        /\ errs = {}
        /\ cancelled = FALSE
        /\ pc = "pulling" /\ outcome = "none"
        /\ taken = [s \in DOMAIN Segments |-> 0]
        /\ failed = FALSE

-----------------------------------------------------------------------------
(* A worker *)

\* The segment a worker is in: the first of its share with a batch left.
At(w, s) == /\ WorkerOf(s) = w
            /\ sent[s] < Segments[s]
            /\ \A r \in Earlier(s) : sent[r] = Segments[r]

Running(w) == status[w] = "running"

\* storage.Scan calls back with the next batch, which is cloned.
Load(w) == /\ Running(w) /\ w \notin loaded
           /\ \E s \in DOMAIN Segments : At(w, s)
           /\ loaded' = loaded \cup {w}
           /\ UNCHANGED <<sent, status, errs, out, outClosed, cancelled, consumerVars, failed>>

\* Mutant: the callback is left before the batch is in the channel.
SendBug(w) ==
    /\ Running(w) /\ w \in loaded
    /\ \E s \in DOMAIN Segments :
          /\ At(w, s)
          /\ out' = IF Len(out) < Count THEN Append(out, <<s, sent[s] + 1>>) ELSE out
          /\ sent' = [sent EXCEPT ![s] = @ + 1]
    /\ loaded' = loaded \ {w}
    /\ UNCHANGED <<status, errs, outClosed, cancelled, consumerVars, failed>>

\* Mutant: the channel takes any number of batches.
SendUnbounded(w) ==
    /\ Running(w) /\ w \in loaded
    /\ \E s \in DOMAIN Segments :
          /\ At(w, s)
          /\ out' = Append(out, <<s, sent[s] + 1>>)
          /\ sent' = [sent EXCEPT ![s] = @ + 1]
    /\ loaded' = loaded \ {w}
    /\ UNCHANGED <<status, errs, outClosed, cancelled, consumerVars, failed>>

\* The select may send although the context is done.
Send(w) == /\ Running(w) /\ w \in loaded
           /\ Len(out) < Count
           /\ \E s \in DOMAIN Segments :
                 /\ At(w, s)
                 /\ out' = Append(out, <<s, sent[s] + 1>>)
                 /\ sent' = [sent EXCEPT ![s] = @ + 1]
           /\ loaded' = loaded \ {w}
           /\ UNCHANGED <<status, errs, outClosed, cancelled, consumerVars, failed>>

SeeCancel(w) == /\ Running(w) /\ w \in loaded /\ cancelled
                /\ loaded' = loaded \ {w}
                /\ status' = [status EXCEPT ![w] = "reporting"]
                /\ UNCHANGED <<sent, errs, out, outClosed, cancelled, consumerVars, failed>>

\* storage.Scan gives up, before the first batch or after the last one too.
Fail(w) == /\ Running(w) /\ w \notin loaded
           /\ status' = [status EXCEPT ![w] = "reporting"]
           /\ failed' = TRUE
           /\ UNCHANGED <<sent, loaded, errs, out, outClosed, cancelled, consumerVars>>

\* Mutant: an error leaves without wg.Done.
ReportBug(w) == /\ status[w] = "reporting" /\ w \notin errs
                /\ errs' = errs \cup {w}
                /\ UNCHANGED <<sent, loaded, status, out, outClosed, cancelled, consumerVars, failed>>

\* The send to the error channel is given up when that is full.
Report(w) == /\ status[w] = "reporting"
             /\ errs' = IF Cardinality(errs) < Count THEN errs \cup {w} ELSE errs
             /\ status' = [status EXCEPT ![w] = "returned"]
             /\ UNCHANGED <<sent, loaded, out, outClosed, cancelled, consumerVars, failed>>

Finish(w) == /\ Running(w) /\ w \notin loaded
             /\ \A s \in DOMAIN Segments : WorkerOf(s) = w => sent[s] = Segments[s]
             /\ status' = [status EXCEPT ![w] = "returned"]
             /\ UNCHANGED <<sent, loaded, errs, out, outClosed, cancelled, consumerVars, failed>>

Worker(w) == Load(w) \/ Send(w) \/ SeeCancel(w) \/ Fail(w) \/ Report(w) \/ Finish(w)

\* Mutant: the channel is closed by the first worker that is done.
CloseOutBug ==
    /\ ~outClosed /\ \E w \in Workers : status[w] = "returned"
    /\ outClosed' = TRUE
    /\ UNCHANGED <<workerVars, out, cancelled, consumerVars, failed>>

\* After wg.Wait, or by the only worker.
CloseOut == /\ ~outClosed /\ \A w \in Workers : status[w] = "returned"
            /\ outClosed' = TRUE
            /\ UNCHANGED <<workerVars, out, cancelled, consumerVars, failed>>

-----------------------------------------------------------------------------
(* The consumer *)

\* Next, one action for each way it returns.
Receive == /\ pc = "pulling" /\ out # <<>>
           /\ taken' = [taken EXCEPT ![Head(out)[1]] = Head(out)[2]]
           /\ out' = Tail(out)
           /\ UNCHANGED <<workerVars, outClosed, cancelled, pc, outcome, failed>>

ReceiveEnd == /\ pc = "pulling" /\ out = <<>> /\ outClosed
              /\ IF errs = {} THEN outcome' = "end" /\ UNCHANGED errs
                 ELSE outcome' = "error" /\ \E w \in errs : errs' = errs \ {w}
              /\ pc' = "answered"
              /\ UNCHANGED <<sent, loaded, status, out, outClosed, cancelled, taken, failed>>

ReceiveCancelled == /\ pc = "pulling" /\ cancelled
                    /\ outcome' = "error" /\ pc' = "answered"
                    /\ UNCHANGED <<workerVars, out, outClosed, cancelled, taken, failed>>

\* Also while batches are left: a LIMIT is satisfied, or another operator failed.
Close == /\ pc \in {"pulling", "answered"}
         /\ cancelled' = TRUE
         /\ pc' = "draining"
         /\ UNCHANGED <<workerVars, out, outClosed, outcome, taken, failed>>

Drain == /\ pc = "draining" /\ out # <<>>
         /\ out' = Tail(out)
         /\ UNCHANGED <<workerVars, outClosed, cancelled, consumerVars, failed>>

DrainEnd == /\ pc = "draining" /\ out = <<>> /\ outClosed
            /\ pc' = "closed"
            /\ UNCHANGED <<workerVars, out, outClosed, cancelled, outcome, taken, failed>>

\* The caller of the query cancels its context.
CancelQuery == /\ ~cancelled /\ cancelled' = TRUE
               /\ UNCHANGED <<workerVars, out, outClosed, consumerVars, failed>>

Consumer == Receive \/ ReceiveEnd \/ ReceiveCancelled \/ Close \/ Drain \/ DrainEnd

Next == (\E w \in Workers : Worker(w)) \/ CloseOut \/ Consumer \/ CancelQuery

Spec == Init /\ [][Next]_vars

\* Goroutines are scheduled and reads end; the engine pulls until Next has no
\* batch, then closes. Nobody has to cancel or to close early.
FairSpec == /\ Spec
            /\ \A w \in Workers : WF_vars(Worker(w))
            /\ WF_vars(CloseOut)
            /\ WF_vars(Receive \/ ReceiveEnd \/ ReceiveCancelled \/ Drain \/ DrainEnd)
            /\ WF_vars(pc = "answered" /\ Close)

-----------------------------------------------------------------------------
(* Properties *)

TypeOK == /\ sent \in [DOMAIN Segments -> Nat]
          /\ loaded \subseteq Workers
          /\ status \in [Workers -> {"running", "reporting", "returned"}]
          /\ out \in Seq((DOMAIN Segments) \X Nat) /\ Len(out) <= Count
          /\ outClosed \in BOOLEAN
          /\ errs \subseteq Workers
          /\ cancelled \in BOOLEAN
          /\ pc \in {"pulling", "answered", "draining", "closed"}
          /\ outcome \in {"none", "end", "error"}
          /\ taken \in [DOMAIN Segments -> Nat]
          /\ failed \in BOOLEAN

\* Next reports a clean end only when it has returned every batch of every
\* segment and no worker failed: an error is never dropped on the way out.
EndIsComplete ==
    outcome = "end" => ~failed /\ \A s \in DOMAIN Segments : taken[s] = Segments[s]

\* The scan is a batch source: none is lost, repeated or out of order within
\* the share of a worker, whatever the workers and the consumer interleave.
Source == INSTANCE BatchSource WITH Before <- Earlier, broken <- failed, stopped <- cancelled
ImplementsSource == Source!Spec

\* No goroutine is left behind: the consumer gets its answer, Close returns,
\* and by then every worker has.
CloseReturns == <>(pc = "closed" /\ \A w \in Workers : status[w] = "returned")
=============================================================================
