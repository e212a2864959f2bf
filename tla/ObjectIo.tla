------------------------------ MODULE ObjectIo ------------------------------
(***************************************************************************)
(* One FUSE read or write as parallel object requests: ParallelIoExecutor  *)
(* of the client submits a task for every slice to its pool and joins      *)
(* them; a task calls the storage node, whose handlers put the request in  *)
(* the node's pool and answer it from there.  Both pools are instances of  *)
(* BoundedExecutor.  Calls are lost, time out or are served after their    *)
(* caller has gone on, and the node stops while requests are in its pool.  *)
(* Slices are not empty and within max_request_bytes_.                      *)
(***************************************************************************)
EXTENDS Integers, Sequences, FiniteSets, FiniteSetsExt

CONSTANTS Ops,            \* FUSE calls
          Slices,         \* their object slices
          SlicesOf,       \* call: the sequence of its slices
          LengthOf,       \* slice: bytes
          DiskOf,         \* slice: disk of its object
          Node,           \* the storage node, key of the client's pool
          Threads, ClientDepth, ClientPerKey, ClientBytes,
          Servers, NodeDepth, NodePerKey, NodeBytes

ASSUME ObjectIoAssumption ==
    /\ SlicesOf \in [Ops -> Seq(Slices)] /\ LengthOf \in [Slices -> Nat \ {0}]
    /\ \A o \in Ops : IsInjective(SlicesOf[o])
    /\ {Threads, ClientDepth, ClientPerKey, ClientBytes,
        Servers, NodeDepth, NodePerKey, NodeBytes} \subseteq Nat \ {0}

VARIABLES op,       \* call: where Run is, its next slice, whether it failed
          future,   \* slice: "none" submitted, or the result of its task
          rpc,      \* slice: the object request
          replies,  \* slice: times the node ran done
          cQueue, cRunning, cReady, cAsleep, cGone, cBytes, cStopping,
          nQueue, nRunning, nReady, nAsleep, nGone, nBytes, nStopping

clientPool == <<cQueue, cRunning, cReady, cAsleep, cGone, cBytes, cStopping>>
nodePool == <<nQueue, nRunning, nReady, nAsleep, nGone, nBytes, nStopping>>
vars == <<op, future, rpc, replies, clientPool, nodePool>>

(* A task's budget covers request, response and its own copy. *)
Client == INSTANCE BoundedExecutor WITH
    Workers <- Threads, Tasks <- Slices,
    KeyOf <- [s \in Slices |-> Node], BytesOf <- [s \in Slices |-> 3 * LengthOf[s]],
    QueueDepth <- ClientDepth, PerKey <- ClientPerKey, MaxBytes <- ClientBytes,
    queue <- cQueue, running <- cRunning, ready <- cReady, asleep <- cAsleep,
    gone <- cGone, bytes <- cBytes, stopping <- cStopping

Server == INSTANCE BoundedExecutor WITH
    Workers <- Servers, Tasks <- Slices,
    KeyOf <- DiskOf, BytesOf <- LengthOf,
    QueueDepth <- NodeDepth, PerKey <- NodePerKey, MaxBytes <- NodeBytes,
    queue <- nQueue, running <- nRunning, ready <- nReady, asleep <- nAsleep,
    gone <- nGone, bytes <- nBytes, stopping <- nStopping

Calls == [at : {"submit", "join", "back"}, next : Nat, failed : BOOLEAN]

Init ==
    /\ op = [o \in Ops |-> [at |-> IF SlicesOf[o] = <<>> THEN "join" ELSE "submit",
                           next |-> 1, failed |-> FALSE]]
    /\ future = [s \in Slices |-> "none"]
    /\ rpc = [s \in Slices |-> "none"]
    /\ replies = [s \in Slices |-> 0]
    /\ Client!ExecInit /\ Server!ExecInit

-----------------------------------------------------------------------------
(* ParallelIoExecutor::Run. *)

(* Submit the next slice; one that the pool refuses ends the loop. *)
SubmitSlice(o) ==
    LET s == SlicesOf[o][op[o].next]
        last == op[o].next = Len(SlicesOf[o]) IN
    /\ op[o].at = "submit"
    /\ \/ /\ Client!Submit(s)
          /\ future' = [future EXCEPT ![s] = "pending"]
          /\ op' = [op EXCEPT ![o].next = @ + 1, ![o].at = IF last THEN "join" ELSE @]
       \/ /\ Client!Reject(s) \/ Client!StartFails(s)
          /\ op' = [op EXCEPT ![o].failed = TRUE, ![o].at = "join"]
          /\ UNCHANGED future
    /\ UNCHANGED <<rpc, replies, nodePool>>

FuturesOf(o) == {s \in Range(SlicesOf[o]) : future[s] # "none"}

(* Fault: Run returns at the first error. *)
JoinFirst(o) ==
    /\ op[o].at = "join"
    /\ \/ \A s \in FuturesOf(o) : future[s] # "pending"
       \/ op[o].failed \/ \E s \in FuturesOf(o) : future[s] = "error"
    /\ op' = [op EXCEPT ![o].at = "back",
                        ![o].failed = @ \/ \E s \in FuturesOf(o) : future[s] = "error"]
    /\ UNCHANGED <<future, rpc, replies, clientPool, nodePool>>

(* Fault: a slice that was not submitted is waited for. *)
JoinAll(o) ==
    /\ op[o].at = "join"
    /\ \A i \in DOMAIN SlicesOf[o] : future[SlicesOf[o][i]] \notin {"none", "pending"}
    /\ op' = [op EXCEPT ![o].at = "back",
                        ![o].failed = @ \/ \E s \in FuturesOf(o) : future[s] = "error"]
    /\ UNCHANGED <<future, rpc, replies, clientPool, nodePool>>

(* Fault: the error of a refused slice is overwritten. *)
JoinForgets(o) ==
    /\ op[o].at = "join"
    /\ \A s \in FuturesOf(o) : future[s] # "pending"
    /\ op' = [op EXCEPT ![o].at = "back",
                        ![o].failed = \E s \in FuturesOf(o) : future[s] = "error"]
    /\ UNCHANGED <<future, rpc, replies, clientPool, nodePool>>

(* Get every future, also after an error. *)
Join(o) ==
    /\ op[o].at = "join"
    /\ \A s \in FuturesOf(o) : future[s] # "pending"
    /\ op' = [op EXCEPT ![o].at = "back",
                        ![o].failed = @ \/ \E s \in FuturesOf(o) : future[s] = "error"]
    /\ UNCHANGED <<future, rpc, replies, clientPool, nodePool>>

(* A turn of the client's pool. *)
ClientTurn ==
    /\ \/ Client!Turn
       \/ \E s \in cRunning : future[s] # "pending" /\ Client!Finish(s)
    /\ UNCHANGED <<op, future, rpc, replies, nodePool>>

(* The task of a slice waits for the reply, or its call fails; the request  *)
(* may then reach the node later, or never.                                 *)
TaskReturns(s) ==
    /\ s \in cRunning /\ future[s] = "pending"
    /\ \/ /\ rpc[s] = "ok"
          /\ future' = [future EXCEPT ![s] = "ok"]
          /\ UNCHANGED rpc
       \/ /\ future' = [future EXCEPT ![s] = "error"]
          /\ rpc' = [rpc EXCEPT ![s] = IF @ = "none" THEN "late" ELSE @]
    /\ UNCHANGED <<op, replies, clientPool, nodePool>>

(* ~ParallelIoExecutor, with no call in progress. *)
ClientStop ==
    /\ \A o \in Ops : op[o].at = "back"
    /\ Client!Stop
    /\ UNCHANGED <<op, future, rpc, replies, nodePool>>

-----------------------------------------------------------------------------
(* The storage node: BrpcStorageService. *)

Answered(s, status) ==
    /\ rpc' = [rpc EXCEPT ![s] = status]
    /\ replies' = [replies EXCEPT ![s] = @ + 1]

(* Fault: the handler's guard is not released when the pool has taken over. *)
HandleGuarded(s) ==
    /\ \/ rpc[s] = "none" /\ s \in cRunning
       \/ rpc[s] = "late"
    /\ \/ /\ Server!Submit(s)
          /\ rpc' = [rpc EXCEPT ![s] = "held"]
          /\ replies' = [replies EXCEPT ![s] = @ + 1]
       \/ /\ (Server!Reject(s) \/ Server!StartFails(s))
          /\ Answered(s, "error")
    /\ UNCHANGED <<op, future, clientPool>>

(* ReadObject, WriteObject: the handler refuses, or hands done to a task. *)
Handle(s) ==
    /\ \/ rpc[s] = "none" /\ s \in cRunning
       \/ rpc[s] = "late"
    /\ \/ /\ Server!Submit(s)
          /\ rpc' = [rpc EXCEPT ![s] = "held"] /\ UNCHANGED replies
       \/ /\ (Server!Reject(s) \/ Server!StartFails(s))
          /\ Answered(s, "error")
    /\ UNCHANGED <<op, future, clientPool>>

(* Fault: a request whose caller has gone on is dropped. *)
PerformAwaited(s) ==
    /\ s \in nRunning /\ rpc[s] = "held" /\ future[s] = "pending"
    /\ \E status \in {"ok", "error"} : Answered(s, status)
    /\ UNCHANGED <<op, future, clientPool, nodePool>>

(* The task does the I/O and runs done... *)
Perform(s) ==
    /\ s \in nRunning /\ rpc[s] = "held"
    /\ \E status \in {"ok", "error"} : Answered(s, status)
    /\ UNCHANGED <<op, future, clientPool, nodePool>>

(* ...and gives its place back afterwards. *)
NodeTurn ==
    /\ \/ Server!Turn
       \/ \E s \in nRunning : rpc[s] # "held" /\ Server!Finish(s)
    /\ UNCHANGED <<op, future, rpc, replies, clientPool>>

(* Fault: stopping discards the queue. *)
NodeStopHard ==
    /\ ~nStopping /\ nStopping' = TRUE
    /\ nQueue' = <<>>
    /\ nBytes' = MapThenSumSet(LAMBDA s : LengthOf[s], nRunning)
    /\ nReady' = nReady + nAsleep /\ nAsleep' = 0
    /\ UNCHANGED <<nRunning, nGone, op, future, rpc, replies, clientPool>>

(* ~BrpcStorageService. *)
NodeStop == Server!Stop /\ UNCHANGED <<op, future, rpc, replies, clientPool>>

-----------------------------------------------------------------------------
Progress ==
    \/ \E o \in Ops : SubmitSlice(o) \/ Join(o)
    \/ ClientTurn \/ NodeTurn
    \/ \E s \in Slices : TaskReturns(s) \/ Perform(s)

Next == Progress \/ (\E s \in Slices : Handle(s)) \/ ClientStop \/ NodeStop

Spec == Init /\ [][Next]_vars

(* Threads are scheduled, and a call ends with a reply or a timeout; no    *)
(* request need ever reach the node.                                       *)
FairSpec == Spec /\ WF_vars(Progress)

-----------------------------------------------------------------------------
TypeOK ==
    /\ op \in [Ops -> Calls]
    /\ future \in [Slices -> {"none", "pending", "ok", "error"}]
    /\ rpc \in [Slices -> {"none", "late", "held", "ok", "error"}]
    /\ replies \in [Slices -> Nat]
    /\ Client!ExecTypeOK /\ Server!ExecTypeOK

(* The two pools keep what BoundedExecutor promises: key limits, no thread  *)
(* asleep beside work it could do, nothing accepted left behind by Stop.    *)
PoolsKept ==
    /\ TypeOK
    /\ Client!KeyLimitKept /\ Client!NoLostWakeup /\ Client!NothingLeftBehind /\ Client!ThreadsKept
    /\ Server!KeyLimitKept /\ Server!NoLostWakeup /\ Server!NothingLeftBehind /\ Server!ThreadsKept

(* The budgets count every queued and every running task, no other, and are *)
(* never exceeded.                                                          *)
BudgetKept ==
    /\ cBytes = 3 * MapThenSumSet(LAMBDA s : LengthOf[s], Client!Queued \cup cRunning)
    /\ nBytes = MapThenSumSet(LAMBDA s : LengthOf[s], Server!Queued \cup nRunning)
    /\ cBytes <= ClientBytes /\ nBytes <= NodeBytes

(* A call that has returned has no task left that could touch its buffers:  *)
(* the tasks refer to variables of Run's callers.                           *)
NothingAfterReturn ==
    \A o \in Ops : op[o].at = "back" => \A s \in FuturesOf(o) : future[s] # "pending"

(* A call succeeds only if the node has served every one of its slices.     *)
SuccessIsWhole ==
    \A o \in Ops : op[o].at = "back" /\ ~op[o].failed =>
        \A i \in DOMAIN SlicesOf[o] : LET s == SlicesOf[o][i] IN
            future[s] = "ok" /\ rpc[s] = "ok"

(* The node runs done at most once for a request, and has not run it while  *)
(* the request is in its pool, whichever of the handler and the task does.  *)
AnsweredOnce == \A s \in Slices : replies[s] = IF rpc[s] \in {"ok", "error"} THEN 1 ELSE 0

(* Every call returns, whatever is refused, lost or late. *)
CallsReturn == <>(\A o \in Ops : op[o].at = "back")

(* The node answers every request that its pool has accepted, also when it  *)
(* stops: no request stays held for ever.                                   *)
HeldAnswered == []<>(\A s \in Slices : rpc[s] # "held")

(* Each pool, driven by its callers, behaves as a BoundedExecutor. *)
PoolsAreExecutors == Client!ExecSpec /\ Server!ExecSpec
=============================================================================
