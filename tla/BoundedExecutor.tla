--------------------------- MODULE BoundedExecutor ---------------------------
(***************************************************************************)
(* common/concurrency/BoundedExecutor.h: a pool of threads with a bounded  *)
(* queue, a byte budget over queued and running tasks, and a limit on the  *)
(* running tasks of each key.  Every operation is one critical section of  *)
(* mu_.  Waiting on cv_ is explicit: a thread that found nothing to do     *)
(* sleeps until a notification, so a missing one is visible.  Threads are  *)
(* interchangeable, so those in each state are only counted.               *)
(***************************************************************************)
EXTENDS Integers, Sequences, FiniteSets

CONSTANTS Workers,      \* options_.workers
          Tasks,        \* every task that may be submitted, each once
          KeyOf,        \* task: key
          BytesOf,      \* task: bytes
          QueueDepth, PerKey, MaxBytes

VARIABLES queue,        \* queue_
          running,      \* tasks that a thread runs
          ready,        \* threads about to look at the queue
          asleep,       \* threads in cv_.wait
          gone,         \* threads that have returned
          bytes,        \* stats_.bytes
          stopping      \* stopping_

threadVars == <<ready, asleep, gone>>
execVars == <<queue, running, threadVars, bytes, stopping>>

ExecInit ==
    /\ queue = <<>> /\ running = {}
    /\ ready = 0 /\ asleep = 0 /\ gone = 0
    /\ bytes = 0
    /\ stopping = FALSE

Queued == {queue[i] : i \in DOMAIN queue}

(* threads_ is not empty. *)
Created == running # {} \/ ready + asleep + gone > 0

(* active_[k]. *)
Active(k) == Cardinality({t \in running : KeyOf[t] = k})

(* Fault: the bytes of the new task are left out of the check. *)
AcceptsOver(t) == ~stopping /\ bytes <= MaxBytes /\ Len(queue) < QueueDepth

Accepts(t) ==
    /\ ~stopping
    /\ BytesOf[t] <= MaxBytes /\ bytes <= MaxBytes - BytesOf[t]
    /\ Len(queue) < QueueDepth

(* Submit; the first task that is accepted creates the threads. *)
Submit(t) ==
    /\ Accepts(t)
    /\ queue' = Append(queue, t)
    /\ bytes' = bytes + BytesOf[t]
    /\ ready' = IF Created THEN ready + asleep ELSE Workers
    /\ asleep' = 0
    /\ UNCHANGED <<running, gone, stopping>>

Reject(t) == ~Accepts(t) /\ UNCHANGED execVars

(* Submit, when not every thread can be created: it throws, and those that  *)
(* were created find the pool stopping.                                     *)
StartFails(t) ==
    /\ Accepts(t) /\ ~Created
    /\ ready' \in 0..(Workers - 1)
    /\ stopping' = TRUE
    /\ UNCHANGED <<queue, running, asleep, gone, bytes>>

(* Eligible: queued tasks whose key is below its limit. *)
Eligible == {i \in DOMAIN queue : Active(KeyOf[queue[i]]) < PerKey}

Without(s, i) == [j \in 1..(Len(s) - 1) |-> IF j < i THEN s[j] ELSE s[j + 1]]

(* Run, one turn of the loop: take the first eligible task... *)
Take ==
    /\ ready > 0
    /\ \E i \in Eligible :
          /\ \A j \in Eligible : i <= j
          /\ queue' = Without(queue, i)
          /\ running' = running \cup {queue[i]}
    /\ ready' = ready - 1
    /\ UNCHANGED <<asleep, gone, bytes, stopping>>

(* ...or return once the pool is stopping and the queue is empty... *)
Return ==
    /\ ready > 0
    /\ stopping /\ queue = <<>>
    /\ ready' = ready - 1 /\ gone' = gone + 1
    /\ UNCHANGED <<queue, running, asleep, bytes, stopping>>

(* ...or wait. *)
Wait ==
    /\ ready > 0
    /\ Eligible = {} /\ ~(stopping /\ queue = <<>>)
    /\ ready' = ready - 1 /\ asleep' = asleep + 1
    /\ UNCHANGED <<queue, running, gone, bytes, stopping>>

(* Fault: a task that ends wakes nobody. *)
FinishSilent(t) ==
    /\ t \in running
    /\ running' = running \ {t}
    /\ bytes' = bytes - BytesOf[t]
    /\ ready' = ready + 1
    /\ UNCHANGED <<queue, asleep, gone, stopping>>

(* The second critical section of Run, after task.run(). *)
Finish(t) ==
    /\ t \in running
    /\ running' = running \ {t}
    /\ bytes' = bytes - BytesOf[t]
    /\ ready' = ready + 1 + asleep /\ asleep' = 0
    /\ UNCHANGED <<queue, gone, stopping>>

(* Stop, up to the joins. *)
Stop ==
    /\ ~stopping
    /\ stopping' = TRUE
    /\ ready' = ready + asleep /\ asleep' = 0
    /\ UNCHANGED <<queue, running, gone, bytes>>

Turn == Take \/ Return \/ Wait

ExecNext ==
    \/ \E t \in Tasks \ (Queued \cup running) : Submit(t) \/ StartFails(t)
    \/ Turn
    \/ \E t \in running : Finish(t)
    \/ Stop

ExecSpec == ExecInit /\ [][ExecNext]_execVars

-----------------------------------------------------------------------------
ExecTypeOK ==
    /\ queue \in Seq(Tasks) /\ running \in SUBSET Tasks
    /\ ready \in Nat /\ asleep \in Nat /\ gone \in Nat
    /\ bytes \in Int /\ stopping \in BOOLEAN

(* No key has more tasks running than its limit, however tasks of several   *)
(* keys are interleaved in the queue.                                       *)
KeyLimitKept == \A t \in Tasks : Active(KeyOf[t]) <= PerKey

(* A thread sleeps only while there is nothing for it to do: every change   *)
(* that lets a queued task run, or ends the pool, wakes the sleepers.       *)
NoLostWakeup ==
    asleep > 0 => /\ \A i \in DOMAIN queue : Active(KeyOf[queue[i]]) >= PerKey
                  /\ ~(stopping /\ queue = <<>>)

(* Stop drains accepted work: a thread returns only when the queue is empty *)
(* for ever, so nothing that was accepted is left behind.                   *)
NothingLeftBehind == gone > 0 => stopping /\ queue = <<>>

(* No thread is lost or counted twice: all of them are there from the first *)
(* accepted task on, unless they could not be created.                      *)
ThreadsKept ==
    LET threads == ready + asleep + gone + Cardinality(running) IN
    /\ threads <= Workers
    /\ Created /\ ~stopping => threads = Workers
=============================================================================
