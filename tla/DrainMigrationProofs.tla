------------------------ MODULE DrainMigrationProofs ------------------------
(***************************************************************************)
(* Proofs about DrainMigration for any nodes, files and objects, any number *)
(* of writes, retries and restarts, and any number of late requests: type   *)
(* correctness, that a confirmed gate freezes its node, and that the drain  *)
(* of a single node loses no object.                                        *)
(***************************************************************************)
EXTENDS DrainMigration, TLAPS

(* A write past its first step has a file and a node.  A write inside the  *)
(* shared section keeps the gate from becoming durable.                    *)
WriterShape ==
    /\ writer.at # "idle" => writer.file \in Files /\ writer.node \in Nodes
    /\ writer.at = "resolved" => last < 1 + MaxWrites
    /\ writer.flight # NoObject =>
          writer.at = "write" /\ gate[writer.node] # "durable"

(* The number of commits so far bounds every version: the write in hand    *)
(* has not committed yet.                                                  *)
Top == IF writer.at = "write" THEN last - 1 ELSE last
VersionsBounded ==
    /\ \A n \in Nodes, f \in Files : meta[n][f] <= Top
    /\ \A m \in late : m.op = "install" => m.val <= Top

(* The thread works on an active task that has a file, and a target where  *)
(* the step needs one.                                                     *)
ThreadShape ==
    /\ thread.step # "idle" =>
          thread.node \in Nodes /\ task[thread.node].state = "active"
    /\ thread.step \notin {"idle", "fence", "list"} => task[thread.node].cur \in Files
    /\ thread.step \in {"copy", "install", "commit"} => task[thread.node].target \in Nodes

RetriesLeft == \A n \in Nodes : task[n].state = "active" => task[n].retries < MaxRetries

IInv == TypeOK /\ WriterShape /\ VersionsBounded /\ ThreadShape /\ RetriesLeft

-----------------------------------------------------------------------------
(* Tasks, thread and writer start with their types. *)
LEMMA Fresh ==
    /\ NewTask \in Tasks /\ NewTask.state = "active" /\ NewTask.retries = 0
    /\ NoTask \in Tasks /\ NoTask.state = "none"
    /\ ThreadIdle \in Threads /\ ThreadIdle.step = "idle"
    /\ WriterIdle \in Writers /\ WriterIdle.at = "idle" /\ WriterIdle.flight = NoObject
<1> USE DrainAssumption
<1>1. NewTask \in Tasks /\ NewTask.state = "active" /\ NewTask.retries = 0
    BY DEF NewTask, Tasks
<1>2. NoTask \in Tasks /\ NoTask.state = "none"
    BY <1>1 DEF NoTask, Tasks
<1>3. ThreadIdle \in Threads /\ ThreadIdle.step = "idle"
    BY DEF ThreadIdle, Threads, Steps, Versions
<1>4. WriterIdle \in Writers /\ WriterIdle.at = "idle" /\ WriterIdle.flight = NoObject
    BY DEF WriterIdle, Writers, Versions
<1> QED
    BY <1>1, <1>2, <1>3, <1>4

(* A request has the fields its kind has. *)
LEMMA MessageFields ==
    ASSUME NEW m \in Messages
    PROVE  /\ m.op \in {"write", "install", "commit", "delete", "cleanup"}
           /\ m.node \in Nodes /\ m.file \in Files
           /\ m.op \in {"write", "delete"} => m.obj \in Objects
           /\ m.op = "write" => m.val \in Contents
           /\ m.op \in {"install", "commit"} => m.val \in Versions
<1>1. CASE m \in [op : {"write"}, node : Nodes, file : Files, obj : Objects, val : Contents]
    BY <1>1
<1>2. CASE m \in [op : {"install"}, node : Nodes, file : Files, val : Versions]
    BY <1>2
<1>3. CASE m \in [op : {"commit"}, node : Nodes, file : Files, val : Versions, source : Nodes]
    BY <1>3
<1>4. CASE m \in [op : {"delete"}, node : Nodes, file : Files, obj : Objects]
    BY <1>4
<1>5. CASE m \in [op : {"cleanup"}, node : Nodes, file : Files]
    BY <1>5
<1> QED
    BY <1>1, <1>2, <1>3, <1>4, <1>5, Zenon DEF Messages

(* A request changes one entry of one table, and leaves the others alone.  *)
LEMMA ApplyEffect ==
    ASSUME TypeOK, NEW m \in Messages, Apply(m)
    PROVE  /\ object' \in [Nodes -> [Objects -> Contents]]
           /\ meta' \in [Nodes -> [Files -> Versions]]
           /\ loc' \in [Files -> Nodes]
           /\ UNCHANGED <<gate, ver, admitted>>
           /\ \A n \in Nodes, o \in Objects : object'[n][o] # object[n][o] =>
                 \/ m.op = "write" /\ n = m.node
                 \/ object'[n][o] = 0
           /\ \A n \in Nodes, f \in Files : meta'[n][f] # meta[n][f] =>
                 \/ m.op = "install" /\ n = m.node /\ meta'[n][f] = m.val
                 \/ meta'[n][f] = 0
<1> USE MessageFields DEF Apply
<1>1. 0 \in Contents /\ 0 \in Versions
    BY DrainAssumption DEF Contents, Versions
<1>2. CASE m.op = "write"
    BY <1>2 DEF TypeOK
<1>3. CASE m.op = "install"
    BY <1>3 DEF TypeOK
<1>4. CASE m.op = "commit"
    BY <1>4 DEF TypeOK
<1>5. CASE m.op = "delete"
    BY <1>1, <1>5 DEF TypeOK
<1>6. CASE m.op = "cleanup"
    BY <1>1, <1>6 DEF TypeOK
<1> QED
    BY <1>2, <1>3, <1>4, <1>5, <1>6, Zenon

(* A node whose gate is durable loses entries at most. *)
Frozen ==
    \A n \in Nodes : gate[n] = "durable" =>
       /\ \A o \in Objects : object'[n][o] \in {0, object[n][o]}
       /\ \A f \in Files : meta'[n][f] \in {0, meta[n][f]}
       /\ gate'[n] = "durable"

(* What a step that sends or executes requests may do to the tables. *)
DataKept ==
    /\ object' \in [Nodes -> [Objects -> Contents]]
    /\ meta' \in [Nodes -> [Files -> Versions]]
    /\ loc' \in [Files -> Nodes]
    /\ UNCHANGED <<gate, ver, admitted>>
    /\ late' \subseteq Messages
    /\ \A n \in Nodes, f \in Files : meta'[n][f] <= Top
    /\ \A m \in late' : m.op = "install" => m.val <= Top
    /\ Frozen

(* A request is executed only where the gate allows it. *)
LEMMA ExecuteKeeps ==
    ASSUME TypeOK, VersionsBounded, NEW m \in Messages, Accepted(m), Apply(m),
           m.op = "install" => m.val <= Top, late' \subseteq late
    PROVE  DataKept
<1>1. m.op \in {"write", "install"} => gate[m.node] # "durable"
    BY MessageFields, Zenon DEF Accepted, WriteAccepted, InstallAccepted
<1>2. 0 <= Top
    BY DrainAssumption DEF Top, TypeOK
<1>3. \A n \in Nodes, f \in Files : meta'[n][f] <= Top
    BY <1>2, ApplyEffect, Zenon DEF VersionsBounded
<1>4. Frozen
    BY <1>1, ApplyEffect DEF Frozen
<1> QED
    BY <1>3, <1>4, ApplyEffect DEF DataKept, TypeOK, VersionsBounded

(* No request, no change. *)
LEMMA QuietKeeps ==
    ASSUME TypeOK, VersionsBounded, UNCHANGED <<nodeVars, mdsVars, late>>
    PROVE  DataKept
BY DEF DataKept, Frozen, TypeOK, VersionsBounded, nodeVars, mdsVars

(* A call, answered or not. *)
LEMMA CallKeeps ==
    ASSUME TypeOK, VersionsBounded, NEW m \in Messages,
           m.op = "install" => m.val <= Top, Confirmed(m) \/ Unconfirmed(m)
    PROVE  DataKept
<1>1. CASE Confirmed(m)
    BY <1>1, ExecuteKeeps DEF Confirmed
<1>2. CASE UNCHANGED <<nodeVars, mdsVars, late>>
    BY <1>2, QuietKeeps
<1>3. CASE late' = late \cup {m} /\ UNCHANGED <<nodeVars, mdsVars>>
    BY <1>3 DEF DataKept, Frozen, TypeOK, VersionsBounded, nodeVars, mdsVars
<1> QED
    BY <1>1, <1>2, <1>3 DEF Unconfirmed

-----------------------------------------------------------------------------
(* The scheduler's part of the invariant. *)
SchedOK ==
    /\ life \in [Nodes -> {"WORKING", "DRAINING"}]
    /\ task \in [Nodes -> Tasks]
    /\ thread \in Threads
    /\ restarts \in 0..MaxRestarts
    /\ ThreadShape /\ RetriesLeft

(* The coordinator's steps keep the invariant. *)
LEMMA SchedStep ==
    ASSUME IInv, DataKept, SchedOK', UNCHANGED clientVars
    PROVE  IInv'
<1>1. Top' = Top
    BY DEF Top, clientVars
<1>2. TypeOK'
    BY DEF IInv, TypeOK, DataKept, SchedOK, clientVars
<1>3. WriterShape'
    BY DEF IInv, WriterShape, DataKept, clientVars
<1>4. VersionsBounded'
    BY <1>1 DEF VersionsBounded, DataKept
<1> QED
    BY <1>2, <1>3, <1>4 DEF IInv, SchedOK

(* A failed call leaves the thread idle and its task blocked or with       *)
(* retries left.                                                           *)
LEMMA RetryKeeps ==
    ASSUME SchedOK, NEW n \in Nodes, thread.node = n, thread.step # "idle",
           Retry(n), UNCHANGED <<life, restarts>>
    PROVE  SchedOK'
<1> DEFINE r == task[n].retries + 1
           s == IF r >= MaxRetries THEN "blocked" ELSE task[n].state
<1>1. task[n] \in Tasks /\ task[n].state = "active" /\ task[n].retries < MaxRetries
    BY DEF SchedOK, ThreadShape, RetriesLeft
<1>2. r \in 0..MaxRetries /\ s \in {"active", "blocked"} /\ (s = "active" => r < MaxRetries)
    BY <1>1, DrainAssumption DEF Tasks
<1>3. task' = [task EXCEPT ![n].retries = r, ![n].state = s] /\ thread' = ThreadIdle
    BY DEF Retry
<1> HIDE DEF r, s
<1>4. /\ task' \in [Nodes -> Tasks]
      /\ task'[n].state = s /\ task'[n].retries = r
      /\ \A k \in Nodes : k # n => task'[k] = task[k]
    BY <1>1, <1>2, <1>3, Zenon DEF SchedOK, Tasks
<1> QED
    BY <1>2, <1>3, <1>4, Fresh DEF SchedOK, ThreadShape, RetriesLeft

(* The thread goes on to a step its task is fit for. *)
LEMMA GotoKeeps ==
    ASSUME SchedOK, NEW n \in Nodes, thread.node = n, thread.step # "idle",
           NEW t \in Tasks, t.state = "active", t.retries < MaxRetries,
           NEW step \in Steps \ {"idle"},
           step \notin {"fence", "list"} => t.cur \in Files,
           step \in {"copy", "install", "commit"} => t.target \in Nodes,
           task' = [task EXCEPT ![n] = t],
           thread' \in Threads, thread'.step = step, thread'.node = n,
           UNCHANGED <<life, restarts>>
    PROVE  SchedOK'
BY DEF SchedOK, ThreadShape, RetriesLeft

(* The same where the task does not change. *)
LEMMA GoesOn ==
    ASSUME SchedOK, NEW n \in Nodes, thread.node = n, thread.step # "idle",
           NEW step \in Steps \ {"idle"},
           step \notin {"fence", "list"} => task[n].cur \in Files,
           step \in {"copy", "install", "commit"} => task[n].target \in Nodes,
           thread' \in Threads, thread'.step = step, thread'.node = n,
           UNCHANGED <<task, life, restarts>>
    PROVE  SchedOK'
BY DEF SchedOK, ThreadShape, RetriesLeft

(* The requests of a step are well formed. *)
LEMMA RequestTypes ==
    ASSUME IInv, NEW n \in Nodes, thread.node = n
    PROVE  /\ thread.step = "copy" =>
                 \A o \in Objects : WriteMsg(n, o) \in Messages /\ WriteMsg(n, o).op = "write"
           /\ thread.step = "install" =>
                 /\ InstallMsg(n) \in Messages
                 /\ InstallMsg(n).op = "install" /\ InstallMsg(n).val <= Top
           /\ thread.step = "commit" => CommitMsg(n) \in Messages /\ CommitMsg(n).op = "commit"
           /\ \A o \in Objects : DeleteMsg(n, o) \in Messages /\ DeleteMsg(n, o).op = "delete"
           /\ thread.step = "cleanup" => CleanupMsg(n) \in Messages /\ CleanupMsg(n).op = "cleanup"
<1> USE DrainAssumption DEF IInv, TypeOK, ThreadShape, Messages
<1>1. thread.step = "copy" =>
         \A o \in Objects : WriteMsg(n, o) \in Messages /\ WriteMsg(n, o).op = "write"
    BY DEF WriteMsg
<1>2. thread.step = "install" =>
         /\ InstallMsg(n) \in Messages
         /\ InstallMsg(n).op = "install" /\ InstallMsg(n).val <= Top
    BY DEF InstallMsg, VersionsBounded
<1>3. thread.step = "commit" => CommitMsg(n) \in Messages /\ CommitMsg(n).op = "commit"
    BY DEF CommitMsg, Threads
<1>4. \A o \in Objects : DeleteMsg(n, o) \in Messages /\ DeleteMsg(n, o).op = "delete"
    BY DEF DeleteMsg
<1>5. thread.step = "cleanup" => CleanupMsg(n) \in Messages /\ CleanupMsg(n).op = "cleanup"
    BY DEF CleanupMsg
<1> QED
    BY <1>1, <1>2, <1>3, <1>4, <1>5

(* What the thread's steps do to the tables. *)
LEMMA MigrateData ==
    ASSUME IInv, NEW n \in Nodes, Migrate(n)
    PROVE  DataKept /\ UNCHANGED clientVars
<1> USE DEF IInv, At
<1>1. CASE TickTask(n) \/ Fence(n) \/ List(n) \/ Owns(n) \/ Select(n)
    <2>1. UNCHANGED <<nodeVars, mdsVars, late, clientVars>>
        BY <1>1 DEF TickTask, Fence, List, Owns, Select
    <2> QED
        BY <2>1, QuietKeeps
<1>2. CASE Copy(n)
    <2>1. ASSUME NEW o \in Pending(n), Confirmed(WriteMsg(n, o)) \/ Unconfirmed(WriteMsg(n, o))
          PROVE  DataKept
        <3>1. o \in Objects
            BY DEF Pending, TypeOK, Tasks
        <3>2. WriteMsg(n, o) \in Messages /\ WriteMsg(n, o).op = "write"
            BY <1>2, <3>1, RequestTypes DEF Copy
        <3> QED
            BY <2>1, <3>2, CallKeeps
    <2> QED
        BY <1>2, <2>1, QuietKeeps DEF Copy
<1>3. CASE Install(n)
    BY <1>3, RequestTypes, CallKeeps, QuietKeeps DEF Install
<1>4. CASE Commit(n)
    BY <1>4, RequestTypes, CallKeeps DEF Commit
<1>5. CASE Delete(n)
    <2>1. ASSUME NEW o \in Pending(n), Confirmed(DeleteMsg(n, o)) \/ Unconfirmed(DeleteMsg(n, o))
          PROVE  DataKept
        <3>1. o \in Objects
            BY DEF Pending, TypeOK, Tasks
        <3>2. DeleteMsg(n, o) \in Messages /\ DeleteMsg(n, o).op = "delete"
            BY <1>5, <3>1, RequestTypes DEF Delete
        <3> QED
            BY <2>1, <3>2, CallKeeps
    <2> QED
        BY <1>5, <2>1, QuietKeeps DEF Delete
<1>6. CASE Cleanup(n)
    BY <1>6, RequestTypes, CallKeeps DEF Cleanup
<1> QED
    BY <1>1, <1>2, <1>3, <1>4, <1>5, <1>6 DEF Migrate

(* What they do to the tasks. *)
LEMMA MigrateSched ==
    ASSUME IInv, NEW n \in Nodes, Migrate(n)
    PROVE  SchedOK'
<1>1. SchedOK
    BY DEF IInv, TypeOK, SchedOK
<1>2. UNCHANGED <<life, restarts>>
    BY DEF Migrate, TickTask, Fence, List, Owns, Select, Copy, Install, Commit, Delete, Cleanup
<1>3. task[n] \in Tasks /\ thread \in Threads
    BY <1>1 DEF SchedOK
<1>4. ASSUME thread.step # "idle", At(n, thread.step), Retry(n)
      PROVE  SchedOK'
    BY <1>1, <1>2, <1>4, RetryKeeps DEF At
<1>5. ASSUME NEW step \in Steps \ {"idle"}, thread.step # "idle", thread.node = n,
             thread' = [thread EXCEPT !.step = step]
      PROVE  thread' \in Threads /\ thread'.step = step /\ thread'.node = n
    BY <1>3, <1>5 DEF Threads
<1>6. thread.step # "idle" /\ thread.node = n =>
         task[n].state = "active" /\ task[n].retries < MaxRetries
    BY <1>1 DEF SchedOK, ThreadShape, RetriesLeft
<1>7. CASE TickTask(n)
    <2> DEFINE s == IF task[n].committed THEN "delete" ELSE "owns"
    <2>1. s \in {"delete", "owns"}
        OBVIOUS
    <2>2. task[n].state = "active" /\ task[n].retries < MaxRetries
        BY <1>1, <1>7 DEF TickTask, SchedOK, RetriesLeft
    <2>3. ASSUME NEW step \in Steps, thread' = [ThreadIdle EXCEPT !.node = n, !.step = step]
          PROVE  thread' \in Threads /\ thread'.step = step /\ thread'.node = n
        BY <2>3, Fresh, Zenon DEF Threads
    <2>4. CASE task[n].enumerated = FALSE
        <3>1. thread' = [ThreadIdle EXCEPT !.node = n, !.step = "fence"] /\ UNCHANGED task
            BY <1>7, <2>4 DEF TickTask
        <3>2. thread' \in Threads /\ thread'.step = "fence" /\ thread'.node = n
            BY <2>3, <3>1 DEF Steps
        <3> QED
            BY <1>1, <1>2, <2>2, <3>1, <3>2 DEF SchedOK, ThreadShape, RetriesLeft
    <2>5. CASE task[n].cur # NoFile /\ UNCHANGED task
               /\ thread' = [ThreadIdle EXCEPT !.node = n, !.step = s]
        <3> HIDE DEF s
        <3>1. thread' \in Threads /\ thread'.step = s /\ thread'.node = n
            BY <2>1, <2>3, <2>5, Zenon DEF Steps
        <3>2. task[n].cur \in Files
            BY <1>3, <2>5 DEF Tasks
        <3> QED
            BY <1>1, <1>2, <2>1, <2>2, <2>5, <3>1, <3>2 DEF SchedOK, ThreadShape, RetriesLeft
    <2>6. ASSUME NEW o \in task[n].listed, task' = [task EXCEPT ![n].cur = FileOf[o]],
                 thread' = [ThreadIdle EXCEPT !.node = n, !.step = "owns"]
          PROVE  SchedOK'
        <3>1. thread' \in Threads /\ thread'.step = "owns" /\ thread'.node = n
            BY <2>3, <2>6 DEF Steps
        <3>2. FileOf[o] \in Files
            BY <1>3, DrainAssumption DEF Tasks
        <3>3. /\ task' \in [Nodes -> Tasks]
              /\ task'[n].cur \in Files /\ task'[n].state = "active"
              /\ task'[n].retries < MaxRetries
              /\ \A k \in Nodes : k # n => task'[k] = task[k]
            BY <1>1, <1>3, <2>2, <2>6, <3>2 DEF SchedOK, Tasks
        <3> QED
            BY <1>1, <1>2, <3>1, <3>3 DEF SchedOK, ThreadShape, RetriesLeft
    <2> QED
        BY <1>3, <1>7, <2>4, <2>5, <2>6, Zenon DEF TickTask, Tasks
<1>8. CASE Fence(n)
    BY <1>1, <1>2, <1>4, <1>5, <1>8, GoesOn DEF Fence, At, Goto, Steps
<1>9. CASE List(n)
    <2> DEFINE s == IF Listed(n) = {} THEN "drained" ELSE task[n].state
    <2>1. CASE thread' = ThreadIdle
               /\ task' = [task EXCEPT ![n].enumerated = TRUE, ![n].listed = Listed(n),
                                       ![n].state = s]
        <3>1. s \in {"drained", "active"} /\ Listed(n) \subseteq Objects
            BY <1>6, <1>9, Zenon DEF List, At, Listed
        <3> HIDE DEF s
        <3>2. /\ task' \in [Nodes -> Tasks] /\ task'[n].retries = task[n].retries
              /\ \A k \in Nodes : k # n => task'[k] = task[k]
            BY <1>1, <1>3, <2>1, <3>1, Zenon DEF SchedOK, Tasks
        <3> QED
            BY <1>1, <1>2, <1>6, <1>9, <2>1, <3>2, Fresh
            DEF SchedOK, ThreadShape, RetriesLeft, List, At
    <2> QED
        BY <1>4, <1>9, <2>1, Zenon DEF List, At
<1>10. CASE Owns(n)
    <2>1. task[n].cur \in Files /\ thread.node = n /\ thread.step = "owns"
        BY <1>1, <1>10 DEF Owns, At, SchedOK, ThreadShape
    <2>2. CASE Goto(IF task[n].target = NoNode THEN "select" ELSE "copy") /\ UNCHANGED task
        <3>1. CASE task[n].target = NoNode
            BY <1>1, <1>2, <1>5, <2>1, <2>2, <3>1, GoesOn DEF Goto, Steps
        <3>2. CASE task[n].target # NoNode
            <4>1. task[n].target \in Nodes
                BY <1>3, <3>2 DEF Tasks
            <4> QED
                BY <1>1, <1>2, <1>5, <2>1, <2>2, <3>2, <4>1, GoesOn DEF Goto, Steps
        <3> QED
            BY <3>1, <3>2
    <2>3. CASE task' = [task EXCEPT ![n].committed = TRUE] /\ Goto("delete")
        <3>1. thread' \in Threads /\ thread'.step = "delete" /\ thread'.node = n
            BY <1>5, <2>1, <2>3 DEF Goto, Steps
        <3>2. /\ task' \in [Nodes -> Tasks]
              /\ task'[n].cur \in Files /\ task'[n].state = "active"
              /\ task'[n].retries < MaxRetries
              /\ \A k \in Nodes : k # n => task'[k] = task[k]
            BY <1>1, <1>3, <1>6, <2>1, <2>3, Zenon DEF SchedOK, Tasks
        <3> QED
            BY <1>1, <1>2, <3>1, <3>2 DEF SchedOK, ThreadShape, RetriesLeft
    <2> QED
        BY <1>4, <1>10, <2>1, <2>2, <2>3 DEF Owns, At
<1>11. CASE Select(n)
    <2>1. task[n].cur \in Files /\ thread.node = n /\ thread.step = "select"
        BY <1>1, <1>11 DEF Select, At, SchedOK, ThreadShape
    <2>2. ASSUME NEW t \in Nodes, task' = [task EXCEPT ![n].target = t], Goto("copy")
          PROVE  SchedOK'
        BY <1>1, <1>2, <1>3, <1>5, <1>6, <2>1, <2>2, Zenon
        DEF Goto, Steps, SchedOK, Tasks, ThreadShape, RetriesLeft
    <2> QED
        BY <1>4, <1>11, <2>1, <2>2 DEF Select, At
<1>12. CASE Copy(n)
    <2>1. /\ task[n].cur \in Files /\ task[n].target \in Nodes
          /\ thread.node = n /\ thread.step = "copy"
        BY <1>1, <1>12 DEF Copy, At, SchedOK, ThreadShape
    <2>2. CASE Goto("install") /\ UNCHANGED task
        BY <1>1, <1>2, <1>5, <2>1, <2>2, GoesOn DEF Goto, Steps
    <2>3. ASSUME NEW o \in Pending(n), thread' = [thread EXCEPT !.todo = @ \cup {o}],
                 UNCHANGED task
          PROVE  SchedOK'
        <3>1. thread' \in Threads /\ thread'.step = "copy" /\ thread'.node = n
            BY <1>3, <2>1, <2>3 DEF Threads, Pending, Tasks
        <3> QED
            BY <1>1, <1>2, <2>1, <2>3, <3>1, GoesOn DEF Steps
    <2> QED
        BY <1>4, <1>12, <2>1, <2>2, <2>3 DEF Copy, At
<1>13. CASE Install(n)
    <2>1. /\ task[n].cur \in Files /\ task[n].target \in Nodes
          /\ thread.node = n /\ thread.step = "install"
        BY <1>1, <1>13 DEF Install, At, SchedOK, ThreadShape
    <2>2. CASE thread' = [thread EXCEPT !.step = "commit", !.ver = meta[n][task[n].cur]]
               /\ UNCHANGED task
        <3>1. meta[n][task[n].cur] \in Versions
            BY <2>1 DEF IInv, TypeOK
        <3>2. thread' \in Threads /\ thread'.step = "commit" /\ thread'.node = n
            BY <1>3, <2>1, <2>2, <3>1, Zenon DEF Threads, Steps
        <3> QED
            BY <1>1, <1>2, <2>1, <2>2, <3>2, GoesOn DEF Steps
    <2> QED
        BY <1>4, <1>13, <2>1, <2>2 DEF Install, At
<1>14. CASE Commit(n)
    <2>1. task[n].cur \in Files /\ thread.node = n /\ thread.step = "commit"
        BY <1>1, <1>14 DEF Commit, At, SchedOK, ThreadShape
    <2>2. CASE task' = [task EXCEPT ![n].committed = TRUE] /\ Goto("delete")
        <3>1. thread' \in Threads /\ thread'.step = "delete" /\ thread'.node = n
            BY <1>5, <2>1, <2>2 DEF Goto, Steps
        <3>2. /\ task' \in [Nodes -> Tasks]
              /\ task'[n].cur \in Files /\ task'[n].state = "active"
              /\ task'[n].retries < MaxRetries
              /\ \A k \in Nodes : k # n => task'[k] = task[k]
            BY <1>1, <1>3, <1>6, <2>1, <2>2, Zenon DEF SchedOK, Tasks
        <3> QED
            BY <1>1, <1>2, <3>1, <3>2 DEF SchedOK, ThreadShape, RetriesLeft
    <2> QED
        BY <1>4, <1>14, <2>1, <2>2 DEF Commit, At
<1>15. CASE Delete(n)
    <2>1. task[n].cur \in Files /\ thread.node = n /\ thread.step = "delete"
        BY <1>1, <1>15 DEF Delete, At, SchedOK, ThreadShape
    <2>2. CASE Goto("cleanup") /\ UNCHANGED task
        BY <1>1, <1>2, <1>5, <2>1, <2>2, GoesOn DEF Goto, Steps
    <2>3. ASSUME NEW o \in Pending(n), task' = [task EXCEPT ![n].listed = @ \ {o}],
                 UNCHANGED thread
          PROVE  SchedOK'
        BY <1>1, <1>2, <1>3, <1>6, <2>1, <2>3 DEF SchedOK, Tasks, ThreadShape, RetriesLeft
    <2> QED
        BY <1>4, <1>15, <2>1, <2>2, <2>3 DEF Delete, At
<1>16. CASE Cleanup(n)
    <2> DEFINE s == IF task[n].listed = {} THEN "drained" ELSE task[n].state
    <2>1. thread.node = n /\ thread.step = "cleanup"
        BY <1>16 DEF Cleanup, At
    <2>2. CASE thread' = ThreadIdle
               /\ task' = [task EXCEPT ![n].cur = NoFile, ![n].target = NoNode,
                                       ![n].committed = FALSE, ![n].state = s]
        <3>1. s \in {"drained", "active"}
            BY <1>6, <2>1
        <3> HIDE DEF s
        <3>2. /\ task' \in [Nodes -> Tasks] /\ task'[n].retries = task[n].retries
              /\ \A k \in Nodes : k # n => task'[k] = task[k]
            BY <1>1, <1>3, <2>2, <3>1, Zenon DEF SchedOK, Tasks
        <3> QED
            BY <1>1, <1>2, <1>6, <2>1, <2>2, <3>2, Fresh DEF SchedOK, ThreadShape, RetriesLeft
    <2> QED
        BY <1>4, <1>16, <2>1, <2>2 DEF Cleanup, At
<1> QED
    BY <1>7, <1>8, <1>9, <1>10, <1>11, <1>12, <1>13, <1>14, <1>15, <1>16 DEF Migrate

-----------------------------------------------------------------------------
(* The initial state satisfies the invariant. *)
LEMMA InitIInv == Init => IInv
<1> SUFFICES ASSUME Init PROVE IInv
    OBVIOUS
<1> USE DrainAssumption DEF Init
<1>1. 0 \in Contents /\ 1 \in Contents /\ 0 \in Versions /\ 1 \in Versions
    BY DEF Contents, Versions
<1>2. object \in [Nodes -> [Objects -> Contents]] /\ meta \in [Nodes -> [Files -> Versions]]
    BY <1>1
<1>3. 1 \in 1..(1 + MaxWrites) /\ restarts \in 0..MaxRestarts
    OBVIOUS
<1>4. TypeOK
    BY <1>1, <1>2, <1>3, Fresh DEF TypeOK
<1>5. WriterShape /\ Top = 1
    BY Fresh DEF WriterShape, Top
<1>6. VersionsBounded
    BY <1>5 DEF VersionsBounded
<1>7. ThreadShape /\ RetriesLeft
    BY Fresh DEF ThreadShape, RetriesLeft
<1> QED
    BY <1>4, <1>5, <1>6, <1>7 DEF IInv

(* A client's step keeps its own part and raises no version past the bound. *)
LEMMA WriteStep ==
    ASSUME IInv, Write
    PROVE  IInv' /\ Frozen
<1> USE DEF IInv
<1>1. UNCHANGED <<gate, loc, admitted, schedVars, late>>
    BY Zenon DEF Write, WriteResolve, WriteAllocate, WriteAdmit, WriteStore, WriteCommit,
           WriteStat, WriteFail, nodeVars, mdsVars
<1>2. ThreadShape' /\ RetriesLeft'
    BY <1>1 DEF ThreadShape, RetriesLeft, schedVars
<1>3. last \in Nat /\ Top \in Nat
    BY DrainAssumption DEF TypeOK, Top
<1>4. ASSUME object' \in [Nodes -> [Objects -> Contents]],
             meta' \in [Nodes -> [Files -> Versions]], ver' \in [Files -> Versions],
             writer' \in Writers, acked' \in [Objects -> Contents],
             last' \in 1..(1 + MaxWrites), WriterShape', Top <= Top', Top' \in Nat,
             \A n \in Nodes, f \in Files : meta'[n][f] <= Top'
      PROVE  IInv'
    <2>1. TypeOK'
        BY <1>1, <1>4 DEF TypeOK, schedVars
    <2>2. \A m \in late : m.op = "install" => m.val \in Nat
        BY MessageFields, DrainAssumption DEF TypeOK, Versions
    <2>3. VersionsBounded'
        BY <1>1, <1>3, <1>4, <2>2 DEF VersionsBounded
    <2> QED
        BY <1>2, <1>4, <2>1, <2>3
<1>5. ASSUME UNCHANGED <<object, meta>>, ver' \in [Files -> Versions],
             writer' \in Writers, acked' \in [Objects -> Contents],
             last' \in 1..(1 + MaxWrites), WriterShape', Top <= Top', Top' \in Nat
      PROVE  IInv' /\ Frozen
    <2>1. \A n \in Nodes, f \in Files : meta[n][f] \in Nat
        BY DrainAssumption DEF TypeOK, Versions
    <2>2. \A n \in Nodes, f \in Files : meta'[n][f] <= Top'
        BY <1>3, <1>5, <2>1 DEF VersionsBounded
    <2>3. Frozen
        BY <1>1, <1>5 DEF Frozen
    <2> QED
        BY <1>4, <1>5, <2>2, <2>3 DEF TypeOK
<1>6. ASSUME writer' = WriterIdle, last' = last
      PROVE  writer' \in Writers /\ WriterShape' /\ Top <= Top' /\ Top' \in Nat
    BY <1>3, <1>6, Fresh DEF WriterShape, Top
<1>7. ASSUME NEW f \in Files, WriteResolve(f) PROVE IInv' /\ Frozen
    <2>1. loc[f] \in Nodes
        BY DEF TypeOK
    <2>2. /\ writer' \in Writers /\ writer'.at = "resolved" /\ writer'.flight = NoObject
          /\ writer'.file = f /\ writer'.node = loc[f]
        BY <1>7, <2>1, Fresh, Zenon DEF WriteResolve, Writers
    <2>3. WriterShape'
        BY <1>7, <2>1, <2>2 DEF WriteResolve, WriterShape
    <2>4. Top' = Top
        BY <1>7, <2>2, Fresh DEF WriteResolve, Top
    <2> QED
        BY <1>3, <1>5, <1>7, <2>2, <2>3, <2>4 DEF WriteResolve, nodeVars, mdsVars, TypeOK
<1>8. CASE WriteAllocate
    <2>1. PICK objs \in SUBSET Objects :
             writer' = [writer EXCEPT !.at = "write", !.ver = meta[writer.node][writer.file],
                                      !.objs = objs, !.todo = objs]
        BY <1>8, Zenon DEF WriteAllocate, ObjectsOf
    <2>2. writer.file \in Files /\ writer.node \in Nodes /\ last < 1 + MaxWrites
        BY <1>8 DEF WriteAllocate, WriterShape
    <2>3. meta[writer.node][writer.file] \in Versions
        BY <2>2 DEF TypeOK
    <2>4. /\ writer' \in Writers /\ writer'.at = "write" /\ writer'.flight = writer.flight
          /\ writer'.file = writer.file /\ writer'.node = writer.node
        BY <2>1, <2>3, Zenon DEF TypeOK, Writers
    <2>5. writer.flight = NoObject
        BY <1>8 DEF WriteAllocate, WriterShape
    <2>6. WriterShape'
        BY <1>1, <2>2, <2>4, <2>5 DEF WriterShape
    <2>7. last' \in 1..(1 + MaxWrites)
        BY <1>8, <2>2, DrainAssumption DEF WriteAllocate, TypeOK
    <2>8. Top' = Top
        BY <1>3, <1>8, <2>4 DEF WriteAllocate, Top
    <2> QED
        BY <1>3, <1>5, <1>8, <2>4, <2>6, <2>7, <2>8
        DEF WriteAllocate, nodeVars, mdsVars, TypeOK
<1>9. CASE WriteAdmit
    <2>1. PICK o \in writer.todo : writer' = [writer EXCEPT !.flight = o]
        BY <1>9 DEF WriteAdmit
    <2>2. /\ writer' \in Writers /\ writer'.at = "write"
          /\ writer'.file = writer.file /\ writer'.node = writer.node
        BY <1>9, <2>1, Zenon DEF WriteAdmit, TypeOK, Writers
    <2>3. WriterShape'
        BY <1>1, <1>9, <2>2 DEF WriteAdmit, WriterShape
    <2>4. Top' = Top
        BY <1>9, <2>2 DEF WriteAdmit, Top
    <2> QED
        BY <1>3, <1>5, <1>9, <2>2, <2>3, <2>4 DEF WriteAdmit, nodeVars, mdsVars, TypeOK
<1>10. CASE WriteStore
    <2>1. /\ writer.at = "write" /\ gate[writer.node] # "durable"
          /\ writer.file \in Files /\ writer.node \in Nodes /\ writer.flight \in Objects
        BY <1>10 DEF WriteStore, WriterShape, TypeOK, Writers
    <2>2. last \in Contents
        BY DrainAssumption DEF TypeOK, Contents
    <2>3. /\ object' \in [Nodes -> [Objects -> Contents]]
          /\ \A n \in Nodes : n # writer.node => object'[n] = object[n]
        BY <1>10, <2>1, <2>2 DEF WriteStore, TypeOK
    <2>4. /\ writer' \in Writers /\ writer'.at = "write" /\ writer'.flight = NoObject
          /\ writer'.file = writer.file /\ writer'.node = writer.node
        BY <1>10, <2>1, Zenon DEF WriteStore, TypeOK, Writers
    <2>5. WriterShape'
        BY <2>1, <2>4 DEF WriterShape
    <2>6. Top' = Top
        BY <1>10, <2>1, <2>4 DEF WriteStore, Top
    <2>7. Frozen
        BY <1>1, <1>10, <2>1, <2>3 DEF WriteStore, Frozen
    <2>8. \A n \in Nodes, f \in Files : meta'[n][f] <= Top'
        BY <1>10, <2>6 DEF WriteStore, VersionsBounded
    <2> QED
        BY <1>3, <1>4, <1>10, <2>3, <2>4, <2>5, <2>6, <2>7, <2>8
        DEF WriteStore, mdsVars, TypeOK
<1>11. CASE WriteCommit
    <2> DEFINE v == meta[writer.node][writer.file] + 1
    <2>1. /\ writer.at = "write" /\ gate[writer.node] = "open"
          /\ writer.file \in Files /\ writer.node \in Nodes
        BY <1>11 DEF WriteCommit, WriterShape
    <2>2. v \in Versions /\ v <= last
        <3>1. meta[writer.node][writer.file] \in Versions
              /\ meta[writer.node][writer.file] <= last - 1
            BY <2>1 DEF VersionsBounded, Top, TypeOK
        <3> QED
            BY <3>1, DrainAssumption DEF Versions, TypeOK
    <2>3. /\ meta' = [meta EXCEPT ![writer.node][writer.file] = v]
          /\ writer' = [writer EXCEPT !.at = "stat", !.ver = v]
          /\ UNCHANGED <<object, ver, acked, last>>
        BY <1>11 DEF WriteCommit, mdsVars
    <2> HIDE DEF v
    <2>4. /\ meta' \in [Nodes -> [Files -> Versions]]
          /\ \A n \in Nodes, f \in Files : meta'[n][f] \in {meta[n][f], v}
          /\ \A n \in Nodes : n # writer.node => meta'[n] = meta[n]
        BY <2>1, <2>2, <2>3 DEF TypeOK
    <2>5. /\ writer' \in Writers /\ writer'.at = "stat" /\ writer'.flight = writer.flight
          /\ writer'.file = writer.file /\ writer'.node = writer.node
        BY <2>2, <2>3, Zenon DEF TypeOK, Writers
    <2>6. WriterShape'
        BY <1>11, <2>1, <2>5 DEF WriteCommit, WriterShape
    <2>7. Top = last - 1 /\ Top' = last
        BY <2>1, <2>3, <2>5 DEF Top
    <2>8. \A n \in Nodes, f \in Files : meta[n][f] \in Nat
        BY DrainAssumption DEF TypeOK, Versions
    <2>9. \A n \in Nodes, f \in Files : meta'[n][f] <= Top'
        BY <1>3, <2>2, <2>4, <2>7, <2>8 DEF VersionsBounded
    <2>10. Frozen
        BY <1>1, <2>1, <2>3, <2>4 DEF Frozen
    <2> QED
        BY <1>3, <1>4, <2>3, <2>4, <2>5, <2>6, <2>7, <2>9, <2>10 DEF TypeOK
<1>12. CASE WriteStat
    <2>1. writer.file \in Files /\ writer.ver \in Versions
        BY <1>12 DEF WriteStat, WriterShape, TypeOK, Writers
    <2>2. ver' \in [Files -> Versions]
        BY <1>12, <2>1, Zenon DEF WriteStat, TypeOK
    <2>3. last \in Contents
        BY DrainAssumption DEF TypeOK, Contents
    <2>4. acked' \in [Objects -> Contents]
        BY <1>12, <2>3 DEF WriteStat, TypeOK
    <2> QED
        BY <1>5, <1>6, <1>12, <2>2, <2>4 DEF WriteStat, nodeVars, TypeOK
<1>13. CASE WriteFail
    BY <1>5, <1>6, <1>13 DEF WriteFail, nodeVars, mdsVars, TypeOK
<1> QED
    BY <1>7, <1>8, <1>9, <1>10, <1>11, <1>12, <1>13 DEF Write

(* The gate moves only while no write is inside it. *)
LEMMA GateStep ==
    ASSUME IInv, NEW n \in Nodes, GateClose(n) \/ GateDurable(n) \/ NodeRestart(n)
    PROVE  IInv' /\ Frozen
<1> USE DEF IInv
<1>1. UNCHANGED <<object, meta, mdsVars, schedVars, acked, last, late>>
    BY DEF GateClose, GateDurable, NodeRestart, clientVars
<1>2. /\ gate' \in [Nodes -> {"open", "closed", "durable"}]
      /\ gate[n] # "durable"
      /\ \A k \in Nodes : k # n => gate'[k] = gate[k]
      /\ gate'[n] = "durable" => GateDurable(n)
    BY Zenon DEF GateClose, GateDurable, NodeRestart, TypeOK
<1>3. Frozen
    BY <1>1, <1>2 DEF Frozen
<1>4. ThreadShape' /\ RetriesLeft'
    BY <1>1 DEF ThreadShape, RetriesLeft, schedVars
<1>5. writer' \in Writers /\ WriterShape' /\ (Top' = Top \/ Top' = Top + 1)
    <2>1. CASE GateClose(n)
        <3>1. UNCHANGED <<writer, last>>
            BY <2>1 DEF GateClose, clientVars
        <3>2. gate'[n] = "closed"
            BY <2>1 DEF GateClose, TypeOK
        <3> QED
            BY <1>2, <3>1, <3>2 DEF TypeOK, WriterShape, Top
    <2>2. CASE GateDurable(n)
        <3>1. UNCHANGED <<writer, last>> /\ (writer.node = n => writer.flight = NoObject)
            BY <2>2 DEF GateDurable, InFlight, clientVars
        <3> QED
            BY <1>2, <3>1 DEF TypeOK, WriterShape, Top
    <2>3. CASE NodeRestart(n)
        <3>1. gate'[n] = "open"
            BY <2>3 DEF NodeRestart, TypeOK
        <3>2. CASE writer.node = n /\ writer.at = "write"
            <4>1. writer' = WriterIdle
                BY <2>3, <3>2 DEF NodeRestart
            <4> QED
                BY <1>1, <3>2, <4>1, Fresh DEF WriterShape, Top, TypeOK
        <3>3. CASE writer.node = n /\ writer.at = "stat"
            <4>1. writer' = [writer EXCEPT !.at = "unlocked"]
                BY <2>3, <3>3 DEF NodeRestart
            <4>2. /\ writer' \in Writers /\ writer'.at = "unlocked"
                  /\ writer'.flight = writer.flight
                  /\ writer'.file = writer.file /\ writer'.node = writer.node
                BY <4>1, Zenon DEF TypeOK, Writers
            <4> QED
                BY <1>1, <3>3, <4>2, Zenon DEF WriterShape, Top
        <3>4. CASE ~(writer.node = n /\ writer.at \in {"write", "stat"})
            <4>1. writer' = writer
                BY <2>3, <3>4 DEF NodeRestart
            <4> QED
                BY <1>1, <1>2, <3>1, <4>1 DEF WriterShape, Top, TypeOK
        <3> QED
            BY <3>2, <3>3, <3>4
    <2> QED
        BY <2>1, <2>2, <2>3
<1>6. TypeOK'
    BY <1>1, <1>2, <1>5 DEF TypeOK, mdsVars, schedVars
<1>7. VersionsBounded'
    <2>1. Top \in Nat
        BY DrainAssumption DEF TypeOK, Top
    <2>2. \A k \in Nodes, f \in Files : meta[k][f] \in Nat
        BY DrainAssumption DEF TypeOK, Versions
    <2>3. \A m \in late : m.op = "install" => m.val \in Nat
        BY MessageFields, DrainAssumption DEF TypeOK, Versions
    <2> QED
        BY <1>1, <1>5, <2>1, <2>2, <2>3 DEF VersionsBounded
<1> QED
    BY <1>3, <1>4, <1>5, <1>6, <1>7

(* Tasks are created only where none is active, so never under the thread. *)
LEMMA SchedulerStep ==
    ASSUME IInv, NEW n \in Nodes,
           RemoveNode(n) \/ PlannedExit(n) \/ TickStart(n) \/ SchedulerRestart
    PROVE  IInv' /\ Frozen
<1>1. UNCHANGED <<nodeVars, mdsVars, late, clientVars>>
    BY DEF RemoveNode, PlannedExit, TickStart, SchedulerRestart
<1>2. DataKept
    BY <1>1, QuietKeeps DEF IInv
<1>3. SchedOK
    BY DEF IInv, TypeOK, SchedOK
<1>4. SchedOK'
    <2>1. ASSUME task[n].state # "active", task' = [task EXCEPT ![n] = NewTask],
                 UNCHANGED thread, life' \in [Nodes -> {"WORKING", "DRAINING"}],
                 restarts' \in 0..MaxRestarts
          PROVE  SchedOK'
        <3>1. /\ task' \in [Nodes -> Tasks]
              /\ task'[n].state = "active" /\ task'[n].retries = 0
              /\ \A k \in Nodes : k # n => task'[k] = task[k]
            BY <1>3, <2>1, Fresh DEF SchedOK
        <3>2. thread.step # "idle" => thread.node # n
            BY <1>3, <2>1 DEF SchedOK, ThreadShape
        <3> QED
            BY <1>3, <2>1, <3>1, <3>2, DrainAssumption DEF SchedOK, ThreadShape, RetriesLeft
    <2>2. CASE RemoveNode(n)
        <3>1. restarts' \in 0..MaxRestarts
            BY <1>3, <2>2, DrainAssumption DEF RemoveNode, SchedOK
        <3>2. life' \in [Nodes -> {"WORKING", "DRAINING"}]
            BY <1>3, <2>2 DEF RemoveNode, SchedOK
        <3> QED
            BY <2>1, <2>2, <3>1, <3>2 DEF RemoveNode
    <2>3. CASE PlannedExit(n)
        BY <1>3, <2>3 DEF PlannedExit, SchedOK, ThreadShape, RetriesLeft
    <2>4. CASE TickStart(n)
        BY <1>3, <2>1, <2>4 DEF TickStart, SchedOK
    <2>5. CASE SchedulerRestart
        <3>1. restarts' \in 0..MaxRestarts
            BY <1>3, <2>5, DrainAssumption DEF SchedulerRestart, SchedOK
        <3> QED
            BY <1>3, <2>5, <3>1, Fresh DEF SchedulerRestart, SchedOK, ThreadShape, RetriesLeft
    <2> QED
        BY <2>2, <2>3, <2>4, <2>5
<1> QED
    BY <1>1, <1>2, <1>4, SchedStep DEF DataKept

(* Every action keeps the invariant. *)
LEMMA NextStep ==
    ASSUME IInv, Next
    PROVE  IInv' /\ Frozen
<1>1. ASSUME NEW n \in Nodes, GateClose(n) \/ GateDurable(n) \/ NodeRestart(n)
      PROVE  IInv' /\ Frozen
    BY <1>1, GateStep
<1>2. ASSUME NEW n \in Nodes, RemoveNode(n) \/ PlannedExit(n) \/ TickStart(n)
      PROVE  IInv' /\ Frozen
    BY <1>2, SchedulerStep
<1>3. ASSUME NEW n \in Nodes, Migrate(n)
      PROVE  IInv' /\ Frozen
    BY <1>3, MigrateData, MigrateSched, SchedStep DEF DataKept
<1>4. CASE Publish
    <2>1. UNCHANGED <<nodeVars, loc, ver, schedVars, clientVars, late>> /\ admitted' \subseteq Nodes
        BY <1>4 DEF Publish
    <2>2. Frozen
        BY <2>1 DEF Frozen, nodeVars
    <2> QED
        BY <2>1, <2>2 DEF IInv, TypeOK, WriterShape, VersionsBounded, Top, ThreadShape,
                          RetriesLeft, nodeVars, schedVars, clientVars
<1>5. CASE SchedulerRestart
    <2>1. CASE Nodes = {}
        <3>1. UNCHANGED <<nodeVars, mdsVars, late, clientVars>>
            BY <1>5 DEF SchedulerRestart
        <3>2. DataKept
            BY <3>1, QuietKeeps DEF IInv
        <3>3. restarts' \in 0..MaxRestarts
            BY <1>5, DrainAssumption DEF SchedulerRestart, IInv, TypeOK
        <3>4. SchedOK'
            BY <1>5, <3>3, Fresh, Zenon
            DEF SchedulerRestart, SchedOK, ThreadShape, RetriesLeft, IInv, TypeOK
        <3> QED
            BY <3>1, <3>2, <3>4, SchedStep DEF DataKept
    <2>2. CASE Nodes # {}
        BY <1>5, <2>2, SchedulerStep
    <2> QED
        BY <2>1, <2>2
<1>6. ASSUME NEW m \in late, Deliver(m)
      PROVE  IInv' /\ Frozen
    <2>1. m \in Messages /\ (m.op = "install" => m.val <= Top)
        BY DEF IInv, TypeOK, VersionsBounded
    <2>2. UNCHANGED <<schedVars, clientVars>> /\ late' \subseteq late
        BY <1>6 DEF Deliver
    <2>3. DataKept
        <3>1. CASE Accepted(m)
            BY <1>6, <2>1, <2>2, <3>1, ExecuteKeeps DEF Deliver, IInv
        <3>2. CASE ~Accepted(m)
            BY <1>6, <2>2, <3>2
            DEF Deliver, IInv, DataKept, Frozen, TypeOK, VersionsBounded, nodeVars, mdsVars
        <3> QED
            BY <3>1, <3>2
    <2>4. SchedOK'
        BY <2>2 DEF IInv, TypeOK, SchedOK, ThreadShape, RetriesLeft, schedVars
    <2> QED
        BY <2>2, <2>3, <2>4, SchedStep DEF DataKept
<1>7. CASE Write
    BY <1>7, WriteStep
<1> QED
    BY <1>1, <1>2, <1>3, <1>4, <1>5, <1>6, <1>7 DEF Next

(* Every step, a stuttering one included, keeps the invariant. *)
LEMMA StepIInv ==
    ASSUME IInv, [Next]_vars
    PROVE  IInv'
<1>1. CASE UNCHANGED vars
    BY <1>1 DEF vars, nodeVars, mdsVars, schedVars, clientVars, IInv, TypeOK, WriterShape,
                VersionsBounded, Top, ThreadShape, RetriesLeft
<1> QED
    BY <1>1, NextStep

-----------------------------------------------------------------------------
(* The strengthened invariant holds in every reachable state of a drain.   *)
THEOREM Invariance == Spec => []IInv
BY InitIInv, StepIInv, PTL DEF Spec

(* Type correctness: no retry pushes a task past its limit, and no version  *)
(* exceeds the number of writes, since every commit holds the write lock    *)
(* of CommitFileWrite and an install only repeats a version that exists.    *)
THEOREM TypeCorrect == Spec => []TypeOK
<1>1. IInv => TypeOK
    BY DEF IInv
<1> QED
    BY <1>1, Invariance, PTL

(* A node that confirmed its gate (BeginDataDrain) never takes content or   *)
(* metadata again, for any number of nodes, writes, retries, restarts and   *)
(* late requests.                                                           *)
THEOREM ConfirmedGateFreezes == Spec => FrozenSource
<1>1. IInv /\ [Next]_vars => [Frozen]_vars
    BY NextStep
<1>2. Spec => [][Frozen]_vars
    BY <1>1, Invariance, PTL DEF Spec
<1> QED
    BY <1>2, PTL DEF FrozenSource, Frozen

-----------------------------------------------------------------------------
(* What the thread works on. *)
Moving == task[thread.node].cur
Target == task[thread.node].target

(* Contents and versions are numbers. *)
LEMMA Numbers ==
    ASSUME TypeOK
    PROVE  /\ last \in Nat
           /\ \A n \in Nodes, o \in Objects : object[n][o] \in Nat
           /\ \A n \in Nodes, f \in Files : meta[n][f] \in Nat
           /\ \A f \in Files : ver[f] \in Nat /\ loc[f] \in Nodes
           /\ \A o \in Objects : acked[o] \in Nat /\ FileOf[o] \in Files
<1> USE DrainAssumption DEF TypeOK
<1>1. Contents \subseteq Nat /\ Versions \subseteq Nat /\ last \in Nat
    BY DEF Contents, Versions
<1>2. \A n \in Nodes, o \in Objects : object[n][o] \in Nat
    BY DEF Contents
<1>3. \A n \in Nodes, f \in Files : meta[n][f] \in Nat
    BY DEF Versions
<1>4. \A f \in Files : ver[f] \in Nat /\ loc[f] \in Nodes
    BY <1>1, Zenon
<1>5. \A o \in Objects : acked[o] \in Nat /\ FileOf[o] \in Files
    BY <1>1, Zenon
<1> QED
    BY <1>1, <1>2, <1>3, <1>4, <1>5

(* A step of the thread, by name. *)
LEMMA GotoStep ==
    ASSUME IInv, NEW step \in Steps, Goto(step)
    PROVE  /\ thread'.step = step /\ thread'.node = thread.node
           /\ thread'.todo = thread.todo /\ thread'.ver = thread.ver
BY DEF IInv, TypeOK, Threads, Goto

(* A failed call changes only what a task's retries depend on. *)
SameWork ==
    \A k \in Nodes :
       /\ task'[k].enumerated = task[k].enumerated /\ task'[k].listed = task[k].listed
       /\ task'[k].cur = task[k].cur /\ task'[k].target = task[k].target
       /\ task'[k].committed = task[k].committed

(* The task keeps its work item, and the thread has nothing in hand. *)
LEMMA RetrySame ==
    ASSUME TypeOK, NEW n \in Nodes, Retry(n)
    PROVE  SameWork /\ thread'.step = "idle"
<1> DEFINE r == task[n].retries + 1
           s == IF r >= MaxRetries THEN "blocked" ELSE task[n].state
<1>1. task' = [task EXCEPT ![n].retries = r, ![n].state = s] /\ thread' = ThreadIdle
    BY DEF Retry
<1> HIDE DEF r, s
<1>2. SameWork
    <2>1. \A k \in Nodes : k # n => task'[k] = task[k]
        BY <1>1, Zenon DEF TypeOK
    <2>2. /\ task'[n].enumerated = task[n].enumerated /\ task'[n].listed = task[n].listed
          /\ task'[n].cur = task[n].cur /\ task'[n].target = task[n].target
          /\ task'[n].committed = task[n].committed
        BY <1>1 DEF TypeOK, Tasks
    <2> QED
        BY <2>1, <2>2, Zenon DEF SameWork
<1>3. thread'.step = "idle"
    BY <1>1, Fresh
<1> QED
    BY <1>2, <1>3

-----------------------------------------------------------------------------
(* One node is drained, and any number of requests run late. *)

(* A request to store goes to a node that stays, a location commit to one   *)
(* that has all objects of the file; a request to remove goes to the        *)
(* drained node, for a file that is gone from it.                           *)
Harmless(m) ==
    /\ m.op = "write" => m.val # 0
    /\ m.op \in {"write", "install", "commit"} => m.node \notin Drains
    /\ m.op = "commit" => \A o \in ObjectsOf(m.file) : object[m.node][o] # 0
    /\ m.op \in {"delete", "cleanup"} => m.node \in Drains /\ loc[m.file] \notin Drains
    /\ m.op = "delete" => FileOf[m.obj] = m.file

(* Only the drained node has a task. *)
TaskLone(n) ==
    /\ task[n].target # n
    /\ task[n].committed => task[n].cur \in Files /\ loc[task[n].cur] \notin Drains
    /\ n \notin Drains => life[n] = "WORKING" /\ task[n].state = "none"
TasksLone == \A n \in Nodes : TaskLone(n)

ThreadLone ==
    /\ thread.step = "commit" => \A o \in ObjectsOf(Moving) : object[Target][o] # 0
    /\ thread.step \in {"delete", "cleanup"} => task[thread.node].committed

Lone ==
    /\ \A n \in Nodes \ Drains : gate[n] = "open"
    /\ TasksLone /\ ThreadLone
    /\ \A m \in late : Harmless(m)
    /\ ObjectsKept

(* Objects stay on nodes that stay, and files on them. *)
Stays ==
    /\ \A n \in Nodes \ Drains, o \in Objects : object[n][o] # 0 => object'[n][o] # 0
    /\ \A f \in Files : loc[f] \notin Drains => loc'[f] \notin Drains

(* A request that is harmless stays so. *)
LEMMA StillHarmless ==
    ASSUME NEW m \in Messages, Harmless(m), Stays
    PROVE  Harmless(m)'
BY MessageFields DEF Harmless, Stays, ObjectsOf

(* A harmless request, whenever it is executed, loses no object. *)
LEMMA ExecuteLone ==
    ASSUME IInv, Lone, NEW m \in Messages, Harmless(m), Accepted(m), Apply(m)
    PROVE  ObjectsKept' /\ Stays /\ UNCHANGED gate
<1> USE MessageFields DEF Apply
<1>0. UNCHANGED gate
    OBVIOUS
<1>1. CASE m.op = "write"
    <2>1. object' = [object EXCEPT ![m.node][m.obj] = m.val] /\ UNCHANGED loc /\ m.val # 0
        BY <1>1 DEF Harmless
    <2>2. \A n \in Nodes, o \in Objects : object'[n][o] \in {object[n][o], m.val}
        BY <1>1, <2>1 DEF IInv, TypeOK
    <2> QED
        BY <1>0, <2>1, <2>2, Numbers DEF Lone, ObjectsKept, Stays, IInv
<1>2. CASE m.op \in {"install", "cleanup"}
    BY <1>0, <1>2 DEF Lone, ObjectsKept, Stays
<1>3. CASE m.op = "commit"
    <2>1. loc' = [loc EXCEPT ![m.file] = m.node] /\ UNCHANGED object
        BY <1>3
    <2>2. /\ m.node \notin Drains /\ m.node \in Nodes /\ m.file \in Files
          /\ \A o \in ObjectsOf(m.file) : object[m.node][o] # 0
        BY <1>3 DEF Harmless
    <2>3. loc'[m.file] = m.node /\ \A g \in Files : g # m.file => loc'[g] = loc[g]
        BY <2>1, <2>2 DEF IInv, TypeOK
    <2>4. ObjectsKept'
        <3> SUFFICES ASSUME NEW o \in Objects PROVE object[loc'[FileOf[o]]][o] # 0
            BY <2>1 DEF ObjectsKept
        <3>1. CASE FileOf[o] = m.file
            BY <2>2, <2>3, <3>1 DEF ObjectsOf
        <3>2. CASE FileOf[o] # m.file
            BY <2>3, <3>2, Numbers DEF Lone, ObjectsKept, IInv
        <3> QED
            BY <3>1, <3>2
    <2> QED
        BY <1>0, <2>1, <2>2, <2>3, <2>4 DEF Stays
<1>4. CASE m.op = "delete"
    <2>1. object' = [object EXCEPT ![m.node][m.obj] = 0] /\ UNCHANGED loc
        BY <1>4
    <2>2. m.node \in Drains /\ loc[FileOf[m.obj]] \notin Drains
        BY <1>4 DEF Harmless
    <2>3. \A n \in Nodes, o \in Objects : n # m.node \/ o # m.obj => object'[n][o] = object[n][o]
        BY <1>4, <2>1 DEF IInv, TypeOK
    <2> QED
        BY <1>0, <2>1, <2>2, <2>3, Numbers DEF Lone, ObjectsKept, Stays, IInv
<1> QED
    BY <1>1, <1>2, <1>3, <1>4

(* A call, answered or not, executed now or later. *)
LEMMA CallLone ==
    ASSUME IInv, Lone, NEW m \in Messages, Harmless(m), Confirmed(m) \/ Unconfirmed(m)
    PROVE  ObjectsKept' /\ Stays /\ UNCHANGED gate /\ (\A x \in late' : Harmless(x)')
<1>1. CASE Confirmed(m)
    <2>1. ObjectsKept' /\ Stays /\ UNCHANGED <<gate, late>>
        BY <1>1, ExecuteLone DEF Confirmed
    <2> QED
        BY <2>1, StillHarmless DEF Lone, IInv, TypeOK
<1>2. ASSUME UNCHANGED <<nodeVars, mdsVars>>, late' \subseteq late \cup {m}
      PROVE  ObjectsKept' /\ Stays /\ UNCHANGED gate /\ (\A x \in late' : Harmless(x)')
    <2>1. ObjectsKept' /\ Stays /\ UNCHANGED gate
        BY <1>2 DEF Lone, ObjectsKept, Stays, nodeVars, mdsVars
    <2>2. \A x \in late' : x \in Messages /\ Harmless(x)
        BY <1>2 DEF Lone, IInv, TypeOK
    <2> QED
        BY <2>1, <2>2, StillHarmless
<1> QED
    BY <1>1, <1>2 DEF Unconfirmed

(* No request and no change of the tables. *)
LEMMA QuietLone ==
    ASSUME IInv, Lone, UNCHANGED <<object, loc, late>>
    PROVE  ObjectsKept' /\ Stays /\ (\A x \in late' : Harmless(x)')
<1>1. ObjectsKept' /\ Stays
    BY DEF Lone, ObjectsKept, Stays
<1> QED
    BY <1>1, StillHarmless DEF Lone, IInv, TypeOK

(* What the thread works on when one node is drained. *)
LEMMA LoneFacts ==
    ASSUME IInv, Lone, \A m, n \in Drains : m = n, NEW n \in Nodes, thread.node = n,
           thread.step # "idle"
    PROVE  /\ n \in Drains /\ task[n] \in Tasks /\ task[n].target # n
           /\ task[n].target \notin Drains
           /\ Moving = task[n].cur /\ Target = task[n].target
           /\ thread.step \notin {"idle", "fence", "list"} => task[n].cur \in Files
           /\ thread.step \in {"copy", "install", "commit"} => task[n].target \in Nodes
           /\ thread.step \in {"delete", "cleanup"} =>
                 task[n].committed /\ loc[task[n].cur] \notin Drains
           /\ \A o \in Pending(n) : o \in Objects /\ FileOf[o] = task[n].cur
BY DEF IInv, TypeOK, ThreadShape, Lone, TasksLone, TaskLone, ThreadLone, Moving, Target, Pending, Tasks

(* A failed call. *)
LEMMA RetryLone ==
    ASSUME IInv, Lone, NEW n \in Nodes, Retry(n), n \in Drains, UNCHANGED <<gate, life>>,
           ObjectsKept', Stays, \A x \in late' : Harmless(x)'
    PROVE  Lone'
<1> DEFINE r == task[n].retries + 1
           s == IF r >= MaxRetries THEN "blocked" ELSE task[n].state
<1>1. task' = [task EXCEPT ![n].retries = r, ![n].state = s] /\ thread' = ThreadIdle
    BY DEF Retry
<1> HIDE DEF r, s
<1>2. \A k \in Nodes : k # n => task'[k].state = task[k].state
    BY <1>1, Zenon DEF IInv, TypeOK
<1>3. SameWork /\ thread'.step = "idle"
    BY RetrySame DEF IInv
<1>4. ASSUME NEW k \in Nodes PROVE TaskLone(k)'
    <2>1. TaskLone(k) /\ UNCHANGED life
        BY DEF Lone, TasksLone
    <2>2. k \notin Drains => task'[k].state = task[k].state
        BY <1>2
    <2>3. /\ task'[k].cur = task[k].cur /\ task'[k].target = task[k].target
          /\ task'[k].committed = task[k].committed
        BY <1>3 DEF SameWork
    <2> QED
        BY <2>1, <2>2, <2>3, Zenon DEF TaskLone, Stays
<1>5. ThreadLone'
    BY <1>3 DEF ThreadLone
<1> QED
    BY <1>4, <1>5 DEF Lone, TasksLone

(* The thread goes on with its task, which keeps its target.                *)
LEMMA GoLone ==
    ASSUME IInv, Lone, NEW n \in Nodes, n \in Drains, UNCHANGED <<gate, life>>,
           ObjectsKept', Stays, \A x \in late' : Harmless(x)',
           \A k \in Nodes : k # n => task'[k] = task[k],
           task'[n].target # n,
           task'[n].committed => task'[n].cur \in Files /\ loc'[task'[n].cur] \notin Drains,
           ThreadLone'
    PROVE  Lone'
<1>1. TasksLone'
    BY DEF Lone, TasksLone, TaskLone, Stays
<1> QED
    BY <1>1 DEF Lone

(* Steps that call nobody. *)
LEMMA PlanLone ==
    ASSUME IInv, Lone, \A m, n \in Drains : m = n, NEW n \in Nodes,
           TickTask(n) \/ Fence(n) \/ List(n) \/ Owns(n) \/ Select(n)
    PROVE  Lone'
<1>1. UNCHANGED <<gate, object, loc, life, late>>
    BY DEF TickTask, Fence, List, Owns, Select, nodeVars, mdsVars
<1>2. ObjectsKept' /\ Stays /\ (\A x \in late' : Harmless(x)')
    BY <1>1, QuietLone
<1>3. n \in Drains
    BY DEF TickTask, Fence, List, Owns, Select, At, Lone, TasksLone, TaskLone, IInv, ThreadShape
<1>4. task[n] \in Tasks /\ TasksLone
    BY DEF IInv, TypeOK, Lone
<1>5. ASSUME NEW step \in Steps \ {"commit"}, thread'.step = step,
             step \in {"delete", "cleanup"} => task'[thread'.node].committed
      PROVE  ThreadLone'
    BY <1>5 DEF ThreadLone
<1>6. ASSUME Retry(n) PROVE Lone'
    BY <1>1, <1>2, <1>3, <1>6, RetryLone
<1>7. ASSUME \A k \in Nodes : k # n => task'[k] = task[k],
             task'[n].target # n,
             task'[n].committed => task'[n].cur \in Files /\ loc'[task'[n].cur] \notin Drains,
             ThreadLone'
      PROVE  Lone'
    BY <1>1, <1>2, <1>3, <1>7, GoLone, Zenon
<1>13. /\ task[n].target # n
       /\ task[n].committed => task[n].cur \in Files /\ loc[task[n].cur] \notin Drains
    BY <1>4, Zenon DEF TasksLone, TaskLone
<1>14. ASSUME UNCHANGED task, ThreadLone' PROVE Lone'
    BY <1>1, <1>7, <1>13, <1>14, Zenon
<1>8. CASE TickTask(n)
    <2>1. ASSUME NEW step \in Steps, thread' = [ThreadIdle EXCEPT !.node = n, !.step = step]
          PROVE  thread'.step = step /\ thread'.node = n
        BY <2>1 DEF ThreadIdle
    <2>2. CASE thread' = [ThreadIdle EXCEPT !.node = n, !.step = "fence"] /\ UNCHANGED task
        <3>1. ThreadLone'
            BY <1>5, <2>1, <2>2 DEF Steps
        <3> QED
            BY <1>14, <2>2, <3>1
    <2>3. CASE UNCHANGED task
               /\ thread' = [ThreadIdle EXCEPT !.node = n,
                                !.step = IF task[n].committed THEN "delete" ELSE "owns"]
        <3>1. ThreadLone'
            BY <1>5, <2>1, <2>3 DEF Steps
        <3> QED
            BY <1>14, <2>3, <3>1
    <2>4. ASSUME NEW o \in task[n].listed, task' = [task EXCEPT ![n].cur = FileOf[o]],
                 thread' = [ThreadIdle EXCEPT !.node = n, !.step = "owns"],
                 task[n].cur = NoFile
          PROVE  Lone'
        <3>1. ThreadLone'
            BY <1>5, <2>1, <2>4 DEF Steps
        <3>2. /\ \A k \in Nodes : k # n => task'[k] = task[k]
              /\ task'[n].target = task[n].target /\ task'[n].committed = task[n].committed
            BY <2>4 DEF IInv, TypeOK, Tasks
        <3>3. ~task[n].committed
            BY <1>4, <2>4, DrainAssumption DEF TasksLone, TaskLone
        <3> QED
            BY <1>4, <1>7, <3>1, <3>2, <3>3 DEF TasksLone, TaskLone
    <2> QED
        BY <1>8, <2>2, <2>3, <2>4 DEF TickTask
<1>9. CASE Fence(n)
    <2>1. CASE Goto("list") /\ UNCHANGED task
        <3>1. ThreadLone'
            BY <1>5, <2>1, GotoStep DEF Steps
        <3> QED
            BY <1>14, <2>1, <3>1
    <2> QED
        BY <1>6, <1>9, <2>1 DEF Fence
<1>10. CASE List(n)
    <2> DEFINE s == IF Listed(n) = {} THEN "drained" ELSE task[n].state
    <2>1. CASE thread' = ThreadIdle
               /\ task' = [task EXCEPT ![n].enumerated = TRUE, ![n].listed = Listed(n),
                                       ![n].state = s]
        <3> HIDE DEF s
        <3>1. ThreadLone'
            BY <1>5, <2>1, Fresh DEF Steps
        <3>2. /\ \A k \in Nodes : k # n => task'[k] = task[k]
              /\ task'[n].target = task[n].target /\ task'[n].cur = task[n].cur
              /\ task'[n].committed = task[n].committed
            BY <2>1 DEF IInv, TypeOK, Tasks
        <3> QED
            BY <1>1, <1>4, <1>7, <3>1, <3>2, Zenon DEF TasksLone, TaskLone
    <2> QED
        BY <1>6, <1>10, <2>1, Zenon DEF List
<1>11. CASE Owns(n)
    <2>1. task[n].cur \in Files /\ thread.node = n
        BY <1>11, LoneFacts DEF Owns, At
    <2>2. CASE Goto(IF task[n].target = NoNode THEN "select" ELSE "copy") /\ UNCHANGED task
        <3> DEFINE s == IF task[n].target = NoNode THEN "select" ELSE "copy"
        <3>1. s \in {"select", "copy"} /\ Goto(s)
            BY <2>2
        <3> HIDE DEF s
        <3>2. ThreadLone'
            BY <1>5, <3>1, GotoStep DEF Steps
        <3> QED
            BY <1>14, <2>2, <3>2
    <2>3. CASE task' = [task EXCEPT ![n].committed = TRUE] /\ Goto("delete")
               /\ loc[task[n].cur] # n
        <3>1. /\ \A k \in Nodes : k # n => task'[k] = task[k]
              /\ task'[n].target = task[n].target /\ task'[n].cur = task[n].cur
            BY <2>3 DEF IInv, TypeOK, Tasks
        <3>2. task'[n].committed
            BY <2>3 DEF IInv, TypeOK, Tasks
        <3>3. ThreadLone'
            BY <1>5, <2>1, <2>3, <3>2, GotoStep DEF Steps
        <3>4. loc[task[n].cur] \notin Drains
            BY <1>3, <2>3
        <3>5. task'[n].target # n /\ task'[n].cur \in Files /\ loc'[task'[n].cur] \notin Drains
            BY <1>1, <1>13, <2>1, <3>1, <3>4
        <3> QED
            BY <1>7, <3>1, <3>3, <3>5
    <2> QED
        BY <1>6, <1>11, <2>2, <2>3 DEF Owns
<1>12. CASE Select(n)
    <2>1. ASSUME NEW t \in Nodes \ {n}, task' = [task EXCEPT ![n].target = t], Goto("copy")
          PROVE  Lone'
        <3>1. /\ \A k \in Nodes : k # n => task'[k] = task[k]
              /\ task'[n].target = t /\ task'[n].cur = task[n].cur
              /\ task'[n].committed = task[n].committed
            BY <2>1 DEF IInv, TypeOK, Tasks
        <3>2. ThreadLone'
            BY <1>5, <2>1, GotoStep DEF Steps
        <3> QED
            BY <1>1, <1>4, <1>7, <3>1, <3>2 DEF TasksLone, TaskLone
    <2> QED
        BY <1>6, <1>12, <2>1 DEF Select
<1> QED
    BY <1>8, <1>9, <1>10, <1>11, <1>12

(* Steps that call a node or the MDS. *)
LEMMA CallsLone ==
    ASSUME IInv, Lone, \A m, n \in Drains : m = n, NEW n \in Nodes,
           Copy(n) \/ Install(n) \/ Commit(n) \/ Delete(n) \/ Cleanup(n)
    PROVE  Lone'
<1>1. /\ n \in Drains /\ task[n] \in Tasks /\ TasksLone /\ UNCHANGED life
      /\ thread.node = n /\ task[n].target \notin Drains /\ task[n].target # n
      /\ Moving = task[n].cur /\ Target = task[n].target /\ task[n].cur \in Files
      /\ thread.step \in {"copy", "install", "commit"} => task[n].target \in Nodes
      /\ thread.step \in {"delete", "cleanup"} =>
            task[n].committed /\ loc[task[n].cur] \notin Drains
      /\ \A o \in Pending(n) : o \in Objects /\ FileOf[o] = task[n].cur
    BY LoneFacts DEF Copy, Install, Commit, Delete, Cleanup, At, Lone
<1>2. ASSUME NEW m \in Messages, Harmless(m), Unconfirmed(m), Retry(n) PROVE Lone'
    BY <1>1, <1>2, CallLone, RetryLone
<1>3. ASSUME NEW m \in Messages, Harmless(m), Confirmed(m),
             \A k \in Nodes : k # n => task'[k] = task[k],
             task'[n].target # n,
             task'[n].committed => task'[n].cur \in Files /\ loc'[task'[n].cur] \notin Drains,
             ThreadLone'
      PROVE  Lone'
    BY <1>1, <1>3, CallLone, GoLone, Zenon
<1>4. ASSUME UNCHANGED <<nodeVars, mdsVars, late>>, Retry(n) PROVE Lone'
    BY <1>1, <1>4, QuietLone, RetryLone, Zenon DEF nodeVars, mdsVars
<1>5. ASSUME UNCHANGED <<nodeVars, mdsVars, late, task>>,
             NEW step \in {"install", "cleanup"}, Goto(step),
             step = "cleanup" => thread.step = "delete"
      PROVE  Lone'
    <2>1. UNCHANGED <<gate, object, loc>>
        BY <1>5 DEF nodeVars, mdsVars
    <2>2. thread'.step = step /\ thread'.node = n
        BY <1>1, <1>5, GotoStep, Zenon DEF Steps
    <2>3. ThreadLone'
        BY <1>1, <1>5, <2>2, Zenon DEF ThreadLone
    <2> QED
        BY <1>1, <1>5, <2>1, <2>3, QuietLone, GoLone, Zenon DEF TasksLone, TaskLone
<1>6. task[n].committed => loc[task[n].cur] \notin Drains
    BY <1>1, Zenon DEF TasksLone, TaskLone
<1>7. CASE Copy(n)
    <2>1. thread.step = "copy"
        BY <1>7 DEF Copy, At
    <2>2. ASSUME NEW o \in Pending(n), object[n][o] # 0
          PROVE  WriteMsg(n, o) \in Messages /\ Harmless(WriteMsg(n, o))
        <3>1. WriteMsg(n, o) \in Messages
            BY <1>1, <2>1, RequestTypes, Zenon
        <3> QED
            BY <1>1, <2>2, <3>1, Zenon DEF Harmless, WriteMsg
    <2>3. ASSUME NEW o \in Pending(n), object[n][o] # 0, Confirmed(WriteMsg(n, o)),
                 thread' = [thread EXCEPT !.todo = @ \cup {o}], UNCHANGED task
          PROVE  Lone'
        <3>1. thread'.step = "copy"
            BY <2>1, <2>3 DEF IInv, TypeOK, Threads
        <3>2. ThreadLone'
            BY <3>1 DEF ThreadLone
        <3>3. Stays
            BY <2>2, <2>3, CallLone
        <3> QED
            BY <1>1, <1>3, <1>6, <2>2, <2>3, <3>2, <3>3 DEF Stays
    <2> QED
        BY <1>2, <1>4, <1>5, <1>7, <2>2, <2>3 DEF Copy
<1>8. CASE Install(n)
    <2>1. thread.step = "install"
        BY <1>8 DEF Install, At
    <2>2. InstallMsg(n) \in Messages /\ Harmless(InstallMsg(n))
        <3>1. InstallMsg(n) \in Messages
            BY <1>1, <2>1, RequestTypes, Zenon
        <3> QED
            BY <1>1, <3>1, Zenon DEF Harmless, InstallMsg
    <2>3. CASE Confirmed(InstallMsg(n)) /\ UNCHANGED task
               /\ thread' = [thread EXCEPT !.step = "commit", !.ver = meta[n][task[n].cur]]
        <3>1. thread'.step = "commit" /\ thread'.node = n
            BY <1>1, <2>3 DEF IInv, TypeOK, Threads
        <3>2. \A o \in ObjectsOf(task[n].cur) : object[task[n].target][o] # 0
            BY <2>3 DEF Confirmed, Accepted, InstallAccepted, InstallMsg
        <3>3. Stays
            BY <2>2, <2>3, CallLone
        <3>4. ThreadLone'
            BY <1>1, <2>1, <2>3, <3>1, <3>2, <3>3
            DEF ThreadLone, Moving, Target, Stays, ObjectsOf
        <3> QED
            BY <1>1, <1>3, <1>6, <2>2, <2>3, <3>3, <3>4 DEF Stays
    <2> QED
        BY <1>2, <1>4, <1>8, <2>2, <2>3 DEF Install
<1>9. CASE Commit(n)
    <2>1. thread.step = "commit"
        BY <1>9 DEF Commit, At
    <2>2. CommitMsg(n) \in Messages /\ Harmless(CommitMsg(n))
        <3>1. CommitMsg(n) \in Messages
            BY <1>1, <2>1, RequestTypes, Zenon
        <3>2. \A o \in ObjectsOf(task[n].cur) : object[task[n].target][o] # 0
            BY <1>1, <2>1, Zenon DEF Lone, ThreadLone
        <3> QED
            BY <1>1, <3>1, <3>2, Zenon DEF Harmless, CommitMsg
    <2>3. CASE Confirmed(CommitMsg(n)) /\ task' = [task EXCEPT ![n].committed = TRUE]
               /\ Goto("delete")
        <3>1. /\ \A k \in Nodes : k # n => task'[k] = task[k]
              /\ task'[n].target = task[n].target /\ task'[n].cur = task[n].cur
            BY <2>3 DEF IInv, TypeOK, Tasks
        <3>2. task'[n].committed
            BY <2>3 DEF IInv, TypeOK, Tasks
        <3>3. thread'.step = "delete" /\ thread'.node = n
            BY <1>1, <2>3, GotoStep DEF Steps
        <3>4. ThreadLone'
            BY <3>2, <3>3 DEF ThreadLone
        <3>5. loc' = [loc EXCEPT ![task[n].cur] = task[n].target]
            BY <2>3 DEF Confirmed, Apply, CommitMsg
        <3>6. loc'[task[n].cur] \notin Drains
            BY <1>1, <3>5, Zenon DEF IInv, TypeOK
        <3> QED
            BY <1>1, <1>3, <2>2, <2>3, <3>1, <3>4, <3>6
    <2> QED
        BY <1>2, <1>9, <2>2, <2>3 DEF Commit
<1>10. CASE Delete(n)
    <2>1. thread.step = "delete"
        BY <1>10 DEF Delete, At
    <2>2. ASSUME NEW o \in Pending(n)
          PROVE  DeleteMsg(n, o) \in Messages /\ Harmless(DeleteMsg(n, o))
        <3>1. DeleteMsg(n, o) \in Messages
            BY <1>1, RequestTypes, Zenon
        <3> QED
            BY <1>1, <2>1, <3>1, Zenon DEF Harmless, DeleteMsg
    <2>3. ASSUME NEW o \in Pending(n), Confirmed(DeleteMsg(n, o)),
                 task' = [task EXCEPT ![n].listed = @ \ {o}], UNCHANGED thread
          PROVE  Lone'
        <3>1. /\ \A k \in Nodes : k # n => task'[k] = task[k]
              /\ task'[n].target = task[n].target /\ task'[n].cur = task[n].cur
              /\ task'[n].committed = task[n].committed
            BY <2>3 DEF IInv, TypeOK, Tasks
        <3>2. ThreadLone'
            BY <1>1, <2>1, <2>3, <3>1 DEF ThreadLone
        <3>3. Stays
            BY <2>2, <2>3, CallLone
        <3> QED
            BY <1>1, <1>3, <1>6, <2>2, <2>3, <3>1, <3>2, <3>3 DEF Stays
    <2> QED
        BY <1>2, <1>5, <1>10, <2>1, <2>2, <2>3 DEF Delete
<1>11. CASE Cleanup(n)
    <2> DEFINE s == IF task[n].listed = {} THEN "drained" ELSE task[n].state
    <2>1. thread.step = "cleanup"
        BY <1>11 DEF Cleanup, At
    <2>2. CleanupMsg(n) \in Messages /\ Harmless(CleanupMsg(n))
        <3>1. CleanupMsg(n) \in Messages
            BY <1>1, <2>1, RequestTypes, Zenon
        <3> QED
            BY <1>1, <2>1, <3>1, Zenon DEF Harmless, CleanupMsg
    <2>3. CASE Confirmed(CleanupMsg(n)) /\ thread' = ThreadIdle
               /\ task' = [task EXCEPT ![n].cur = NoFile, ![n].target = NoNode,
                                       ![n].committed = FALSE, ![n].state = s]
        <3> HIDE DEF s
        <3>1. /\ \A k \in Nodes : k # n => task'[k] = task[k]
              /\ task'[n].target = NoNode
            BY <2>3 DEF IInv, TypeOK, Tasks
        <3>2. ~task'[n].committed
            BY <2>3 DEF IInv, TypeOK, Tasks
        <3>3. ThreadLone'
            BY <2>3, Fresh DEF ThreadLone
        <3> QED
            BY <1>3, <2>2, <2>3, <3>1, <3>2, <3>3, DrainAssumption, Zenon
    <2> QED
        BY <1>2, <1>11, <2>2, <2>3 DEF Cleanup
<1> QED
    BY <1>7, <1>8, <1>9, <1>10, <1>11

(* The other steps send nothing: the thread's target, where it has one,     *)
(* keeps its objects.                                                       *)
LEMMA RestLone ==
    ASSUME IInv, Lone, \A m, n \in Drains : m = n, UNCHANGED thread,
           ObjectsKept', Stays, \A x \in late' : Harmless(x)',
           \A k \in Nodes : \/ task'[k] = task[k]
                            \/ /\ k \in Drains /\ task[k].state # "active"
                               /\ task'[k] = NewTask,
           \A k \in Nodes \ Drains : gate'[k] = gate[k] /\ life'[k] = life[k]
    PROVE  Lone'
<1>1. ~NewTask.committed /\ NewTask.target = NoNode
    BY DEF NewTask
<1>2. TasksLone'
    <2> SUFFICES ASSUME NEW k \in Nodes PROVE TaskLone(k)'
        BY DEF TasksLone
    <2>1. TaskLone(k)
        BY DEF Lone, TasksLone
    <2>2. CASE task'[k] = task[k]
        BY <2>1, <2>2 DEF TaskLone, Stays
    <2>3. CASE k \in Drains /\ task'[k] = NewTask
        BY <1>1, <2>3, DrainAssumption DEF TaskLone
    <2> QED
        BY <2>2, <2>3
<1>3. thread.step # "idle" => thread.node \in Nodes /\ task'[thread.node] = task[thread.node]
    BY DEF IInv, ThreadShape
<1>4. thread.step = "commit" => Target \in Nodes \ Drains
    <2> SUFFICES ASSUME thread.step = "commit" PROVE Target \in Nodes \ Drains
        OBVIOUS
    <2>1. thread.node \in Nodes
        BY <1>3
    <2> QED
        BY <2>1, LoneFacts
<1>5. ThreadLone'
    BY <1>3, <1>4 DEF Lone, ThreadLone, Moving, Target, Stays, ObjectsOf
<1> QED
    BY <1>2, <1>5, Zenon DEF Lone

(* The gate and the lifecycle of no other node than the drained one change. *)
LEMMA OtherLone ==
    ASSUME IInv, Lone, \A m, n \in Drains : m = n,
           \/ \E n \in Nodes : \/ GateClose(n) \/ GateDurable(n) \/ NodeRestart(n)
                               \/ RemoveNode(n) \/ PlannedExit(n) \/ TickStart(n)
           \/ Publish \/ SchedulerRestart
    PROVE  Lone'
<1>1. UNCHANGED <<object, loc, late>>
    BY DEF GateClose, GateDurable, NodeRestart, RemoveNode, PlannedExit, TickStart, Publish,
           SchedulerRestart, nodeVars, mdsVars
<1>2. ObjectsKept' /\ Stays /\ (\A x \in late' : Harmless(x)')
    BY <1>1, QuietLone
<1>3. CASE SchedulerRestart
    <2>1. /\ task' = [n \in Nodes |-> NoTask] /\ thread'.step = "idle"
          /\ UNCHANGED <<gate, life>>
        BY <1>3, Fresh DEF SchedulerRestart, nodeVars
    <2>2. ~NoTask.committed /\ NoTask.target = NoNode /\ NoTask.state = "none"
        BY DEF NoTask, NewTask
    <2>3. ASSUME NEW k \in Nodes PROVE TaskLone(k)'
        <3>1. task'[k] = NoTask /\ TaskLone(k)
            BY <2>1 DEF Lone, TasksLone
        <3> QED
            BY <2>1, <2>2, <3>1, DrainAssumption, Zenon DEF TaskLone
    <2>4. ThreadLone'
        BY <2>1 DEF ThreadLone
    <2> QED
        BY <1>2, <2>1, <2>3, <2>4 DEF Lone, TasksLone
<1>4. ASSUME NEW n \in Nodes, GateClose(n) \/ GateDurable(n) \/ NodeRestart(n) PROVE Lone'
    <2>1. n \in Drains
        BY <1>4 DEF GateClose, GateDurable, NodeRestart, Lone
    <2>2. \A k \in Nodes : k # n => gate'[k] = gate[k]
        BY <1>4 DEF GateClose, GateDurable, NodeRestart, IInv, TypeOK
    <2>3. UNCHANGED <<thread, task, life>>
        BY <1>4 DEF GateClose, GateDurable, NodeRestart, schedVars
    <2> QED
        BY <1>2, <2>1, <2>2, <2>3, RestLone, Zenon
<1>5. ASSUME NEW n \in Nodes, RemoveNode(n) \/ PlannedExit(n) \/ TickStart(n) PROVE Lone'
    <2>1. n \in Drains
        BY <1>5, Zenon DEF RemoveNode, PlannedExit, TickStart, Lone, TasksLone, TaskLone
    <2>2. UNCHANGED <<thread, gate>>
        BY <1>5 DEF RemoveNode, PlannedExit, TickStart, nodeVars
    <2>3. \A k \in Nodes : k # n => life'[k] = life[k]
        BY <1>5 DEF RemoveNode, PlannedExit, TickStart, IInv, TypeOK
    <2>4. \A k \in Nodes : task'[k] = task[k]
              \/ (k = n /\ task[k].state # "active" /\ task'[k] = NewTask)
        BY <1>5 DEF RemoveNode, PlannedExit, TickStart, IInv, TypeOK
    <2> QED
        BY <1>2, <2>1, <2>2, <2>3, <2>4, RestLone
<1>6. CASE Publish
    BY <1>2, <1>6, RestLone, Zenon DEF Publish, nodeVars, schedVars
<1> QED
    BY <1>3, <1>4, <1>5, <1>6

(* A request that outlived its caller. *)
LEMMA DeliverLone ==
    ASSUME IInv, Lone, \A m, n \in Drains : m = n, NEW m \in late, Deliver(m)
    PROVE  Lone'
<1>1. m \in Messages /\ Harmless(m) /\ late' \subseteq late
    BY DEF Deliver, Lone, IInv, TypeOK
<1>2. UNCHANGED <<thread, task, life>>
    BY DEF Deliver, schedVars
<1>3. ObjectsKept' /\ Stays /\ UNCHANGED gate
    <2>1. CASE Accepted(m)
        BY <1>1, <2>1, ExecuteLone DEF Deliver
    <2>2. CASE ~Accepted(m)
        BY <2>2 DEF Deliver, nodeVars, mdsVars, Lone, ObjectsKept, Stays
    <2> QED
        BY <2>1, <2>2
<1>4. \A x \in late' : Harmless(x)'
    BY <1>1, <1>3, StillHarmless DEF Lone, IInv, TypeOK
<1> QED
    BY <1>2, <1>3, <1>4, RestLone, Zenon

(* A client's step stores contents only. *)
LEMMA WriteLone ==
    ASSUME IInv, Lone, \A m, n \in Drains : m = n, Write
    PROVE  Lone'
<1>1. UNCHANGED <<gate, loc, life, task, thread, late>>
    BY Zenon DEF Write, WriteResolve, WriteAllocate, WriteAdmit, WriteStore, WriteCommit,
           WriteStat, WriteFail, nodeVars, mdsVars, schedVars
<1>2. \A n \in Nodes, o \in Objects : object'[n][o] \in {object[n][o], last}
    <2>1. CASE WriteStore
        <3>1. writer.node \in Nodes /\ writer.flight \in Objects
            BY <2>1 DEF WriteStore, IInv, WriterShape, TypeOK, Writers
        <3> QED
            BY <2>1, <3>1 DEF WriteStore, IInv, TypeOK
    <2>2. CASE ~WriteStore
        <3>1. UNCHANGED object
            BY <2>2, Zenon DEF Write, WriteResolve, WriteAllocate, WriteAdmit, WriteCommit,
               WriteStat, WriteFail, nodeVars
        <3> QED
            BY <3>1
    <2> QED
        BY <2>1, <2>2
<1>3. last # 0
    BY DrainAssumption DEF IInv, TypeOK
<1>4. ObjectsKept' /\ Stays
    BY <1>1, <1>2, <1>3, Numbers DEF Lone, ObjectsKept, Stays, IInv
<1>5. \A x \in late' : Harmless(x)'
    BY <1>1, <1>4, StillHarmless DEF Lone, IInv, TypeOK
<1> QED
    BY <1>1, <1>4, <1>5, RestLone

(* The tables of Init name the home of each file, where its objects are. *)
LEMMA InitLone == Init => Lone
<1> SUFFICES ASSUME Init PROVE Lone
    OBVIOUS
<1> USE DrainAssumption DEF Init
<1>1. ~NoTask.committed /\ NoTask.target = NoNode /\ NoTask.state = "none"
    BY DEF NoTask, NewTask
<1>2. TasksLone
    BY <1>1 DEF TasksLone, TaskLone
<1>3. ThreadLone
    BY Fresh DEF ThreadLone
<1>4. ObjectsKept
    BY DEF ObjectsKept
<1> QED
    BY <1>2, <1>3, <1>4 DEF Lone

(* Every step keeps Lone when one node is drained. *)
LEMMA StepLone ==
    ASSUME IInv, Lone, \A m, n \in Drains : m = n, [Next]_vars
    PROVE  Lone'
<1>1. CASE UNCHANGED vars
    <2>1. UNCHANGED <<gate, object, loc, late, task, thread, life>>
        BY <1>1 DEF vars, nodeVars, mdsVars, schedVars
    <2>2. ObjectsKept' /\ Stays /\ (\A x \in late' : Harmless(x)')
        BY <2>1, QuietLone
    <2> QED
        BY <2>1, <2>2, RestLone
<1>2. ASSUME NEW n \in Nodes, Migrate(n) PROVE Lone'
    BY <1>2, PlanLone, CallsLone DEF Migrate
<1>3. ASSUME NEW m \in late, Deliver(m) PROVE Lone'
    BY <1>3, DeliverLone
<1>4. CASE Write
    BY <1>4, WriteLone
<1>5. ASSUME NEW n \in Nodes,
             \/ GateClose(n) \/ GateDurable(n) \/ NodeRestart(n)
             \/ RemoveNode(n) \/ PlannedExit(n) \/ TickStart(n)
      PROVE  Lone'
    BY <1>5, OtherLone
<1>6. CASE Publish \/ SchedulerRestart
    BY <1>6, OtherLone
<1> QED
    BY <1>1, <1>2, <1>3, <1>4, <1>5, <1>6, Zenon DEF Next

(* With one drained node, the node the MDS names holds every object of the   *)
(* file, however many migration requests are executed after their caller     *)
(* timed out: DeleteSourceObject never removes the only copy.                *)
THEOREM LoneDrainSafe ==
    (\A m, n \in Drains : m = n) => (Spec => []ObjectsKept)
<1> SUFFICES ASSUME \A m, n \in Drains : m = n PROVE Spec => []ObjectsKept
    OBVIOUS
<1>1. IInv /\ Lone /\ [Next]_vars => Lone'
    BY StepLone
<1>2. Lone => ObjectsKept
    BY DEF Lone
<1> QED
    BY <1>1, <1>2, InitLone, Invariance, PTL DEF Spec
=============================================================================
