--------------------------- MODULE DrainMigration ---------------------------
(***************************************************************************)
(* The data plane of a physical storage node's drain.  The scheduler's one *)
(* migration thread (DrainMigrationCoordinator) fences the source node,    *)
(* lists its objects, and for each file copies the objects to a target,    *)
(* installs the file's metadata there, commits the new location in the MDS *)
(* and only then deletes the source.  Clients go on writing through FUSE,  *)
(* several nodes may be drained, calls fail, lose their reply or run late, *)
(* tasks are retried, and the scheduler restarts with no task in memory.   *)
(***************************************************************************)
EXTENDS Naturals, FiniteSets

CONSTANTS Nodes,        \* physical storage nodes
          Files,        \* inodes
          Objects,      \* stable objects of all files
          FileOf,       \* the inode of an object
          Home,         \* where each file lives at the start
          Drains,       \* the nodes that get drained in this instance
          NoNode, NoFile, NoObject,
          MaxWrites,    \* bound: client writes
          MaxRetries,   \* max_retries of the coordinator
          MaxLate,      \* bound: requests that outlive their caller's timeout
          MaxRestarts   \* bound: scheduler restarts and operator retries

ASSUME DrainAssumption ==
    /\ FileOf \in [Objects -> Files]
    /\ Home \in [Files -> Nodes]
    /\ Drains \subseteq Nodes
    /\ NoNode \notin Nodes /\ NoFile \notin Files /\ NoObject \notin Objects
    /\ MaxWrites \in Nat /\ MaxRetries \in Nat \ {0}
    /\ MaxLate \in Nat /\ MaxRestarts \in Nat

VARIABLES gate,      \* node: write admission, "open", "closed" or "durable"
          object,    \* node, object: its content, 0 when absent
          meta,      \* node, file: version in the node's file table, 0 when absent
          loc,       \* MDS: the file's authoritative disk location
          ver,       \* MDS: the version in the inode record
          admitted,  \* MDS: nodes the committed CMS catalog lets files move to
          life,      \* scheduler: managed lifecycle of a node
          task,      \* scheduler: the node's drain task
          thread,    \* scheduler: what the migration thread is doing
          writer,    \* a client's FUSE write in progress
          acked,     \* object: content of the last write that returned success
          last,      \* number of the last write begun (contents are numbered)
          late,      \* requests still running after their caller gave up
          restarts

nodeVars == <<gate, object, meta>>
mdsVars  == <<loc, ver, admitted>>
schedVars == <<life, task, thread, restarts>>
clientVars == <<writer, acked, last>>
vars == <<nodeVars, mdsVars, schedVars, clientVars, late>>

ObjectsOf(f) == {o \in Objects : FileOf[o] = f}

Contents == 0..(1 + MaxWrites)
Versions == 0..(1 + MaxWrites)

(* InternalTask: listed holds the objects of the work items not yet cleaned *)
(* up; cur, target and committed are those of the work item in hand.        *)
Tasks == [state : {"none", "active", "blocked", "drained"},
          enumerated : BOOLEAN, listed : SUBSET Objects,
          cur : Files \cup {NoFile}, target : Nodes \cup {NoNode},
          committed : BOOLEAN, retries : 0..MaxRetries]

NewTask == [state |-> "active", enumerated |-> FALSE, listed |-> {},
            cur |-> NoFile, target |-> NoNode, committed |-> FALSE, retries |-> 0]
NoTask == [NewTask EXCEPT !.state = "none"]

Steps == {"idle", "fence", "list", "owns", "select", "copy", "install",
          "commit", "delete", "cleanup"}
Threads == [node : Nodes \cup {NoNode}, step : Steps,
            todo : SUBSET Objects, ver : Versions]
ThreadIdle == [node |-> NoNode, step |-> "idle", todo |-> {}, ver |-> 0]

Writers == [at : {"idle", "resolved", "write", "stat", "unlocked"},
            file : Files \cup {NoFile}, node : Nodes \cup {NoNode},
            ver : Versions, objs : SUBSET Objects, todo : SUBSET Objects,
            flight : Objects \cup {NoObject}]
WriterIdle == [at |-> "idle", file |-> NoFile, node |-> NoNode, ver |-> 0,
               objs |-> {}, todo |-> {}, flight |-> NoObject]

(* Requests the migration sends that change state. *)
Messages ==
    [op : {"write"}, node : Nodes, file : Files, obj : Objects, val : Contents]
      \cup [op : {"install"}, node : Nodes, file : Files, val : Versions]
      \cup [op : {"commit"}, node : Nodes, file : Files, val : Versions, source : Nodes]
      \cup [op : {"delete"}, node : Nodes, file : Files, obj : Objects]
      \cup [op : {"cleanup"}, node : Nodes, file : Files]

Init ==
    /\ gate = [n \in Nodes |-> "open"]
    /\ object = [n \in Nodes |-> [o \in Objects |-> IF Home[FileOf[o]] = n THEN 1 ELSE 0]]
    /\ meta = [n \in Nodes |-> [f \in Files |-> IF Home[f] = n THEN 1 ELSE 0]]
    /\ loc = Home
    /\ ver = [f \in Files |-> 1]
    /\ admitted = Nodes
    /\ life = [n \in Nodes |-> "WORKING"]
    /\ task = [n \in Nodes |-> NoTask]
    /\ thread = ThreadIdle
    /\ writer = WriterIdle
    /\ acked = [o \in Objects |-> 1]
    /\ last = 1
    /\ late = {}
    /\ restarts = 0

-----------------------------------------------------------------------------
(* The data node. *)

(* BeginDataDrain sets the flag first, so that no new write is admitted... *)
GateClose(n) ==
    /\ n \in Drains
    /\ gate[n] = "open"
    /\ gate' = [gate EXCEPT ![n] = "closed"]
    /\ UNCHANGED <<object, meta, mdsVars, schedVars, clientVars, late>>

InFlight(n) == writer.node = n /\ writer.flight # NoObject

(* Fault: the marker is written without waiting for the admitted writes. *)
GateDurableNoWait(n) ==
    /\ gate[n] = "closed"
    /\ gate' = [gate EXCEPT ![n] = "durable"]
    /\ UNCHANGED <<object, meta, mdsVars, schedVars, clientVars, late>>

(* ...then waits for the writes inside the shared section and writes the   *)
(* marker file.                                                            *)
GateDurable(n) ==
    /\ gate[n] = "closed"
    /\ ~InFlight(n)
    /\ gate' = [gate EXCEPT ![n] = "durable"]
    /\ UNCHANGED <<object, meta, mdsVars, schedVars, clientVars, late>>

(* InitWriteAdmission: only the marker survives a restart of the node.     *)
(* FileWriteLocks are in memory: a write in progress there fails, and one  *)
(* that only has the MDS left to tell goes on without its lock.            *)
NodeRestart(n) ==
    /\ gate[n] = "closed"
    /\ gate' = [gate EXCEPT ![n] = "open"]
    /\ writer' = CASE writer.node = n /\ writer.at = "write" -> WriterIdle
                   [] writer.node = n /\ writer.at = "stat" -> [writer EXCEPT !.at = "unlocked"]
                   [] OTHER -> writer
    /\ UNCHANGED <<object, meta, mdsVars, schedVars, acked, last, late>>

(* FileWriteLocks: a FUSE write holds the file's lock on its node. *)
Locked(n, f) == writer.at \in {"write", "stat"} /\ writer.node = n /\ writer.file = f

-----------------------------------------------------------------------------
(* What a migration request does where it arrives, whenever that is. *)

WriteAccepted(m) == gate[m.node] = "open"

(* InstallMigratedFile: the objects have their lengths, and the target has *)
(* no other version of the file.                                           *)
InstallAccepted(m) ==
    /\ gate[m.node] = "open"
    /\ \A o \in ObjectsOf(m.file) : object[m.node][o] # 0
    /\ meta[m.node][m.file] \in {0, m.val}

(* CommitFileMigration in the MDS. *)
CommitAccepted(m) ==
    /\ m.node \in admitted
    /\ ver[m.file] = m.val
    /\ loc[m.file] \in {m.node, m.source}

Accepted(m) ==
    CASE m.op = "write"   -> WriteAccepted(m)
      [] m.op = "install" -> InstallAccepted(m)
      [] m.op = "commit"  -> CommitAccepted(m)
      [] m.op \in {"delete", "cleanup"} -> ~Locked(m.node, m.file)

Apply(m) ==
    /\ object' = CASE m.op = "write"  -> [object EXCEPT ![m.node][m.obj] = m.val]
                   [] m.op = "delete" -> [object EXCEPT ![m.node][m.obj] = 0]
                   [] OTHER -> object
    /\ meta' = CASE m.op = "install" -> [meta EXCEPT ![m.node][m.file] = m.val]
                 [] m.op = "cleanup" -> [meta EXCEPT ![m.node][m.file] = 0]
                 [] OTHER -> meta
    /\ loc' = IF m.op = "commit" THEN [loc EXCEPT ![m.file] = m.node] ELSE loc
    /\ UNCHANGED <<gate, ver, admitted>>

Confirmed(m) == Accepted(m) /\ Apply(m) /\ UNCHANGED late

(* The call failed: it was refused or never arrived, only its reply was    *)
(* lost, or it is still queued at the server when the caller times out.    *)
Unconfirmed(m) ==
    \/ UNCHANGED <<nodeVars, mdsVars, late>>
    \/ Confirmed(m)
    \/ /\ Cardinality(late) < MaxLate
       /\ late' = late \cup {m}
       /\ UNCHANGED <<nodeVars, mdsVars>>

Deliver(m) ==
    /\ m \in late
    /\ late' = late \ {m}
    /\ IF Accepted(m) THEN Apply(m) ELSE UNCHANGED <<nodeVars, mdsVars>>
    /\ UNCHANGED <<schedVars, clientVars>>

-----------------------------------------------------------------------------
(* The scheduler. *)

(* RemoveManagedNode: BeginManagedDrain returns once the node has confirmed *)
(* its durable gate, then Start.  A blocked task may be started again.      *)
RemoveNode(n) ==
    /\ gate[n] = "durable"
    /\ task[n].state \in {"none", "blocked"}
    /\ task[n].state = "blocked" => restarts < MaxRestarts
    /\ restarts' = IF task[n].state = "blocked" THEN restarts + 1 ELSE restarts
    /\ life' = [life EXCEPT ![n] = "DRAINING"]
    /\ task' = [task EXCEPT ![n] = NewTask]
    /\ UNCHANGED <<nodeVars, mdsVars, thread, clientVars, late>>

(* TickMatchingLocked: the planned exit time passes; no gate is closed yet. *)
PlannedExit(n) ==
    /\ n \in Drains
    /\ life[n] = "WORKING"
    /\ life' = [life EXCEPT ![n] = "DRAINING"]
    /\ UNCHANGED <<nodeVars, mdsVars, task, thread, restarts, clientVars, late>>

(* The tick thread starts a task for a draining node that has none. *)
TickStart(n) ==
    /\ life[n] = "DRAINING"
    /\ task[n].state = "none"
    /\ task' = [task EXCEPT ![n] = NewTask]
    /\ UNCHANGED <<nodeVars, mdsVars, life, thread, restarts, clientVars, late>>

(* CmsNodeCatalogPublisher::Publish, by the tick thread. *)
Publish ==
    /\ admitted' = {n \in Nodes : life[n] = "WORKING"}
    /\ admitted' # admitted
    /\ UNCHANGED <<nodeVars, loc, ver, schedVars, clientVars, late>>

(* The process dies with its tasks; the managed snapshot brings the        *)
(* lifecycle back, and requests already sent are not recalled.             *)
SchedulerRestart ==
    /\ restarts < MaxRestarts
    /\ restarts' = restarts + 1
    /\ task' = [n \in Nodes |-> NoTask]
    /\ thread' = ThreadIdle
    /\ UNCHANGED <<nodeVars, mdsVars, life, clientVars, late>>

(* Fault: the retry limit is never applied. *)
RetryForever(n) ==
    /\ task' = [task EXCEPT ![n].retries = IF @ < MaxRetries THEN @ + 1 ELSE @]
    /\ thread' = ThreadIdle

(* Fault: a task blocks one retry too late. *)
RetryOneMore(n) ==
    LET r == task[n].retries + 1 IN
    /\ task' = [task EXCEPT ![n].retries = r,
                            ![n].state = IF r > MaxRetries THEN "blocked" ELSE @]
    /\ thread' = ThreadIdle

(* RetryLocked, and Tick moves on: retry_count is never reset. *)
Retry(n) ==
    LET r == task[n].retries + 1 IN
    /\ task' = [task EXCEPT ![n].retries = r,
                            ![n].state = IF r >= MaxRetries THEN "blocked" ELSE @]
    /\ thread' = ThreadIdle

At(n, step) == thread.node = n /\ thread.step = step
Goto(step) == thread' = [thread EXCEPT !.step = step]

(* Tick takes a task and continues its work item, or the next one. *)
TickTask(n) ==
    /\ thread = ThreadIdle
    /\ task[n].state = "active"
    /\ \/ /\ ~task[n].enumerated
          /\ thread' = [ThreadIdle EXCEPT !.node = n, !.step = "fence"]
          /\ UNCHANGED task
       \/ /\ task[n].enumerated /\ task[n].cur # NoFile
          /\ thread' = [ThreadIdle EXCEPT !.node = n,
                           !.step = IF task[n].committed THEN "delete" ELSE "owns"]
          /\ UNCHANGED task
       \/ /\ task[n].enumerated /\ task[n].cur = NoFile
          /\ \E o \in task[n].listed :
                task' = [task EXCEPT ![n].cur = FileOf[o]]
          /\ thread' = [ThreadIdle EXCEPT !.node = n, !.step = "owns"]
    /\ UNCHANGED <<nodeVars, mdsVars, life, restarts, clientVars, late>>

(* Fault: a gate that is only closed in memory is taken for a confirmed one. *)
FenceClosed(n) ==
    /\ At(n, "fence")
    /\ \/ gate[n] # "open" /\ Goto("list") /\ UNCHANGED task
       \/ Retry(n)
    /\ UNCHANGED <<nodeVars, mdsVars, life, restarts, clientVars, late>>

(* EnumerateLocked confirms the durable gate before it lists anything. *)
Fence(n) ==
    /\ At(n, "fence")
    /\ \/ gate[n] = "durable" /\ Goto("list") /\ UNCHANGED task
       \/ Retry(n)
    /\ UNCHANGED <<nodeVars, mdsVars, life, restarts, clientVars, late>>

Listed(n) == {o \in Objects : object[n][o] # 0}

List(n) ==
    /\ At(n, "list")
    /\ \/ /\ task' = [task EXCEPT ![n].enumerated = TRUE, ![n].listed = Listed(n),
                         ![n].state = IF Listed(n) = {} THEN "drained" ELSE @]
          /\ thread' = ThreadIdle
       \/ Retry(n)
    /\ UNCHANGED <<nodeVars, mdsVars, life, restarts, clientVars, late>>

(* Fault: a retry of an uncommitted work item does not ask the MDS again. *)
OwnsUnasked(n) ==
    /\ At(n, "owns")
    /\ Goto(IF task[n].target = NoNode THEN "select" ELSE "copy")
    /\ UNCHANGED <<nodeVars, mdsVars, task, life, restarts, clientVars, late>>

(* SourceStillOwnsFile: a file that lives elsewhere is only cleaned up. *)
Owns(n) ==
    /\ At(n, "owns")
    /\ \/ /\ loc[task[n].cur] = n
          /\ Goto(IF task[n].target = NoNode THEN "select" ELSE "copy")
          /\ UNCHANGED task
       \/ /\ loc[task[n].cur] # n
          /\ task' = [task EXCEPT ![n].committed = TRUE]
          /\ Goto("delete")
       \/ Retry(n)
    /\ UNCHANGED <<nodeVars, mdsVars, life, restarts, clientVars, late>>

(* SelectTargetLocked; health, power and capacity may rule every node out. *)
Select(n) ==
    /\ At(n, "select")
    /\ \/ \E t \in Nodes \ {n} :
             /\ life[t] = "WORKING"
             /\ task' = [task EXCEPT ![n].target = t]
             /\ Goto("copy")
       \/ Retry(n)
    /\ UNCHANGED <<nodeVars, mdsVars, life, restarts, clientVars, late>>

Pending(n) == {o \in task[n].listed : FileOf[o] = task[n].cur}

WriteMsg(n, o) == [op |-> "write", node |-> task[n].target, file |-> FileOf[o],
                   obj |-> o, val |-> object[n][o]]

(* CopyAndVerify one object; thread.todo holds the objects already copied. *)
Copy(n) ==
    /\ At(n, "copy")
    /\ \/ /\ Pending(n) \subseteq thread.todo
          /\ Goto("install")
          /\ UNCHANGED <<nodeVars, mdsVars, late, task>>
       \/ \E o \in Pending(n) \ thread.todo :
             /\ object[n][o] # 0
             /\ \/ /\ Confirmed(WriteMsg(n, o))
                   /\ thread' = [thread EXCEPT !.todo = @ \cup {o}]
                   /\ UNCHANGED task
                \/ Unconfirmed(WriteMsg(n, o)) /\ Retry(n)
       \/ /\ \E o \in Pending(n) \ thread.todo : object[n][o] = 0
          /\ Retry(n)
          /\ UNCHANGED <<nodeVars, mdsVars, late>>
    /\ UNCHANGED <<life, restarts, clientVars>>

(* Fault: the target gets a fresh record instead of the source's version. *)
InstallMsgFresh(n) == [op |-> "install", node |-> task[n].target,
                       file |-> task[n].cur, val |-> 1]

InstallMsg(n) == [op |-> "install", node |-> task[n].target, file |-> task[n].cur,
                  val |-> meta[n][task[n].cur]]

(* CommitFileLocation, first half: read the source's frozen metadata and   *)
(* install it on the target.                                               *)
Install(n) ==
    /\ At(n, "install")
    /\ \/ /\ meta[n][task[n].cur] # 0
          /\ \/ /\ Confirmed(InstallMsg(n))
                /\ thread' = [thread EXCEPT !.step = "commit", !.ver = meta[n][task[n].cur]]
                /\ UNCHANGED task
             \/ Unconfirmed(InstallMsg(n)) /\ Retry(n)
       \/ /\ meta[n][task[n].cur] = 0
          /\ Retry(n)
          /\ UNCHANGED <<nodeVars, mdsVars, late>>
    /\ UNCHANGED <<life, restarts, clientVars>>

CommitMsg(n) == [op |-> "commit", node |-> task[n].target, file |-> task[n].cur,
                 val |-> thread.ver, source |-> n]

(* Fault: a location commit that timed out is taken for a commit. *)
CommitAssumed(n) ==
    /\ At(n, "commit")
    /\ Confirmed(CommitMsg(n)) \/ Unconfirmed(CommitMsg(n))
    /\ task' = [task EXCEPT ![n].committed = TRUE]
    /\ Goto("delete")
    /\ UNCHANGED <<life, restarts, clientVars>>

(* CommitFileLocation, second half: the conditional commit in the MDS. *)
Commit(n) ==
    /\ At(n, "commit")
    /\ \/ /\ Confirmed(CommitMsg(n))
          /\ task' = [task EXCEPT ![n].committed = TRUE]
          /\ Goto("delete")
       \/ Unconfirmed(CommitMsg(n)) /\ Retry(n)
    /\ UNCHANGED <<life, restarts, clientVars>>

DeleteMsg(n, o) == [op |-> "delete", node |-> n, file |-> FileOf[o], obj |-> o]

(* DeleteSourceObject for each object of the work item. *)
Delete(n) ==
    /\ At(n, "delete")
    /\ \/ /\ Pending(n) = {}
          /\ Goto("cleanup")
          /\ UNCHANGED <<nodeVars, mdsVars, late, task>>
       \/ \E o \in Pending(n) :
             \/ /\ Confirmed(DeleteMsg(n, o))
                /\ task' = [task EXCEPT ![n].listed = @ \ {o}]
                /\ UNCHANGED thread
             \/ Unconfirmed(DeleteMsg(n, o)) /\ Retry(n)
    /\ UNCHANGED <<life, restarts, clientVars>>

CleanupMsg(n) == [op |-> "cleanup", node |-> n, file |-> task[n].cur]

(* CleanupSourceFile ends the work item; after the last one the task goes  *)
(* on to CompleteLocked (module DrainCloseout).                            *)
Cleanup(n) ==
    /\ At(n, "cleanup")
    /\ \/ /\ Confirmed(CleanupMsg(n))
          /\ task' = [task EXCEPT ![n].cur = NoFile, ![n].target = NoNode,
                         ![n].committed = FALSE,
                         ![n].state = IF task[n].listed = {} THEN "drained" ELSE @]
          /\ thread' = ThreadIdle
       \/ Unconfirmed(CleanupMsg(n)) /\ Retry(n)
    /\ UNCHANGED <<life, restarts, clientVars>>

-----------------------------------------------------------------------------
(* A FUSE write (FuseWriteImpl). *)

(* GetFileLocationView. *)
WriteResolve(f) ==
    /\ writer = WriterIdle
    /\ last < 1 + MaxWrites
    /\ writer' = [WriterIdle EXCEPT !.at = "resolved", !.file = f, !.node = loc[f]]
    /\ UNCHANGED <<nodeVars, mdsVars, schedVars, acked, last, late>>

(* AcquireFileWriteLock and AllocateFileWrite on the resolved node: the    *)
(* plan carries the node's file version.                                   *)
WriteAllocate ==
    /\ writer.at = "resolved"
    /\ gate[writer.node] = "open"
    /\ \E objs \in (SUBSET ObjectsOf(writer.file)) \ {{}} :
          writer' = [writer EXCEPT !.at = "write", !.ver = meta[writer.node][writer.file],
                                   !.objs = objs, !.todo = objs]
    /\ last' = last + 1
    /\ UNCHANGED <<nodeVars, mdsVars, schedVars, acked, late>>

(* WriteObject passes the gate and enters the shared section... *)
WriteAdmit ==
    /\ writer.at = "write" /\ writer.flight = NoObject
    /\ gate[writer.node] = "open"
    /\ \E o \in writer.todo : writer' = [writer EXCEPT !.flight = o]
    /\ UNCHANGED <<nodeVars, mdsVars, schedVars, acked, last, late>>

(* ...and writes the object. *)
WriteStore ==
    /\ writer.flight # NoObject
    /\ object' = [object EXCEPT ![writer.node][writer.flight] = last]
    /\ writer' = [writer EXCEPT !.flight = NoObject, !.todo = @ \ {writer.flight}]
    /\ UNCHANGED <<gate, meta, mdsVars, schedVars, acked, last, late>>

(* ApplyFileMetaInternal under CommitFileWrite's gate: version check, with *)
(* zero meaning no expectation.                                            *)
WriteCommit ==
    /\ writer.at = "write" /\ writer.flight = NoObject /\ writer.todo = {}
    /\ gate[writer.node] = "open"
    /\ writer.ver = 0 \/ writer.ver = meta[writer.node][writer.file]
    /\ LET v == meta[writer.node][writer.file] + 1 IN
          /\ meta' = [meta EXCEPT ![writer.node][writer.file] = v]
          /\ writer' = [writer EXCEPT !.at = "stat", !.ver = v]
    /\ UNCHANGED <<gate, object, mdsVars, schedVars, acked, last, late>>

(* UpdateInodeStat may be refused as stale or fail; the write succeeds     *)
(* either way, and the lock is released.                                   *)
WriteStat ==
    /\ writer.at \in {"stat", "unlocked"}
    /\ \/ writer.ver >= ver[writer.file] /\ ver' = [ver EXCEPT ![writer.file] = writer.ver]
       \/ UNCHANGED ver
    /\ acked' = [o \in Objects |-> IF o \in writer.objs THEN last ELSE acked[o]]
    /\ writer' = WriterIdle
    /\ UNCHANGED <<nodeVars, loc, admitted, schedVars, last, late>>

(* Any call before the commit may fail; the write returns an error. *)
WriteFail ==
    /\ writer.at \in {"resolved", "write"} /\ writer.flight = NoObject
    /\ writer' = WriterIdle
    /\ UNCHANGED <<nodeVars, mdsVars, schedVars, acked, last, late>>

-----------------------------------------------------------------------------
Write == \/ \E f \in Files : WriteResolve(f)
         \/ WriteAllocate \/ WriteAdmit \/ WriteStore \/ WriteCommit \/ WriteStat
         \/ WriteFail

Migrate(n) == \/ TickTask(n) \/ Fence(n) \/ List(n) \/ Owns(n) \/ Select(n)
              \/ Copy(n) \/ Install(n) \/ Commit(n) \/ Delete(n) \/ Cleanup(n)

Next ==
    \/ \E n \in Nodes :
          \/ GateClose(n) \/ GateDurable(n) \/ NodeRestart(n)
          \/ RemoveNode(n) \/ PlannedExit(n) \/ TickStart(n)
          \/ Migrate(n)
    \/ Publish \/ SchedulerRestart
    \/ \E m \in late : Deliver(m)
    \/ Write

Spec == Init /\ [][Next]_vars

(* The migration thread and the tick thread run for ever (scheduler_server *)
(* loops).                                                                 *)
FairSpec ==
    /\ Spec
    /\ \A n \in Drains : WF_vars(TickStart(n)) /\ WF_vars(Migrate(n))

-----------------------------------------------------------------------------
TypeOK ==
    /\ gate \in [Nodes -> {"open", "closed", "durable"}]
    /\ object \in [Nodes -> [Objects -> Contents]]
    /\ meta \in [Nodes -> [Files -> Versions]]
    /\ loc \in [Files -> Nodes]
    /\ ver \in [Files -> Versions]
    /\ admitted \subseteq Nodes
    /\ life \in [Nodes -> {"WORKING", "DRAINING"}]
    /\ task \in [Nodes -> Tasks]
    /\ thread \in Threads
    /\ writer \in Writers
    /\ acked \in [Objects -> Contents]
    /\ last \in 1..(1 + MaxWrites)
    /\ late \subseteq Messages
    /\ restarts \in 0..MaxRestarts

(* Every object of a file is on the node the MDS names, with the content   *)
(* of the last write that returned success or of a later one: no copy,     *)
(* commit, deletion, retry or restart of a drain loses an acknowledged     *)
(* write.                                                                  *)
AckedKept == \A o \in Objects : object[loc[FileOf[o]]][o] >= acked[o]

(* The node the MDS names holds every object of the file: source objects   *)
(* are never deleted before the location commit.                           *)
ObjectsKept == \A o \in Objects : object[loc[FileOf[o]]][o] # 0

(* The node the MDS names has the file's metadata, at a version the inode  *)
(* record has not overtaken, so UpdateInodeStat never describes a file the *)
(* node does not have.                                                     *)
VersionKept == \A f \in Files : meta[loc[f]][f] >= ver[f]

(* A node that confirmed its gate never takes content or metadata again,   *)
(* whatever was in flight when the gate closed and however late a request  *)
(* arrives: its objects and file versions only disappear.                  *)
FrozenSource ==
    [][\A n \in Nodes : gate[n] = "durable" =>
          /\ \A o \in Objects : object'[n][o] \in {0, object[n][o]}
          /\ \A f \in Files : meta'[n][f] \in {0, meta[n][f]}
          /\ gate'[n] = "durable"]_vars

(* While a file stays where it is, the content of its objects there never  *)
(* goes back: a retried or restarted drain does not put the source's old   *)
(* bytes over what clients have since written to the target.               *)
NoRollback ==
    [][\A o \in Objects : loc'[FileOf[o]] = loc[FileOf[o]] =>
          object'[loc[FileOf[o]]][o] >= object[loc[FileOf[o]]][o]]_vars

(* A drain task does not run for ever: retries included it ends drained or *)
(* blocked, or the scheduler restarts.                                     *)
TaskEnds == \A n \in Drains : task[n].state = "active" ~> task[n].state # "active"
=============================================================================
