--------------------------- MODULE DrainDataProofs ---------------------------
(***************************************************************************)
(* Proofs about DrainMigration for any nodes, any number of them drained at *)
(* a time, any files, objects, writes, retries and restarts, while no       *)
(* request outlives its caller (MaxLate = 0): no acknowledged write,        *)
(* version or object is lost or rolled back.                                *)
(***************************************************************************)
EXTENDS DrainMigrationProofs, FiniteSetTheorems

(* What a drain keeps while no request outlives its caller's timeout.      *)

(* A task that has listed its node has fenced it, and has every object of   *)
(* the files that live there on its list.  A work item that is taken for    *)
(* committed has left the node.                                             *)
TaskFits(n) ==
    /\ task[n].target # n
    /\ task[n].enumerated =>
          /\ gate[n] = "durable"
          /\ \A f \in Files : loc[f] = n => ObjectsOf(f) \subseteq task[n].listed
    /\ task[n].committed =>
          task[n].enumerated /\ task[n].cur \in Files /\ loc[task[n].cur] # n
TasksFit == \A n \in Nodes : TaskFits(n)

(* The stages of a copy: the file is on the source, what is copied is the   *)
(* source's, and before the location commit all of it is.                   *)
ThreadFits ==
    /\ thread.step = "list" => gate[thread.node] = "durable"
    /\ thread.step \notin {"idle", "fence", "list"} => task[thread.node].enumerated
    /\ thread.step \in {"owns", "select"} => thread.todo = {}
    /\ thread.step \in {"select", "copy", "install", "commit"} => loc[Moving] = thread.node
    /\ thread.step \in {"copy", "install", "commit"} =>
          /\ thread.todo \subseteq ObjectsOf(Moving)
          /\ \A o \in thread.todo : object[Target][o] = object[thread.node][o]
    /\ thread.step \in {"install", "commit"} => ObjectsOf(Moving) \subseteq thread.todo
    /\ thread.step = "commit" =>
          /\ meta[Target][Moving] = thread.ver /\ meta[thread.node][Moving] = thread.ver
          /\ ~task[Target].enumerated
          /\ ~(writer.at # "idle" /\ writer.file = Moving /\ writer.node = Target)
    /\ thread.step \in {"delete", "cleanup"} => task[thread.node].committed

(* A write goes to the node the MDS names, or to one that takes no more of  *)
(* it; what it has stored there is there until it returns.                  *)
WriterFits ==
    /\ writer.at # "idle" =>
          /\ writer.objs \subseteq ObjectsOf(writer.file)
          /\ loc[writer.file] = writer.node \/ gate[writer.node] = "durable"
    /\ writer.todo \subseteq writer.objs
    /\ writer.flight # NoObject => writer.flight \in writer.todo
    /\ writer.at \in {"stat", "unlocked"} =>
          /\ loc[writer.file] = writer.node
          /\ meta[writer.node][writer.file] = writer.ver
          /\ ver[writer.file] < writer.ver
          /\ writer.todo = {}
    /\ writer.at # "idle" /\ loc[writer.file] = writer.node =>
          \A o \in writer.objs \ writer.todo : object[writer.node][o] = last

(* Contents are numbers of writes begun. *)
Numbered ==
    /\ \A n \in Nodes, o \in Objects : object[n][o] <= last
    /\ \A o \in Objects : 1 <= acked[o] /\ acked[o] <= last

Kept == WriterFits /\ Numbered /\ AckedKept /\ VersionKept
Sound == late = {} /\ TasksFit /\ ThreadFits /\ Kept

(* A step that leaves a file where it is does not put its content back. *)
NotBack ==
    \A o \in Objects : loc'[FileOf[o]] = loc[FileOf[o]] =>
        object'[loc[FileOf[o]]][o] >= object[loc[FileOf[o]]][o]

-----------------------------------------------------------------------------
(* Where no request is left behind, a call either has its effect or none. *)
LEMMA CallCases ==
    ASSUME MaxLate = 0, late = {}, NEW m, Confirmed(m) \/ Unconfirmed(m)
    PROVE  /\ late' = {}
           /\ Confirmed(m) \/ UNCHANGED <<nodeVars, mdsVars, late>>
<1>1. ~(Cardinality(late) < MaxLate)
    BY FS_EmptySet
<1> QED
    BY <1>1 DEF Unconfirmed, Confirmed

(* No table changes: what is kept is kept. *)
LEMMA QuietFits ==
    ASSUME IInv, Kept, UNCHANGED <<gate, object, meta, loc, ver, writer, acked, last>>
    PROVE  Kept' /\ NotBack
<1>1. Kept'
    BY DEF Kept, WriterFits, Numbered, AckedKept, VersionKept
<1>2. NotBack
    BY Numbers DEF NotBack, IInv
<1> QED
    BY <1>1, <1>2

(* Tasks with the same work item fit the same tables. *)
LEMMA SameFits ==
    ASSUME TasksFit, SameWork, loc' = loc,
           \A n \in Nodes : gate[n] = "durable" => gate'[n] = "durable"
    PROVE  TasksFit'
BY DEF TasksFit, TaskFits, SameWork

(* So do the tasks that a step leaves alone... *)
LEMMA TasksStay ==
    ASSUME Sound, UNCHANGED <<gate, loc, task>>
    PROVE  TasksFit'
BY Zenon DEF Sound, TasksFit, TaskFits

(* ...or changes one of. *)
LEMMA OneTask ==
    ASSUME Sound, NEW n \in Nodes, \A k \in Nodes : k # n => task'[k] = task[k],
           UNCHANGED <<gate, loc>>, TaskFits(n) => TaskFits(n)'
    PROVE  TasksFit'
<1> SUFFICES ASSUME NEW k \in Nodes PROVE TaskFits(k)'
    BY DEF TasksFit
<1>1. TaskFits(n) /\ TaskFits(k)
    BY DEF Sound, TasksFit
<1>2. CASE k # n
    BY <1>1, <1>2, Zenon DEF TaskFits
<1> QED
    BY <1>1, <1>2

(* A step that touches a file's copies only away from the node that the    *)
(* MDS names keeps what is kept.                                           *)
LEMMA AwayFits ==
    ASSUME IInv, Kept, UNCHANGED <<gate, loc, ver, clientVars>>,
           \A o \in Objects : object'[loc[FileOf[o]]][o] = object[loc[FileOf[o]]][o],
           \A f \in Files : meta'[loc[f]][f] = meta[loc[f]][f],
           \A n \in Nodes, o \in Objects : object'[n][o] <= last
    PROVE  Kept' /\ NotBack
<1>1. UNCHANGED <<writer, acked, last>>
    BY DEF clientVars
<1>2. NotBack
    BY Numbers DEF NotBack, IInv
<1>3. AckedKept' /\ VersionKept' /\ Numbered'
    BY <1>1 DEF Kept, AckedKept, VersionKept, Numbered
<1>4. writer.at # "idle" => writer.file \in Files
    BY DEF IInv, WriterShape
<1>5. writer.at # "idle" =>
         \A o \in writer.objs : o \in Objects /\ FileOf[o] = writer.file
    BY DEF Kept, WriterFits, ObjectsOf
<1>6. WriterFits'
    <2>1. writer.at \in {"stat", "unlocked"} => meta'[writer.node][writer.file] = writer.ver
        BY <1>4 DEF Kept, WriterFits
    <2>2. writer.at # "idle" /\ loc[writer.file] = writer.node =>
             \A o \in writer.objs \ writer.todo : object'[writer.node][o] = last
        BY <1>4, <1>5 DEF Kept, WriterFits
    <2> QED
        BY <1>1, <2>1, <2>2 DEF Kept, WriterFits
<1> QED
    BY <1>2, <1>3, <1>6 DEF Kept

(* What the thread works on. *)
LEMMA ThreadFacts ==
    ASSUME IInv, Sound, NEW n \in Nodes, thread.node = n,
           thread.step \notin {"idle", "fence", "list"}
    PROVE  /\ task[n] \in Tasks /\ task[n].cur \in Files /\ task[n].enumerated
           /\ gate[n] = "durable" /\ Moving = task[n].cur /\ Target = task[n].target
           /\ task[n].target # n
           /\ thread.step \in {"copy", "install", "commit"} => task[n].target \in Nodes
           /\ thread.step \in {"select", "copy", "install", "commit"} => loc[task[n].cur] = n
           /\ thread.step \in {"delete", "cleanup"} => loc[task[n].cur] # n
           /\ \A o \in Pending(n) : o \in Objects /\ FileOf[o] = task[n].cur
BY DEF IInv, TypeOK, ThreadShape, Sound, TasksFit, TaskFits, ThreadFits, Moving, Target, Pending, Tasks

(* CopyAndVerify writes to a node that the file does not live on. *)
LEMMA CopyAway ==
    ASSUME IInv, Sound, NEW n \in Nodes, thread.node = n, thread.step = "copy",
           NEW o \in Pending(n), Confirmed(WriteMsg(n, o)), UNCHANGED clientVars
    PROVE  /\ Kept' /\ NotBack /\ UNCHANGED <<gate, meta, loc>>
           /\ object'[task[n].target][o] = object[n][o] /\ object'[n] = object[n]
           /\ \A p \in Objects : p # o => object'[task[n].target][p] = object[task[n].target][p]
<1> DEFINE t == task[n].target
<1>1. /\ t \in Nodes /\ t # n /\ o \in Objects /\ FileOf[o] = task[n].cur
      /\ loc[FileOf[o]] = n
    BY ThreadFacts
<1>2. /\ object' = [object EXCEPT ![t][o] = object[n][o]]
      /\ UNCHANGED <<gate, meta, loc, ver>>
    BY DEF Confirmed, Apply, WriteMsg
<1>3. /\ object'[t][o] = object[n][o] /\ object'[n] = object[n]
      /\ \A p \in Objects : p # o => object'[t][p] = object[t][p]
      /\ \A k \in Nodes : k # t => object'[k] = object[k]
    BY <1>1, <1>2 DEF IInv, TypeOK
<1>4. \A p \in Objects : object'[loc[FileOf[p]]][p] = object[loc[FileOf[p]]][p]
    BY <1>1, <1>3, Numbers DEF IInv
<1>5. \A k \in Nodes, p \in Objects : object'[k][p] <= last
    BY <1>1, <1>3 DEF Sound, Kept, Numbered
<1> QED
    BY <1>2, <1>3, <1>4, <1>5, AwayFits DEF Sound

(* InstallMigratedFile too. *)
LEMMA InstallAway ==
    ASSUME IInv, Sound, NEW n \in Nodes, thread.node = n, thread.step = "install",
           Confirmed(InstallMsg(n)), UNCHANGED clientVars
    PROVE  /\ Kept' /\ NotBack /\ UNCHANGED <<gate, object, loc>>
           /\ meta'[task[n].target][task[n].cur] = meta[n][task[n].cur]
           /\ meta'[n] = meta[n] /\ gate[task[n].target] = "open"
<1> DEFINE t == task[n].target
           f == task[n].cur
<1>1. t \in Nodes /\ t # n /\ f \in Files /\ loc[f] = n
    BY ThreadFacts
<1>2. /\ meta' = [meta EXCEPT ![t][f] = meta[n][f]]
      /\ UNCHANGED <<gate, object, loc, ver>>
    BY DEF Confirmed, Apply, InstallMsg
<1>3. gate[t] = "open"
    BY DEF Confirmed, Accepted, InstallAccepted, InstallMsg
<1>4. /\ meta'[t][f] = meta[n][f] /\ meta'[n] = meta[n]
      /\ \A g \in Files : meta'[loc[g]][g] = meta[loc[g]][g]
    BY <1>1, <1>2 DEF IInv, TypeOK
<1>5. \A k \in Nodes, p \in Objects : object'[k][p] <= last
    BY <1>2 DEF Sound, Kept, Numbered
<1> QED
    BY <1>2, <1>3, <1>4, <1>5, AwayFits DEF Sound

(* DeleteSourceObject works on a node that the file has left... *)
LEMMA DeleteAway ==
    ASSUME IInv, Sound, NEW n \in Nodes, thread.node = n, thread.step = "delete",
           NEW o \in Pending(n), Confirmed(DeleteMsg(n, o)), UNCHANGED clientVars
    PROVE  Kept' /\ NotBack /\ UNCHANGED <<gate, meta, loc>>
<1>1. o \in Objects /\ loc[FileOf[o]] # n
    BY ThreadFacts
<1>2. object' = [object EXCEPT ![n][o] = 0] /\ UNCHANGED <<gate, meta, loc, ver>>
    BY DEF Confirmed, Apply, DeleteMsg
<1>3. \A p \in Objects : object'[loc[FileOf[p]]][p] = object[loc[FileOf[p]]][p]
    BY <1>1, <1>2, Numbers DEF IInv, TypeOK
<1>4. \A k \in Nodes, p \in Objects : object'[k][p] \in {0, object[k][p]}
    BY <1>2 DEF IInv, TypeOK
<1>5. \A k \in Nodes, p \in Objects : object'[k][p] <= last
    BY <1>4, Numbers DEF Sound, Kept, Numbered, IInv
<1> QED
    BY <1>2, <1>3, <1>5, AwayFits DEF Sound

(* ...and so does CleanupSourceFile. *)
LEMMA CleanupAway ==
    ASSUME IInv, Sound, NEW n \in Nodes, thread.node = n, thread.step = "cleanup",
           Confirmed(CleanupMsg(n)), UNCHANGED clientVars
    PROVE  Kept' /\ NotBack /\ UNCHANGED <<gate, object, loc>>
<1> DEFINE f == task[n].cur
<1>1. f \in Files /\ loc[f] # n
    BY ThreadFacts
<1>2. meta' = [meta EXCEPT ![n][f] = 0] /\ UNCHANGED <<gate, object, loc, ver>>
    BY DEF Confirmed, Apply, CleanupMsg
<1>3. \A g \in Files : meta'[loc[g]][g] = meta[loc[g]][g]
    BY <1>1, <1>2 DEF IInv, TypeOK
<1>4. \A k \in Nodes, p \in Objects : object'[k][p] <= last
    BY <1>2 DEF Sound, Kept, Numbered
<1> QED
    BY <1>2, <1>3, <1>4, AwayFits DEF Sound

(* The location commit: the target has all that the source has, and the    *)
(* MDS has heard of every version of the file, so no write is unreported.  *)
LEMMA CommitMoves ==
    ASSUME IInv, Sound, NEW n \in Nodes, thread.node = n, thread.step = "commit",
           Confirmed(CommitMsg(n)), UNCHANGED clientVars
    PROVE  /\ Kept' /\ NotBack /\ UNCHANGED <<gate, object, meta>>
           /\ loc' = [loc EXCEPT ![task[n].cur] = task[n].target]
<1> DEFINE t == task[n].target
           f == task[n].cur
<1>1. t \in Nodes /\ t # n /\ f \in Files /\ loc[f] = n /\ gate[n] = "durable"
    BY ThreadFacts
<1>2. loc' = [loc EXCEPT ![f] = t] /\ UNCHANGED <<gate, object, meta, ver>>
    BY DEF Confirmed, Apply, CommitMsg, nodeVars
<1>3. ver[f] = thread.ver
    BY DEF Confirmed, Accepted, CommitAccepted, CommitMsg
<1>4. /\ meta[t][f] = thread.ver /\ meta[n][f] = thread.ver
      /\ ~(writer.at # "idle" /\ writer.file = f /\ writer.node = t)
      /\ \A o \in ObjectsOf(f) : object[t][o] = object[n][o]
    BY ThreadFacts DEF Sound, ThreadFits
<1>5. UNCHANGED <<writer, acked, last>>
    BY DEF clientVars
<1>6. loc'[f] = t /\ \A g \in Files : g # f => loc'[g] = loc[g]
    BY <1>1, <1>2 DEF IInv, TypeOK
<1>7. AckedKept'
    <2> SUFFICES ASSUME NEW o \in Objects PROVE object'[loc'[FileOf[o]]][o] >= acked'[o]
        BY DEF AckedKept
    <2>1. object[loc[FileOf[o]]][o] >= acked[o] /\ FileOf[o] \in Files
        BY Numbers DEF Sound, Kept, AckedKept, IInv
    <2>2. CASE FileOf[o] = f
        <3>1. object[t][o] = object[n][o]
            BY <1>4, <2>2 DEF ObjectsOf
        <3> QED
            BY <1>1, <1>2, <1>5, <1>6, <2>1, <2>2, <3>1
    <2>3. CASE FileOf[o] # f
        BY <1>2, <1>5, <1>6, <2>1, <2>3
    <2> QED
        BY <2>2, <2>3
<1>8. VersionKept'
    <2> SUFFICES ASSUME NEW g \in Files PROVE meta'[loc'[g]][g] >= ver'[g]
        BY DEF VersionKept
    <2>1. meta[loc[g]][g] >= ver[g] /\ ver[g] \in Nat
        BY Numbers DEF Sound, Kept, VersionKept, IInv
    <2> QED
        BY <1>2, <1>3, <1>4, <1>6, <2>1
<1>9. Numbered'
    BY <1>2, <1>5 DEF Sound, Kept, Numbered
<1>10. WriterFits'
    <2>0. WriterFits /\ (writer.at # "idle" => writer.file \in Files /\ writer.node \in Nodes)
        BY DEF Sound, Kept, IInv, WriterShape
    <2>1. CASE writer.at = "idle"
        BY <1>5, <2>0, <2>1 DEF WriterFits
    <2>2. CASE writer.at # "idle" /\ writer.file # f
        <3>1. loc'[writer.file] = loc[writer.file]
            BY <1>6, <2>0, <2>2
        <3> QED
            BY <1>2, <1>5, <2>0, <3>1 DEF WriterFits
    <2>3. CASE writer.at # "idle" /\ writer.file = f
        <3>1. writer.at \notin {"stat", "unlocked"}
            <4> SUFFICES ASSUME writer.at \in {"stat", "unlocked"} PROVE FALSE
                OBVIOUS
            <4>1. writer.node = n /\ meta[n][f] = writer.ver /\ ver[f] < writer.ver
                BY <1>1, <2>0, <2>3 DEF WriterFits
            <4>2. ver[f] \in Nat
                BY <1>1, Numbers DEF IInv
            <4> QED
                BY <1>3, <1>4, <4>1, <4>2
        <3>2. loc'[writer.file] # writer.node /\ gate'[writer.node] = "durable"
            BY <1>1, <1>2, <1>4, <1>6, <2>0, <2>3 DEF WriterFits
        <3> QED
            BY <1>5, <2>0, <3>1, <3>2 DEF WriterFits
    <2> QED
        BY <2>1, <2>2, <2>3
<1>11. NotBack
    BY <1>2, Numbers DEF NotBack, IInv
<1> QED
    BY <1>2, <1>7, <1>8, <1>9, <1>10, <1>11 DEF Kept

-----------------------------------------------------------------------------
(* The steps of the migration thread. *)

(* A call fails: its effect is there or not, and the thread is idle. *)
LEMMA RetryFits ==
    ASSUME IInv, Sound, NEW n \in Nodes, Retry(n), Kept', late' = {},
           UNCHANGED <<gate, loc>>
    PROVE  Sound'
BY RetrySame, SameFits DEF IInv, Sound, ThreadFits

(* Steps that call nobody: the tables stay. *)
LEMMA QuietSched ==
    ASSUME IInv, Sound, UNCHANGED <<nodeVars, mdsVars, clientVars, late>>
    PROVE  Kept' /\ NotBack /\ late' = {} /\ UNCHANGED <<gate, object, meta, loc, writer>>
BY QuietFits DEF Sound, nodeVars, mdsVars, clientVars

(* The thread takes up a task whose listing, if it has one, is complete. *)
LEMMA TickFits ==
    ASSUME IInv, Sound, NEW n \in Nodes, TickTask(n)
    PROVE  Sound' /\ NotBack
<1>1. Kept' /\ NotBack /\ late' = {} /\ UNCHANGED <<gate, object, meta, loc, writer>>
    BY QuietSched DEF TickTask
<1>2. ASSUME NEW step \in Steps, thread' = [ThreadIdle EXCEPT !.node = n, !.step = step]
      PROVE  thread'.step = step /\ thread'.node = n /\ thread'.todo = {}
    BY <1>2 DEF ThreadIdle
<1>3. CASE ~task[n].enumerated
    <2>1. thread' = [ThreadIdle EXCEPT !.node = n, !.step = "fence"] /\ UNCHANGED task
        BY <1>3 DEF TickTask
    <2>2. thread'.step = "fence"
        BY <1>2, <2>1 DEF Steps
    <2>3. ThreadFits'
        BY <2>2 DEF ThreadFits
    <2>4. TasksFit'
        BY <1>1, <2>1, TasksStay
    <2> QED
        BY <1>1, <2>3, <2>4 DEF Sound
<1>4. CASE task[n].enumerated /\ task[n].cur # NoFile
    <2> DEFINE s == IF task[n].committed THEN "delete" ELSE "owns"
    <2>1. thread' = [ThreadIdle EXCEPT !.node = n, !.step = s] /\ UNCHANGED task
        BY <1>4 DEF TickTask
    <2>2. s \in {"delete", "owns"} /\ (s = "delete" => task[n].committed)
        OBVIOUS
    <2> HIDE DEF s
    <2>3. thread'.step = s /\ thread'.node = n /\ thread'.todo = {}
        BY <1>2, <2>1, <2>2, Zenon DEF Steps
    <2>4. ThreadFits'
        BY <1>4, <2>1, <2>2, <2>3 DEF ThreadFits
    <2>5. TasksFit'
        BY <1>1, <2>1, TasksStay
    <2> QED
        BY <1>1, <2>4, <2>5 DEF Sound
<1>5. CASE task[n].enumerated /\ task[n].cur = NoFile
    <2>1. PICK o \in task[n].listed : task' = [task EXCEPT ![n].cur = FileOf[o]]
        BY <1>5 DEF TickTask
    <2>2. thread' = [ThreadIdle EXCEPT !.node = n, !.step = "owns"]
        BY <1>5 DEF TickTask
    <2>3. thread'.step = "owns" /\ thread'.node = n /\ thread'.todo = {}
        BY <1>2, <2>2 DEF Steps
    <2>4. ~task[n].committed
        BY <1>5, DrainAssumption DEF Sound, TasksFit, TaskFits
    <2>5. /\ \A k \in Nodes : k # n => task'[k] = task[k]
          /\ task'[n].enumerated = task[n].enumerated /\ task'[n].listed = task[n].listed
          /\ task'[n].target = task[n].target /\ task'[n].committed = task[n].committed
        BY <2>1 DEF IInv, TypeOK, Tasks
    <2>6. ThreadFits'
        BY <1>5, <2>3, <2>5 DEF ThreadFits
    <2>7. TaskFits(n) => TaskFits(n)'
        BY <1>1, <2>4, <2>5 DEF TaskFits
    <2>8. TasksFit'
        BY <1>1, <2>5, <2>7, OneTask
    <2> QED
        BY <1>1, <2>6, <2>8 DEF Sound
<1> QED
    BY <1>3, <1>4, <1>5 DEF TickTask

(* Only a confirmed gate lets the thread list objects. *)
LEMMA FenceFits ==
    ASSUME IInv, Sound, NEW n \in Nodes, Fence(n)
    PROVE  Sound' /\ NotBack
<1>1. Kept' /\ NotBack /\ late' = {} /\ UNCHANGED <<gate, object, meta, loc, writer>>
    BY QuietSched DEF Fence
<1>2. CASE gate[n] = "durable" /\ Goto("list") /\ UNCHANGED task
    <2>1. thread'.step = "list" /\ thread'.node = n
        BY <1>2, GotoStep DEF Fence, At, Steps
    <2>2. ThreadFits'
        BY <1>1, <1>2, <2>1 DEF ThreadFits
    <2>3. TasksFit'
        BY <1>1, <1>2, TasksStay
    <2> QED
        BY <1>1, <2>2, <2>3 DEF Sound
<1> QED
    BY <1>1, <1>2, RetryFits DEF Fence

(* The listing holds every object of the files that live on the node. *)
LEMMA ListFits ==
    ASSUME IInv, Sound, NEW n \in Nodes, List(n)
    PROVE  Sound' /\ NotBack
<1>1. Kept' /\ NotBack /\ late' = {} /\ UNCHANGED <<gate, object, meta, loc, writer>>
    BY QuietSched DEF List
<1> DEFINE s == IF Listed(n) = {} THEN "drained" ELSE task[n].state
<1>2. CASE thread' = ThreadIdle
           /\ task' = [task EXCEPT ![n].enumerated = TRUE, ![n].listed = Listed(n),
                                   ![n].state = s]
    <2> HIDE DEF s
    <2>1. /\ \A k \in Nodes : k # n => task'[k] = task[k]
          /\ task'[n].listed = Listed(n) /\ task'[n].cur = task[n].cur
          /\ task'[n].target = task[n].target /\ task'[n].committed = task[n].committed
        BY <1>2 DEF IInv, TypeOK, Tasks
    <2>2. gate[n] = "durable"
        BY DEF List, At, Sound, ThreadFits
    <2>3. ASSUME NEW f \in Files, loc[f] = n PROVE ObjectsOf(f) \subseteq Listed(n)
        <3> SUFFICES ASSUME NEW o \in Objects, FileOf[o] = f PROVE object[n][o] # 0
            BY DEF ObjectsOf, Listed
        <3>1. object[n][o] >= acked[o] /\ acked[o] >= 1 /\ acked[o] \in Nat /\ object[n][o] \in Nat
            BY <2>3, Numbers DEF Sound, Kept, AckedKept, Numbered, IInv
        <3> QED
            BY <3>1
    <2>4. TasksFit'
        <3>1. task'[n].enumerated
            BY <1>2 DEF IInv, TypeOK, Tasks
        <3>2. TaskFits(n) => TaskFits(n)'
            BY <1>1, <2>1, <2>2, <2>3, <3>1 DEF TaskFits
        <3> QED
            BY <1>1, <2>1, <3>2, OneTask
    <2>5. thread'.step = "idle"
        BY <1>2, Fresh
    <2>6. ThreadFits'
        BY <2>5 DEF ThreadFits
    <2> QED
        BY <1>1, <2>4, <2>6 DEF Sound
<1>3. CASE Retry(n)
    BY <1>1, <1>3, RetryFits
<1> QED
    BY <1>2, <1>3, Zenon DEF List

(* A file the MDS places elsewhere counts as committed. *)
LEMMA OwnsFits ==
    ASSUME IInv, Sound, NEW n \in Nodes, Owns(n)
    PROVE  Sound' /\ NotBack
<1>1. Kept' /\ NotBack /\ late' = {} /\ UNCHANGED <<gate, object, meta, loc, writer>>
    BY QuietSched DEF Owns
<1>2. /\ thread.node = n /\ thread.step = "owns" /\ task[n].enumerated
      /\ task[n].cur \in Files /\ Moving = task[n].cur /\ Target = task[n].target
    BY ThreadFacts DEF Owns, At
<1>3. CASE Goto(IF task[n].target = NoNode THEN "select" ELSE "copy") /\ UNCHANGED task
           /\ loc[task[n].cur] = n
    <2> DEFINE s == IF task[n].target = NoNode THEN "select" ELSE "copy"
    <2>1. s \in {"select", "copy"}
        OBVIOUS
    <2>2. Goto(s)
        BY <1>3
    <2> HIDE DEF s
    <2>3. /\ thread'.step = s /\ thread'.node = n /\ thread'.todo = thread.todo
        BY <1>2, <2>1, <2>2, GotoStep DEF Steps
    <2>4. thread.todo = {}
        BY <1>2 DEF Sound, ThreadFits
    <2>5. ThreadFits'
        BY <1>1, <1>2, <1>3, <2>1, <2>3, <2>4 DEF ThreadFits, Moving, Target
    <2>6. TasksFit'
        BY <1>1, <1>3, TasksStay
    <2> QED
        BY <1>1, <2>5, <2>6 DEF Sound
<1>4. CASE task' = [task EXCEPT ![n].committed = TRUE] /\ Goto("delete")
           /\ loc[task[n].cur] # n
    <2>1. /\ \A k \in Nodes : k # n => task'[k] = task[k]
          /\ task'[n].enumerated = task[n].enumerated /\ task'[n].listed = task[n].listed
          /\ task'[n].target = task[n].target /\ task'[n].cur = task[n].cur
        BY <1>4 DEF IInv, TypeOK, Tasks
    <2>2. task'[n].committed
        BY <1>4 DEF IInv, TypeOK, Tasks
    <2>3. thread'.step = "delete" /\ thread'.node = n
        BY <1>2, <1>4, GotoStep DEF Steps
    <2>4. ThreadFits'
        BY <1>2, <2>1, <2>2, <2>3, Zenon DEF ThreadFits
    <2>5. TaskFits(n) => TaskFits(n)'
        BY <1>1, <1>2, <1>4, <2>1 DEF TaskFits
    <2>6. TasksFit'
        BY <1>1, <2>1, <2>5, OneTask
    <2> QED
        BY <1>1, <2>4, <2>6 DEF Sound
<1>5. CASE Retry(n)
    BY <1>1, <1>5, RetryFits
<1> QED
    BY <1>3, <1>4, <1>5 DEF Owns

(* A target is another node that works, so it has listed nothing. *)
LEMMA SelectFits ==
    ASSUME IInv, Sound, NEW n \in Nodes, Select(n)
    PROVE  Sound' /\ NotBack
<1>1. Kept' /\ NotBack /\ late' = {} /\ UNCHANGED <<gate, object, meta, loc, writer>>
    BY QuietSched DEF Select
<1>2. /\ thread.node = n /\ thread.step = "select" /\ task[n].enumerated
      /\ task[n].cur \in Files /\ loc[task[n].cur] = n /\ thread.todo = {}
    BY ThreadFacts DEF Select, At, Sound, ThreadFits
<1>3. ASSUME NEW t \in Nodes \ {n}, task' = [task EXCEPT ![n].target = t], Goto("copy")
      PROVE  Sound'
    <2>1. /\ \A k \in Nodes : k # n => task'[k] = task[k]
          /\ task'[n].enumerated = task[n].enumerated /\ task'[n].listed = task[n].listed
          /\ task'[n].target = t /\ task'[n].cur = task[n].cur
          /\ task'[n].committed = task[n].committed
        BY <1>3 DEF IInv, TypeOK, Tasks
    <2>2. thread'.step = "copy" /\ thread'.node = n /\ thread'.todo = {}
        BY <1>2, <1>3, GotoStep DEF Steps
    <2>3. ThreadFits'
        BY <1>1, <1>2, <2>1, <2>2, Zenon DEF ThreadFits, Moving, Target
    <2>4. TaskFits(n) => TaskFits(n)'
        BY <1>1, <2>1 DEF TaskFits
    <2>5. TasksFit'
        BY <1>1, <2>1, <2>4, OneTask
    <2> QED
        BY <1>1, <2>3, <2>5 DEF Sound
<1>4. CASE Retry(n)
    BY <1>1, <1>4, RetryFits
<1> QED
    BY <1>1, <1>3, <1>4 DEF Select

(* The source is fenced, so what has been copied stays equal to it. *)
LEMMA CopyFits ==
    ASSUME IInv, Sound, MaxLate = 0, NEW n \in Nodes, Copy(n)
    PROVE  Sound' /\ NotBack
<1>1. /\ thread.node = n /\ thread.step = "copy" /\ task[n].enumerated
      /\ task[n].cur \in Files /\ loc[task[n].cur] = n /\ task[n].target \in Nodes
      /\ task[n].target # n /\ Moving = task[n].cur /\ Target = task[n].target
      /\ \A o \in Pending(n) : o \in Objects /\ FileOf[o] = task[n].cur
    BY ThreadFacts DEF Copy, At
<1>2. late = {} /\ UNCHANGED clientVars
    BY DEF Sound, Copy
<1>3. CASE Pending(n) \subseteq thread.todo /\ Goto("install")
           /\ UNCHANGED <<nodeVars, mdsVars, late, task>>
    <2>1. Kept' /\ NotBack /\ late' = {} /\ UNCHANGED <<gate, object, meta, loc, writer>>
        BY <1>2, <1>3, QuietSched
    <2>2. thread'.step = "install" /\ thread'.node = n /\ thread'.todo = thread.todo
        BY <1>1, <1>3, GotoStep DEF Steps
    <2>3. ObjectsOf(task[n].cur) \subseteq Pending(n)
        BY <1>1 DEF Sound, TasksFit, TaskFits, ObjectsOf, Pending
    <2>4. /\ thread.todo \subseteq ObjectsOf(task[n].cur)
          /\ \A o \in thread.todo : object[task[n].target][o] = object[n][o]
        BY <1>1 DEF Sound, ThreadFits
    <2>5. task' = task /\ Moving' = task[n].cur /\ Target' = task[n].target
        BY <1>3, <2>2 DEF Moving, Target
    <2>6. ObjectsOf(task[n].cur) \subseteq thread.todo
        BY <1>3, <2>3
    <2>7. ThreadFits'
        BY <1>1, <2>1, <2>2, <2>4, <2>5, <2>6, Zenon DEF ThreadFits
    <2>8. TasksFit'
        BY <1>3, <2>1, TasksStay
    <2> QED
        BY <2>1, <2>7, <2>8 DEF Sound
<1>4. ASSUME NEW o \in Pending(n), Confirmed(WriteMsg(n, o)),
             thread' = [thread EXCEPT !.todo = @ \cup {o}], UNCHANGED task
      PROVE  Sound' /\ NotBack
    <2>1. /\ Kept' /\ NotBack /\ UNCHANGED <<gate, meta, loc>>
          /\ object'[task[n].target][o] = object[n][o] /\ object'[n] = object[n]
          /\ \A p \in Objects : p # o => object'[task[n].target][p] = object[task[n].target][p]
        BY <1>1, <1>2, <1>4, CopyAway
    <2>2. /\ thread'.step = "copy" /\ thread'.node = n
          /\ thread'.todo = thread.todo \cup {o}
        BY <1>1, <1>4 DEF IInv, TypeOK, Threads
    <2>3. /\ thread.todo \subseteq ObjectsOf(task[n].cur)
          /\ \A p \in thread.todo : object[task[n].target][p] = object[n][p]
        BY <1>1, Zenon DEF Sound, ThreadFits
    <2>4. /\ thread'.todo \subseteq ObjectsOf(task[n].cur)
          /\ \A p \in thread'.todo : object'[task[n].target][p] = object'[n][p]
        BY <1>1, <2>1, <2>2, <2>3 DEF ObjectsOf
    <2>5. ThreadFits'
        BY <1>1, <1>4, <2>1, <2>2, <2>4 DEF ThreadFits, Moving, Target
    <2>6. TasksFit'
        BY <1>4, <2>1, TasksStay
    <2> QED
        BY <1>2, <1>4, <2>1, <2>5, <2>6 DEF Sound, Confirmed
<1>5. ASSUME NEW o \in Pending(n), Unconfirmed(WriteMsg(n, o)), Retry(n)
      PROVE  Sound' /\ NotBack
    <2>1. CASE Confirmed(WriteMsg(n, o))
        <3>1. Kept' /\ NotBack /\ UNCHANGED <<gate, loc>> /\ late' = {}
            BY <1>1, <1>2, <2>1, CopyAway DEF Confirmed
        <3> QED
            BY <1>5, <3>1, RetryFits
    <2>2. CASE UNCHANGED <<nodeVars, mdsVars, late>>
        BY <1>2, <1>5, <2>2, QuietSched, RetryFits
    <2> QED
        BY <1>2, <1>5, <2>1, <2>2, CallCases
<1>6. CASE Retry(n) /\ UNCHANGED <<nodeVars, mdsVars, late>>
    BY <1>2, <1>6, QuietSched, RetryFits
<1> QED
    BY <1>3, <1>4, <1>5, <1>6 DEF Copy

(* No write of the file is left on the target: it would be open, and the   *)
(* file lives elsewhere.                                                    *)
LEMMA InstallFits ==
    ASSUME IInv, Sound, MaxLate = 0, NEW n \in Nodes, Install(n)
    PROVE  Sound' /\ NotBack
<1>1. /\ thread.node = n /\ thread.step = "install" /\ task[n].enumerated
      /\ task[n].cur \in Files /\ loc[task[n].cur] = n /\ task[n].target \in Nodes
      /\ task[n].target # n /\ Moving = task[n].cur /\ Target = task[n].target
    BY ThreadFacts DEF Install, At
<1>2. late = {} /\ UNCHANGED clientVars
    BY DEF Sound, Install
<1>3. CASE Confirmed(InstallMsg(n)) /\ UNCHANGED task
           /\ thread' = [thread EXCEPT !.step = "commit", !.ver = meta[n][task[n].cur]]
    <2>1. /\ Kept' /\ NotBack /\ UNCHANGED <<gate, object, loc>>
          /\ meta'[task[n].target][task[n].cur] = meta[n][task[n].cur]
          /\ meta'[n] = meta[n] /\ gate[task[n].target] = "open"
        BY <1>1, <1>2, <1>3, InstallAway
    <2>2. /\ thread'.step = "commit" /\ thread'.node = n /\ thread'.todo = thread.todo
          /\ thread'.ver = meta[n][task[n].cur]
        BY <1>1, <1>3 DEF IInv, TypeOK, Threads
    <2>3. ~task[task[n].target].enumerated
        BY <1>1, <2>1 DEF Sound, TasksFit, TaskFits
    <2>4. ~(writer.at # "idle" /\ writer.file = task[n].cur /\ writer.node = task[n].target)
        BY <1>1, <2>1, Zenon DEF Sound, Kept, WriterFits
    <2>5. UNCHANGED writer
        BY <1>2 DEF clientVars
    <2>6. /\ thread.todo \subseteq ObjectsOf(task[n].cur)
          /\ ObjectsOf(task[n].cur) \subseteq thread.todo
          /\ \A p \in thread.todo : object[task[n].target][p] = object[n][p]
        BY <1>1 DEF Sound, ThreadFits
    <2>7. ThreadFits'
        BY <1>1, <1>3, <2>1, <2>2, <2>3, <2>4, <2>5, <2>6 DEF ThreadFits, Moving, Target
    <2>8. TasksFit'
        BY <1>3, <2>1, TasksStay
    <2> QED
        BY <1>2, <1>3, <2>1, <2>7, <2>8 DEF Sound, Confirmed
<1>4. CASE Unconfirmed(InstallMsg(n)) /\ Retry(n)
    <2>1. CASE Confirmed(InstallMsg(n))
        <3>1. Kept' /\ NotBack /\ UNCHANGED <<gate, loc>> /\ late' = {}
            BY <1>1, <1>2, <2>1, InstallAway DEF Confirmed
        <3> QED
            BY <1>4, <3>1, RetryFits
    <2>2. CASE UNCHANGED <<nodeVars, mdsVars, late>>
        BY <1>2, <1>4, <2>2, QuietSched, RetryFits
    <2> QED
        BY <1>2, <1>4, <2>1, <2>2, CallCases
<1>5. CASE Retry(n) /\ UNCHANGED <<nodeVars, mdsVars, late>>
    BY <1>2, <1>5, QuietSched, RetryFits
<1> QED
    BY <1>3, <1>4, <1>5 DEF Install

(* A file moves from a fenced node to one whose task has listed nothing. *)
LEMMA CommitFits ==
    ASSUME IInv, Sound, MaxLate = 0, NEW n \in Nodes, Commit(n)
    PROVE  Sound' /\ NotBack
<1> DEFINE t == task[n].target
           f == task[n].cur
<1>1. /\ thread.node = n /\ thread.step = "commit" /\ task[n].enumerated
      /\ f \in Files /\ loc[f] = n /\ t \in Nodes /\ t # n /\ Target = t
    BY ThreadFacts DEF Commit, At
<1>2. late = {} /\ UNCHANGED clientVars
    BY DEF Sound, Commit
<1>3. ~task[t].enumerated /\ ~task[t].committed
    BY <1>1 DEF Sound, ThreadFits, TasksFit, TaskFits
<1>4. ASSUME Confirmed(CommitMsg(n))
      PROVE  /\ Kept' /\ NotBack /\ UNCHANGED gate /\ late' = {}
             /\ loc'[f] = t /\ \A g \in Files : g # f => loc'[g] = loc[g]
    <2>1. Kept' /\ NotBack /\ UNCHANGED gate /\ loc' = [loc EXCEPT ![f] = t]
        BY <1>1, <1>2, <1>4, CommitMoves
    <2>2. loc'[f] = t /\ \A g \in Files : g # f => loc'[g] = loc[g]
        BY <1>1, <2>1 DEF IInv, TypeOK
    <2> QED
        BY <1>2, <1>4, <2>1, <2>2 DEF Confirmed
<1>5. ASSUME Confirmed(CommitMsg(n)),
             \A k \in Nodes :
                /\ task'[k].enumerated = task[k].enumerated /\ task'[k].listed = task[k].listed
                /\ task'[k].cur = task[k].cur /\ task'[k].target = task[k].target
                /\ k # n => task'[k].committed = task[k].committed
      PROVE  TasksFit'
    <2> SUFFICES ASSUME NEW k \in Nodes PROVE TaskFits(k)'
        BY DEF TasksFit
    <2>1. /\ TaskFits(k) /\ task'[k].enumerated = task[k].enumerated
          /\ task'[k].listed = task[k].listed /\ task'[k].target = task[k].target
          /\ task'[k].cur = task[k].cur /\ UNCHANGED gate
          /\ k # n => task'[k].committed = task[k].committed
        BY <1>4, <1>5 DEF Sound, TasksFit
    <2>2. loc'[f] = t /\ \A g \in Files : g # f => loc'[g] = loc[g]
        BY <1>4, <1>5
    <2>3. /\ t # n /\ task[n].cur = f /\ f \in Files /\ task[n].enumerated
        BY <1>1
    <2> HIDE DEF t, f
    <2>4. CASE k = n
        BY <2>1, <2>2, <2>3, <2>4 DEF TaskFits
    <2>5. CASE k = t
        BY <1>3, <2>1, <2>3, <2>5 DEF TaskFits
    <2>6. CASE k # n /\ k # t
        <3>1. \A g \in Files : loc'[g] = k => loc[g] = k
            BY <2>2, <2>6
        <3>2. task[k].committed => task[k].cur \in Files /\ loc'[task[k].cur] # k
            BY <2>1, <3>1 DEF TaskFits
        <3> QED
            BY <2>1, <2>6, <3>1, <3>2 DEF TaskFits
    <2> QED
        BY <2>4, <2>5, <2>6
<1>6. CASE Confirmed(CommitMsg(n)) /\ task' = [task EXCEPT ![n].committed = TRUE] /\ Goto("delete")
    <2>1. /\ \A k \in Nodes : k # n => task'[k] = task[k]
          /\ task'[n].enumerated = task[n].enumerated /\ task'[n].listed = task[n].listed
          /\ task'[n].target = task[n].target /\ task'[n].cur = task[n].cur
        BY <1>6 DEF IInv, TypeOK, Tasks
    <2>2. task'[n].committed
        BY <1>6 DEF IInv, TypeOK, Tasks
    <2>3. thread'.step = "delete" /\ thread'.node = n
        BY <1>1, <1>6, GotoStep DEF Steps
    <2>4. ThreadFits'
        BY <1>1, <2>1, <2>2, <2>3, Zenon DEF ThreadFits
    <2>5. TasksFit'
        BY <1>5, <1>6, <2>1, Zenon
    <2> QED
        BY <1>4, <1>6, <2>4, <2>5 DEF Sound
<1>7. CASE Unconfirmed(CommitMsg(n)) /\ Retry(n)
    <2>1. CASE Confirmed(CommitMsg(n))
        <3>1. SameWork /\ ThreadFits'
            BY <1>7, RetrySame DEF IInv, ThreadFits
        <3>2. TasksFit'
            BY <1>5, <2>1, <3>1 DEF SameWork
        <3> QED
            BY <1>4, <2>1, <3>1, <3>2 DEF Sound
    <2>2. CASE UNCHANGED <<nodeVars, mdsVars, late>>
        BY <1>2, <1>7, <2>2, QuietSched, RetryFits
    <2> QED
        BY <1>2, <1>7, <2>1, <2>2, CallCases
<1> QED
    BY <1>6, <1>7 DEF Commit

(* Only objects of a file that lives elsewhere are deleted. *)
LEMMA DeleteFits ==
    ASSUME IInv, Sound, MaxLate = 0, NEW n \in Nodes, Delete(n)
    PROVE  Sound' /\ NotBack
<1>1. /\ thread.node = n /\ thread.step = "delete" /\ task[n].enumerated
      /\ task[n].cur \in Files /\ loc[task[n].cur] # n /\ task[n].committed
      /\ \A o \in Pending(n) : o \in Objects /\ FileOf[o] = task[n].cur
    BY ThreadFacts DEF Delete, At, Sound, ThreadFits
<1>2. late = {} /\ UNCHANGED clientVars
    BY DEF Sound, Delete
<1>3. CASE Goto("cleanup") /\ UNCHANGED <<nodeVars, mdsVars, late, task>>
    <2>1. Kept' /\ NotBack /\ late' = {} /\ UNCHANGED <<gate, loc>>
        BY <1>2, <1>3, QuietSched
    <2>2. thread'.step = "cleanup" /\ thread'.node = n
        BY <1>1, <1>3, GotoStep DEF Steps
    <2>3. ThreadFits'
        BY <1>1, <1>3, <2>2, Zenon DEF ThreadFits
    <2>4. TasksFit'
        BY <1>3, <2>1, TasksStay
    <2> QED
        BY <2>1, <2>3, <2>4 DEF Sound
<1>4. ASSUME NEW o \in Pending(n), Confirmed(DeleteMsg(n, o)),
             task' = [task EXCEPT ![n].listed = @ \ {o}], UNCHANGED thread
      PROVE  Sound' /\ NotBack
    <2>1. Kept' /\ NotBack /\ UNCHANGED <<gate, meta, loc>>
        BY <1>1, <1>2, <1>4, DeleteAway
    <2>2. /\ \A k \in Nodes : k # n => task'[k] = task[k]
          /\ task'[n].enumerated = task[n].enumerated /\ task'[n].listed = task[n].listed \ {o}
          /\ task'[n].target = task[n].target /\ task'[n].cur = task[n].cur
          /\ task'[n].committed = task[n].committed
        BY <1>4 DEF IInv, TypeOK, Tasks
    <2>3. ThreadFits'
        BY <1>1, <1>4, <2>2 DEF ThreadFits
    <2>4. ASSUME NEW f \in Files, loc[f] = n PROVE ObjectsOf(f) \subseteq task'[n].listed
        <3>1. ObjectsOf(f) \subseteq task[n].listed
            BY <1>1, <2>4 DEF Sound, TasksFit, TaskFits
        <3>2. FileOf[o] # f
            BY <1>1, <1>4, <2>4
        <3>3. o \notin ObjectsOf(f)
            BY <3>2 DEF ObjectsOf
        <3> QED
            BY <2>2, <3>1, <3>3
    <2>5. TaskFits(n) => TaskFits(n)'
        BY <2>1, <2>2, <2>4 DEF TaskFits
    <2>6. TasksFit'
        BY <2>1, <2>2, <2>5, OneTask
    <2> QED
        BY <1>2, <1>4, <2>1, <2>3, <2>6 DEF Sound, Confirmed
<1>5. ASSUME NEW o \in Pending(n), Unconfirmed(DeleteMsg(n, o)), Retry(n)
      PROVE  Sound' /\ NotBack
    <2>1. CASE Confirmed(DeleteMsg(n, o))
        <3>1. Kept' /\ NotBack /\ UNCHANGED <<gate, loc>> /\ late' = {}
            BY <1>1, <1>2, <2>1, DeleteAway DEF Confirmed
        <3> QED
            BY <1>5, <3>1, RetryFits
    <2>2. CASE UNCHANGED <<nodeVars, mdsVars, late>>
        BY <1>2, <1>5, <2>2, QuietSched, RetryFits
    <2> QED
        BY <1>2, <1>5, <2>1, <2>2, CallCases
<1> QED
    BY <1>3, <1>4, <1>5 DEF Delete

(* Only metadata of a file that lives elsewhere is removed. *)
LEMMA CleanupFits ==
    ASSUME IInv, Sound, MaxLate = 0, NEW n \in Nodes, Cleanup(n)
    PROVE  Sound' /\ NotBack
<1>1. thread.node = n /\ thread.step = "cleanup"
    BY DEF Cleanup, At
<1>2. late = {} /\ UNCHANGED clientVars
    BY DEF Sound, Cleanup
<1> DEFINE s == IF task[n].listed = {} THEN "drained" ELSE task[n].state
<1>3. CASE Confirmed(CleanupMsg(n)) /\ thread' = ThreadIdle
           /\ task' = [task EXCEPT ![n].cur = NoFile, ![n].target = NoNode,
                                   ![n].committed = FALSE, ![n].state = s]
    <2> HIDE DEF s
    <2>1. Kept' /\ NotBack /\ UNCHANGED <<gate, object, loc>>
        BY <1>1, <1>2, <1>3, CleanupAway
    <2>2. /\ \A k \in Nodes : k # n => task'[k] = task[k]
          /\ task'[n].enumerated = task[n].enumerated /\ task'[n].listed = task[n].listed
          /\ task'[n].target = NoNode
        BY <1>3 DEF IInv, TypeOK, Tasks
    <2>3. ~task'[n].committed
        BY <1>3 DEF IInv, TypeOK, Tasks
    <2>4. thread'.step = "idle"
        BY <1>3, Fresh
    <2>5. ThreadFits'
        BY <2>4 DEF ThreadFits
    <2>6. TaskFits(n) => TaskFits(n)'
        BY <2>1, <2>2, <2>3, DrainAssumption DEF TaskFits
    <2>7. TasksFit'
        BY <2>1, <2>2, <2>6, OneTask
    <2> QED
        BY <1>2, <1>3, <2>1, <2>5, <2>7 DEF Sound, Confirmed
<1>4. CASE Unconfirmed(CleanupMsg(n)) /\ Retry(n)
    <2>1. CASE Confirmed(CleanupMsg(n))
        <3>1. Kept' /\ NotBack /\ UNCHANGED <<gate, loc>> /\ late' = {}
            BY <1>1, <1>2, <2>1, CleanupAway DEF Confirmed
        <3> QED
            BY <1>4, <3>1, RetryFits
    <2>2. CASE UNCHANGED <<nodeVars, mdsVars, late>>
        BY <1>2, <1>4, <2>2, QuietSched, RetryFits
    <2> QED
        BY <1>2, <1>4, <2>1, <2>2, CallCases
<1> QED
    BY <1>3, <1>4 DEF Cleanup

-----------------------------------------------------------------------------
(* The other steps: they change no copy away from its file's location and   *)
(* nothing on a fenced node, so the thread's copy in progress stays good.   *)
LEMMA ThreadStays ==
    ASSUME IInv, Sound, UNCHANGED <<thread, loc>>,
           \A k \in Nodes : gate[k] = "durable" => gate'[k] = "durable",
           thread.step # "idle" => task'[thread.node] = task[thread.node],
           \A k \in Nodes : task'[k].enumerated => task[k].enumerated,
           \A k \in Nodes, o \in Objects : loc[FileOf[o]] # k \/ gate[k] = "durable" =>
               object'[k][o] = object[k][o],
           \A k \in Nodes, f \in Files : loc[f] # k \/ gate[k] = "durable" =>
               meta'[k][f] = meta[k][f],
           thread.step = "commit" =>
               ~(writer'.at # "idle" /\ writer'.file = Moving /\ writer'.node = Target)
    PROVE  ThreadFits'
<1> DEFINE n == thread.node
           t == task[n].target
           f == task[n].cur
<1>1. thread.step # "idle" => n \in Nodes
    BY DEF IInv, ThreadShape
<1>2. CASE thread.step \in {"idle", "fence", "list"}
    BY <1>1, <1>2 DEF Sound, ThreadFits
<1>3. CASE thread.step \in {"owns", "select", "delete", "cleanup"}
    BY <1>1, <1>3, Zenon DEF Sound, ThreadFits, Moving
<1>4. CASE thread.step \in {"copy", "install", "commit"}
    <2>1. /\ n \in Nodes /\ t \in Nodes /\ t # n /\ f \in Files /\ loc[f] = n
          /\ gate[n] = "durable" /\ Moving = f /\ Target = t
        BY <1>1, <1>4, ThreadFacts, Zenon
    <2>2. Moving' = f /\ Target' = t
        BY <1>4 DEF Moving, Target
    <2>3. \A o \in thread.todo : o \in Objects /\ FileOf[o] = f
        BY <1>4, <2>1, Zenon DEF Sound, ThreadFits, ObjectsOf
    <2>4. \A o \in thread.todo : object'[t][o] = object[t][o] /\ object'[n][o] = object[n][o]
        BY <2>1, <2>3
    <2>5. meta'[t][f] = meta[t][f] /\ meta'[n][f] = meta[n][f]
        BY <2>1
    <2>6. thread.step = "commit" => ~task'[t].enumerated
        BY <2>1, Zenon DEF Sound, ThreadFits
    <2>7. \A o \in thread.todo : object'[t][o] = object'[n][o]
        <3>1. \A o \in thread.todo : object[t][o] = object[n][o]
            BY <1>4, <2>1, Zenon DEF Sound, ThreadFits
        <3> QED
            BY <2>4, <3>1, Zenon
    <2>8. /\ task'[n].enumerated /\ thread.todo \subseteq ObjectsOf(f)
          /\ thread.step \in {"install", "commit"} => ObjectsOf(f) \subseteq thread.todo
          /\ thread.step = "commit" => meta[t][f] = thread.ver /\ meta[n][f] = thread.ver
        BY <1>4, <2>1, Zenon DEF Sound, ThreadFits
    <2> QED
        BY <1>4, <2>1, <2>2, <2>5, <2>6, <2>7, <2>8, Zenon DEF ThreadFits
<1>5. thread.step \in Steps
    BY DEF IInv, TypeOK, Threads
<1> QED
    BY <1>2, <1>3, <1>4, <1>5 DEF Steps

(* No gate opens again once it is durable, and the tables stay. *)
LEMMA GateFits ==
    ASSUME IInv, Sound, NEW n \in Nodes, GateClose(n) \/ GateDurable(n) \/ NodeRestart(n)
    PROVE  Sound' /\ NotBack
<1>1. UNCHANGED <<object, meta, loc, ver, task, thread, acked, last, late>>
    BY DEF GateClose, GateDurable, NodeRestart, clientVars, mdsVars, schedVars
<1>2. \A k \in Nodes : gate[k] = "durable" => gate'[k] = "durable"
    BY DEF GateClose, GateDurable, NodeRestart, IInv, TypeOK
<1>3. \/ writer' = writer \/ writer' = WriterIdle
      \/ writer.at = "stat" /\ writer' = [writer EXCEPT !.at = "unlocked"]
    BY DEF GateClose, GateDurable, NodeRestart, clientVars
<1>4. NotBack
    BY <1>1, Numbers DEF NotBack, IInv
<1>5. Numbered' /\ AckedKept' /\ VersionKept'
    BY <1>1 DEF Sound, Kept, Numbered, AckedKept, VersionKept
<1>6. WriterFits' /\ (writer'.at # "idle" => /\ writer.at # "idle" /\ writer'.file = writer.file
                                             /\ writer'.node = writer.node)
    <2>0. writer.at # "idle" => writer.node \in Nodes
        BY DEF IInv, WriterShape
    <2>1. CASE writer' = writer
        BY <1>1, <1>2, <2>0, <2>1, Zenon DEF Sound, Kept, WriterFits
    <2>2. CASE writer' = WriterIdle
        <3>1. writer'.at = "idle" /\ writer'.todo = {} /\ writer'.flight = NoObject
            BY <2>2 DEF WriterIdle
        <3> QED
            BY <3>1, Zenon DEF WriterFits
    <2>3. CASE writer.at = "stat" /\ writer' = [writer EXCEPT !.at = "unlocked"]
        <3>1. /\ writer'.at = "unlocked" /\ writer'.file = writer.file
              /\ writer'.node = writer.node /\ writer'.ver = writer.ver
              /\ writer'.objs = writer.objs /\ writer'.todo = writer.todo
              /\ writer'.flight = writer.flight
            BY <2>3 DEF IInv, TypeOK, Writers
        <3> QED
            BY <1>1, <1>2, <2>0, <2>3, <3>1 DEF Sound, Kept, WriterFits
    <2> QED
        BY <1>3, <2>1, <2>2, <2>3
<1>7. ThreadFits'
    <2>1. thread.step = "commit" =>
             ~(writer'.at # "idle" /\ writer'.file = Moving /\ writer'.node = Target)
        BY <1>6, Zenon DEF Sound, ThreadFits
    <2> QED
        BY <1>1, <1>2, <2>1, ThreadStays, Zenon
<1>8. TasksFit'
    BY <1>1, <1>2 DEF Sound, TasksFit, TaskFits
<1> QED
    BY <1>1, <1>4, <1>5, <1>6, <1>7, <1>8 DEF Sound, Kept

(* A new task has listed nothing, and is never the thread's. *)
LEMMA SchedulerFits ==
    ASSUME IInv, Sound,
           (\E n \in Nodes : RemoveNode(n) \/ PlannedExit(n) \/ TickStart(n))
              \/ Publish \/ SchedulerRestart
    PROVE  Sound' /\ NotBack
<1>1. UNCHANGED <<gate, object, meta, loc, ver, writer, acked, last, late>>
    BY DEF RemoveNode, PlannedExit, TickStart, Publish, SchedulerRestart,
           nodeVars, mdsVars, clientVars
<1>2. Kept' /\ NotBack
    BY <1>1, QuietFits DEF Sound
<1>3. ASSUME NEW n \in Nodes, task[n].state # "active", task' = [task EXCEPT ![n] = NewTask],
             UNCHANGED thread
      PROVE  TasksFit' /\ ThreadFits'
    <2>1. /\ \A k \in Nodes : k # n => task'[k] = task[k]
          /\ task'[n] = NewTask
        BY <1>3 DEF IInv, TypeOK
    <2>2. ~NewTask.enumerated /\ ~NewTask.committed /\ NewTask.target = NoNode
        BY DEF NewTask
    <2>3. thread.step # "idle" => thread.node \in Nodes /\ thread.node # n
        BY <1>3 DEF IInv, ThreadShape
    <2>4. TasksFit'
        <3> SUFFICES ASSUME NEW k \in Nodes PROVE TaskFits(k)'
            BY DEF TasksFit
        <3>1. CASE k = n
            BY <2>1, <2>2, <3>1, DrainAssumption, Zenon DEF TaskFits
        <3>2. CASE k # n
            BY <1>1, <2>1, <3>2, Zenon DEF Sound, TasksFit, TaskFits
        <3> QED
            BY <3>1, <3>2
    <2>5. thread.step # "idle" => task'[thread.node] = task[thread.node]
        BY <2>1, <2>3
    <2>6. \A k \in Nodes : task'[k].enumerated => task[k].enumerated
        BY <2>1, <2>2
    <2>7. thread.step = "commit" =>
             ~(writer'.at # "idle" /\ writer'.file = Moving /\ writer'.node = Target)
        BY <1>1 DEF Sound, ThreadFits
    <2> QED
        BY <1>1, <1>3, <2>4, <2>5, <2>6, <2>7, ThreadStays, Zenon
<1>4. CASE UNCHANGED <<task, thread>>
    <2>1. TasksFit' /\ ThreadFits'
        BY <1>1, <1>4, Zenon DEF Sound, TasksFit, TaskFits, ThreadFits, Moving, Target
    <2> QED
        BY <1>1, <1>2, <2>1 DEF Sound
<1>5. CASE SchedulerRestart
    <2>1. task' = [n \in Nodes |-> NoTask] /\ thread'.step = "idle"
        BY <1>5, Fresh DEF SchedulerRestart
    <2>2. ~NoTask.enumerated /\ ~NoTask.committed /\ NoTask.target = NoNode
        BY DEF NoTask, NewTask
    <2>3. TasksFit'
        BY <2>1, <2>2, DrainAssumption DEF TasksFit, TaskFits
    <2>4. ThreadFits'
        BY <2>1, Zenon DEF ThreadFits
    <2> QED
        BY <1>1, <1>2, <2>3, <2>4 DEF Sound
<1>6. CASE \E n \in Nodes : RemoveNode(n) \/ TickStart(n)
    <2>1. PICK n \in Nodes : RemoveNode(n) \/ TickStart(n)
        BY <1>6
    <2>2. task[n].state # "active" /\ task' = [task EXCEPT ![n] = NewTask] /\ UNCHANGED thread
        BY <2>1 DEF RemoveNode, TickStart
    <2> QED
        BY <1>1, <1>2, <1>3, <2>2, Zenon DEF Sound
<1>7. ASSUME (\E n \in Nodes : PlannedExit(n)) \/ Publish
      PROVE  UNCHANGED <<task, thread>>
    BY <1>7 DEF PlannedExit, Publish, schedVars
<1> QED
    BY <1>4, <1>5, <1>6, <1>7

(* A client's step: the tables change at most at the node that the MDS     *)
(* names, which is not fenced.                                              *)
LEMMA WriteFits ==
    ASSUME IInv, Sound, Write
    PROVE  Sound' /\ NotBack
<1>1. UNCHANGED <<gate, loc, task, thread, late>>
    BY Zenon DEF Write, WriteResolve, WriteAllocate, WriteAdmit, WriteStore, WriteCommit,
           WriteStat, WriteFail, nodeVars, mdsVars, schedVars
<1>2. TasksFit'
    BY <1>1 DEF Sound, TasksFit, TaskFits
<1>3. WriterFits /\ Numbered /\ AckedKept /\ VersionKept /\ writer \in Writers
    BY DEF Sound, Kept, IInv, TypeOK
<1>4. writer.at # "idle" => writer.file \in Files /\ writer.node \in Nodes
    BY DEF IInv, WriterShape
<1>5. ASSUME \A k \in Nodes, o \in Objects : loc[FileOf[o]] # k \/ gate[k] = "durable" =>
                 object'[k][o] = object[k][o],
             \A k \in Nodes, f \in Files : loc[f] # k \/ gate[k] = "durable" =>
                 meta'[k][f] = meta[k][f],
             \/ writer'.at = "idle"
             \/ /\ writer.at # "idle"
                /\ writer'.file = writer.file /\ writer'.node = writer.node
             \/ writer'.file \in Files /\ writer'.node = loc[writer'.file],
             Kept', NotBack
      PROVE  Sound' /\ NotBack
    <2>1. thread.step = "commit" => loc[Moving] # Target
        <3> SUFFICES ASSUME thread.step = "commit" PROVE loc[Moving] # Target
            OBVIOUS
        <3>1. thread.node \in Nodes
            BY DEF IInv, ThreadShape
        <3> QED
            BY <3>1, ThreadFacts
    <2>2. thread.step = "commit" =>
             ~(writer'.at # "idle" /\ writer'.file = Moving /\ writer'.node = Target)
        BY <1>5, <2>1 DEF Sound, ThreadFits
    <2>3. ThreadFits'
        BY <1>1, <1>5, <2>2, ThreadStays
    <2> QED
        BY <1>1, <1>2, <1>5, <2>3 DEF Sound
<1>6. ASSUME UNCHANGED <<object, meta, ver, acked, last>>, WriterFits'
      PROVE  Kept' /\ NotBack
    <2>1. NotBack
        BY <1>6, Numbers DEF NotBack, IInv
    <2> QED
        BY <1>1, <1>3, <1>6, <2>1 DEF Kept, Numbered, AckedKept, VersionKept
<1>7. ASSUME writer' = WriterIdle
      PROVE  WriterFits' /\ writer'.at = "idle"
    <2>1. writer'.at = "idle" /\ writer'.todo = {} /\ writer'.flight = NoObject
        BY <1>7 DEF WriterIdle
    <2> QED
        BY <2>1 DEF WriterFits
<1>8. ASSUME NEW f \in Files, WriteResolve(f) PROVE Sound' /\ NotBack
    <2>1. UNCHANGED <<object, meta, ver, acked, last>>
        BY <1>8 DEF WriteResolve, nodeVars, mdsVars
    <2>2. /\ writer'.at = "resolved" /\ writer'.file = f /\ writer'.node = loc[f]
          /\ writer'.objs = {} /\ writer'.todo = {} /\ writer'.flight = NoObject
        BY <1>8 DEF WriteResolve, WriterIdle
    <2>3. WriterFits'
        BY <1>1, <2>2 DEF WriterFits
    <2> QED
        BY <1>5, <1>6, <2>1, <2>2, <2>3
<1>9. CASE WriteAllocate
    <2>1. PICK objs \in SUBSET ObjectsOf(writer.file) :
             writer' = [writer EXCEPT !.at = "write", !.ver = meta[writer.node][writer.file],
                                      !.objs = objs, !.todo = objs]
        BY <1>9, Zenon DEF WriteAllocate
    <2>2. /\ writer.at = "resolved" /\ gate[writer.node] = "open" /\ writer.flight = NoObject
          /\ last' = last + 1 /\ UNCHANGED <<object, meta, ver, acked>>
        BY <1>9 DEF WriteAllocate, nodeVars, mdsVars, IInv, WriterShape
    <2>3. /\ writer'.at = "write" /\ writer'.file = writer.file /\ writer'.node = writer.node
          /\ writer'.objs = objs /\ writer'.todo = objs /\ writer'.flight = NoObject
        BY <1>3, <2>1, <2>2 DEF Writers
    <2>4. loc[writer.file] = writer.node
        BY <1>3, <2>2, Zenon DEF WriterFits
    <2>5. WriterFits'
        BY <1>1, <2>3, <2>4 DEF WriterFits
    <2>6. Numbered'
        BY <1>3, <2>2, Numbers DEF Numbered, IInv
    <2>7. NotBack /\ AckedKept' /\ VersionKept'
        BY <1>1, <1>3, <2>2, Numbers DEF NotBack, IInv, AckedKept, VersionKept
    <2> QED
        BY <1>5, <2>2, <2>3, <2>5, <2>6, <2>7, Zenon DEF Kept
<1>10. CASE WriteAdmit
    <2>1. PICK o \in writer.todo : writer' = [writer EXCEPT !.flight = o]
        BY <1>10 DEF WriteAdmit
    <2>2. writer.at = "write" /\ UNCHANGED <<object, meta, ver, acked, last>>
        BY <1>10 DEF WriteAdmit, nodeVars, mdsVars
    <2>3. /\ writer'.at = "write" /\ writer'.file = writer.file /\ writer'.node = writer.node
          /\ writer'.objs = writer.objs /\ writer'.todo = writer.todo /\ writer'.flight = o
        BY <1>3, <2>1, <2>2 DEF Writers
    <2>4. WriterFits'
        BY <1>1, <1>3, <2>2, <2>3 DEF WriterFits
    <2> QED
        BY <1>5, <1>6, <2>2, <2>3, <2>4
<1>11. CASE WriteStore
    <2> DEFINE k == writer.node
               o == writer.flight
    <2>1. /\ writer.at = "write" /\ gate[k] # "durable" /\ k \in Nodes /\ o \in Objects
          /\ loc[writer.file] = k /\ FileOf[o] = writer.file
        BY <1>3, <1>4, <1>11 DEF WriteStore, IInv, WriterShape, WriterFits, ObjectsOf
    <2>2. /\ object' = [object EXCEPT ![k][o] = last] /\ UNCHANGED <<meta, ver, acked, last>>
          /\ writer' = [writer EXCEPT !.flight = NoObject, !.todo = @ \ {o}]
        BY <1>11 DEF WriteStore, mdsVars
    <2> HIDE DEF k, o
    <2>3. /\ object'[k][o] = last
          /\ \A j \in Nodes, p \in Objects : j # k \/ p # o => object'[j][p] = object[j][p]
        BY <2>1, <2>2 DEF IInv, TypeOK
    <2>4. /\ writer'.at = "write" /\ writer'.file = writer.file /\ writer'.node = writer.node
          /\ writer'.objs = writer.objs /\ writer'.todo = writer.todo \ {o}
          /\ writer'.flight = NoObject
        BY <1>3, <2>1, <2>2 DEF Writers
    <2>5. \A j \in Nodes, p \in Objects : object'[j][p] \in {last, object[j][p]}
        BY <2>3
    <2>6. Numbered'
        BY <1>3, <2>2, <2>5, Numbers DEF Numbered, IInv
    <2>7. AckedKept' /\ NotBack
        BY <1>1, <1>3, <2>2, <2>5, Numbers DEF AckedKept, NotBack, Numbered, IInv
    <2>8. VersionKept'
        BY <1>1, <1>3, <2>2 DEF VersionKept
    <2>9. WriterFits'
        <3>1. \A p \in writer.objs : p \in Objects
            BY <1>3, <2>1, Zenon DEF WriterFits, ObjectsOf
        <3>2. \A p \in writer'.objs \ writer'.todo : object'[k][p] = last
            BY <1>3, <2>1, <2>3, <2>4, <3>1, Zenon DEF WriterFits, k
        <3> QED
            BY <1>1, <1>3, <2>1, <2>2, <2>4, <3>2 DEF WriterFits, k
    <2>10. \A j \in Nodes, p \in Objects : loc[FileOf[p]] # j \/ gate[j] = "durable" =>
              object'[j][p] = object[j][p]
        BY <2>1, <2>3
    <2> QED
        BY <1>5, <2>1, <2>2, <2>4, <2>6, <2>7, <2>8, <2>9, <2>10 DEF Kept
<1>12. CASE WriteCommit
    <2> DEFINE k == writer.node
               f == writer.file
               v == meta[k][f] + 1
    <2>1. /\ writer.at = "write" /\ gate[k] = "open" /\ k \in Nodes /\ f \in Files
          /\ loc[f] = k /\ writer.todo = {}
        BY <1>3, <1>4, <1>12 DEF WriteCommit, WriterFits
    <2>2. /\ meta' = [meta EXCEPT ![k][f] = v] /\ UNCHANGED <<object, ver, acked, last>>
          /\ writer' = [writer EXCEPT !.at = "stat", !.ver = v]
        BY <1>12 DEF WriteCommit, mdsVars
    <2>3. v > meta[k][f] /\ v > ver[f] /\ v \in Nat
        BY <1>3, <2>1, Numbers DEF VersionKept, IInv
    <2> HIDE DEF k, f, v
    <2>4. /\ meta'[k][f] = v
          /\ \A j \in Nodes, g \in Files : j # k \/ g # f => meta'[j][g] = meta[j][g]
        BY <2>1, <2>2 DEF IInv, TypeOK
    <2>5. /\ writer'.at = "stat" /\ writer'.file = f /\ writer'.node = k
          /\ writer'.objs = writer.objs /\ writer'.todo = writer.todo
          /\ writer'.flight = writer.flight /\ writer'.ver = v
        BY <1>3, <2>1, <2>2 DEF Writers, k, f
    <2>6. VersionKept'
        BY <1>1, <1>3, <2>1, <2>2, <2>3, <2>4, Numbers DEF VersionKept, IInv
    <2>7. Numbered' /\ AckedKept' /\ NotBack
        BY <1>1, <1>3, <2>2, Numbers DEF Numbered, AckedKept, NotBack, IInv
    <2>8. WriterFits'
        BY <1>1, <1>3, <2>1, <2>2, <2>3, <2>4, <2>5 DEF WriterFits, k, f
    <2>9. \A j \in Nodes, g \in Files : loc[g] # j \/ gate[j] = "durable" =>
             meta'[j][g] = meta[j][g]
        BY <2>1, <2>4
    <2> QED
        BY <1>5, <2>1, <2>2, <2>5, <2>6, <2>7, <2>8, <2>9 DEF Kept, k, f
<1>13. CASE WriteStat
    <2>1. /\ writer.at \in {"stat", "unlocked"} /\ writer' = WriterIdle
          /\ UNCHANGED <<object, meta, last>>
          /\ acked' = [o \in Objects |-> IF o \in writer.objs THEN last ELSE acked[o]]
          /\ ver' = ver \/ ver' = [ver EXCEPT ![writer.file] = writer.ver]
        BY <1>13, Zenon DEF WriteStat, nodeVars
    <2>2. /\ loc[writer.file] = writer.node /\ meta[writer.node][writer.file] = writer.ver
          /\ \A o \in writer.objs : FileOf[o] = writer.file /\ object[writer.node][o] = last
        BY <1>3, <2>1 DEF WriterFits, ObjectsOf
    <2>3. \A o \in Objects : acked'[o] = IF o \in writer.objs THEN last ELSE acked[o]
        BY <2>1
    <2>4. ASSUME NEW o \in Objects
          PROVE  object'[loc'[FileOf[o]]][o] >= acked'[o]
        <3>1. object[loc[FileOf[o]]][o] >= acked[o] /\ acked[o] \in Nat /\ last \in Nat
            BY <1>3, Numbers DEF AckedKept, IInv
        <3>2. o \in writer.objs => object[loc[FileOf[o]]][o] = last
            BY <2>2
        <3>3. object'[loc'[FileOf[o]]][o] = object[loc[FileOf[o]]][o]
            BY <1>1, <2>1
        <3>4. acked'[o] = IF o \in writer.objs THEN last ELSE acked[o]
            BY <2>3
        <3> QED
            BY ONLY <3>1, <3>2, <3>3, <3>4
    <2>5. \A g \in Files : ver'[g] = ver[g] \/ (g = writer.file /\ ver'[g] = writer.ver)
        BY <2>1, Zenon DEF IInv, TypeOK
    <2>6. VersionKept'
        BY <1>1, <1>3, <2>1, <2>2, <2>5, Numbers DEF VersionKept, IInv
    <2>7. Numbered' /\ NotBack
        BY <1>1, <1>3, <2>1, <2>3, Numbers DEF Numbered, NotBack, IInv
    <2> QED
        BY <1>5, <1>7, <2>1, <2>4, <2>6, <2>7 DEF Kept, AckedKept
<1>14. CASE WriteFail
    <2>1. writer' = WriterIdle /\ UNCHANGED <<object, meta, ver, acked, last>>
        BY <1>14 DEF WriteFail, nodeVars, mdsVars
    <2> QED
        BY <1>5, <1>6, <1>7, <2>1
<1> QED
    BY <1>8, <1>9, <1>10, <1>11, <1>12, <1>13, <1>14 DEF Write

(* Every file starts at its home with version 1 and all its objects. *)
LEMMA InitSound == Init => Sound
<1> SUFFICES ASSUME Init PROVE Sound
    OBVIOUS
<1> USE DrainAssumption DEF Init
<1>1. ~NoTask.enumerated /\ ~NoTask.committed /\ NoTask.target = NoNode
    BY DEF NoTask, NewTask
<1>2. TasksFit
    BY <1>1, Zenon DEF TasksFit, TaskFits
<1>3. ThreadFits
    BY Fresh, Zenon DEF ThreadFits
<1>4. WriterIdle.at = "idle" /\ WriterIdle.todo = {} /\ WriterIdle.flight = NoObject
    BY DEF WriterIdle
<1>5. WriterFits
    BY <1>4 DEF WriterFits
<1>6. Numbered /\ AckedKept /\ VersionKept
    BY DEF Numbered, AckedKept, VersionKept
<1> QED
    BY <1>2, <1>3, <1>5, <1>6 DEF Sound, Kept

(* Every action keeps the tables sound and rolls no object back. *)
LEMMA NextSound ==
    ASSUME IInv, Sound, MaxLate = 0, Next
    PROVE  Sound' /\ NotBack
<1>1. ASSUME NEW n \in Nodes, Migrate(n) PROVE Sound' /\ NotBack
    BY <1>1, TickFits, FenceFits, ListFits, OwnsFits, SelectFits, CopyFits, InstallFits,
       CommitFits, DeleteFits, CleanupFits DEF Migrate
<1>2. ASSUME NEW n \in Nodes, GateClose(n) \/ GateDurable(n) \/ NodeRestart(n)
      PROVE  Sound' /\ NotBack
    BY <1>2, GateFits
<1>3. ASSUME (\E n \in Nodes : RemoveNode(n) \/ PlannedExit(n) \/ TickStart(n))
                \/ Publish \/ SchedulerRestart
      PROVE  Sound' /\ NotBack
    BY <1>3, SchedulerFits
<1>4. CASE Write
    BY <1>4, WriteFits
<1>5. ~(\E m \in late : Deliver(m))
    BY DEF Sound
<1> QED
    BY <1>1, <1>2, <1>3, <1>4, <1>5, Zenon DEF Next

(* So does every step, with stuttering. *)
LEMMA StepSound ==
    ASSUME IInv, Sound, MaxLate = 0, [Next]_vars
    PROVE  Sound'
<1>1. CASE UNCHANGED vars
    <2>1. UNCHANGED <<gate, object, meta, loc, ver, writer, acked, last, late, task, thread>>
        BY <1>1 DEF vars, nodeVars, mdsVars, schedVars, clientVars
    <2>2. Kept'
        BY <2>1, QuietFits DEF Sound
    <2> QED
        BY <2>1, <2>2, Zenon DEF Sound, TasksFit, TaskFits, ThreadFits, Moving, Target
<1> QED
    BY <1>1, NextSound

(* While no request outlives its caller, the state of every migration fits   *)
(* the tables: what the thread has copied agrees with the frozen source, and *)
(* nothing is deleted from the node the MDS names.                           *)
THEOREM DrainSound == MaxLate = 0 => (Spec => []Sound)
<1> SUFFICES ASSUME MaxLate = 0 PROVE Spec => []Sound
    OBVIOUS
<1>1. IInv /\ Sound /\ [Next]_vars => Sound'
    BY StepSound
<1> QED
    BY <1>1, InitSound, Invariance, PTL DEF Spec

(* No copy, commit, deletion, retry, restart of a node or of the scheduler   *)
(* loses an acknowledged FUSE write, for any number of drained nodes, while  *)
(* no request outlives its caller.                                           *)
THEOREM AckedSafe == MaxLate = 0 => (Spec => []AckedKept)
<1>1. Sound => AckedKept
    BY DEF Sound, Kept
<1> QED
    BY <1>1, DrainSound, PTL

(* The node the MDS names always has the file's metadata, at a version that  *)
(* UpdateInodeStat has not overtaken.                                        *)
THEOREM VersionSafe == MaxLate = 0 => (Spec => []VersionKept)
<1>1. Sound => VersionKept
    BY DEF Sound, Kept
<1> QED
    BY <1>1, DrainSound, PTL

(* While a file stays where it is, no step, of a retried or restarted drain  *)
(* included, puts older content over what its node holds.                    *)
THEOREM RollbackSafe == MaxLate = 0 => (Spec => NoRollback)
<1> SUFFICES ASSUME MaxLate = 0 PROVE Spec => NoRollback
    OBVIOUS
<1>1. IInv /\ Sound /\ [Next]_vars => [NotBack]_vars
    BY NextSound
<1>2. Spec => [][NotBack]_vars
    BY <1>1, Invariance, DrainSound, PTL DEF Spec
<1> QED
    BY <1>2, PTL DEF NoRollback, NotBack

(* The node the MDS names holds every object of the file, however many nodes *)
(* are drained: source objects are never deleted before the location commit. *)
THEOREM ObjectsSafe == MaxLate = 0 => (Spec => []ObjectsKept)
<1>1. IInv /\ Sound => ObjectsKept
    BY Numbers DEF IInv, Sound, Kept, Numbered, AckedKept, ObjectsKept
<1> QED
    BY <1>1, DrainSound, Invariance, PTL
==============================================================================
