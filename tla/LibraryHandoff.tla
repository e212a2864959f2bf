--------------------------- MODULE LibraryHandoff ---------------------------
(***************************************************************************)
(* The handoff of a whole physical optical library to an empty one: the    *)
(* scheduler's driver (PhysicalOpticalDrain), the receipt each optical     *)
(* node keeps in library_handoff.pb with the files it covers               *)
(* (ManageLibraryHandoff), and the node mapping the MDS commits            *)
(* (CommitOpticalLibraryHandoff).  Libraries may be handed on, requests    *)
(* are lost, time out or run after their caller has given up, saves of the *)
(* receipt fail, and every process may die, a node also in the middle of   *)
(* an installation or a release.                                           *)
(*                                                                          *)
(* A handler runs under the node's exclusive handoff_mu_ and is one step,  *)
(* except where it waits for the MDS.  A process that dies keeps what it   *)
(* has written; corrupt receipts and instance generations are left out.    *)
(***************************************************************************)
EXTENDS Naturals, FiniteSets

CONSTANTS Nodes,       \* physical optical nodes of one geometry
          Items,       \* files that may ever be archived
          First,       \* the item, and
          Home,        \* the node that has it at the start
          NoNode,
          MaxDepth,    \* longest chain ResolveOpticalHandoff follows
          MaxRetries,  \* max_retries of the coordinator
          MaxBegins,   \* bound: drains asked for
          MaxFaults    \* bound: lost calls, failed saves, deaths

ASSUME HandoffAssumption ==
    /\ First \in Items /\ Home \in Nodes /\ NoNode \notin Nodes
    /\ MaxDepth \in Nat /\ MaxRetries \in Nat \ {0}
    /\ MaxBegins \in Nat /\ MaxFaults \in Nat

VARIABLES rec,      \* node: handoff_ in memory
          disk,     \* node: the record in library_handoff.pb
          engine,   \* node: the archive engine runs
          lib,      \* node: items in its active directories
          pend,     \* node: admitted items that are not burnt yet
          snap,     \* node: the handed-over runtime snapshot is in place
          stage,    \* node: bytes of each manifest file in .handoff-receive
          home,     \* MDS: the node an item was archived on
          olh,      \* MDS: the committed handoff of a source, OLH/<node>
          commit,   \* MDS: how far the commit with the placement lock is
          life,     \* scheduler: managed lifecycle, also in the CMS
          inv,      \* scheduler: the node last reported an empty inventory
          task,     \* scheduler: the node's drain task
          begin,    \* scheduler: the Begin call in progress
          adv,      \* scheduler: the Advance call of the migration thread
          net,      \* requests that are not answered yet
          begins, faults

nodeVars == <<rec, disk, engine, lib, pend, snap, stage>>
mdsVars == <<home, olh, commit>>
schedVars == <<life, inv, task, begin, adv>>
vars == <<nodeVars, mdsVars, schedVars, net, begins, faults>>

-----------------------------------------------------------------------------
(* Receipts and requests.  A manifest names the operation, its two ends    *)
(* and, once the source has exported, the items in its files.              *)

Manifests == [op : 0..MaxBegins, src : Nodes \cup {NoNode}, tgt : Nodes \cup {NoNode},
              items : SUBSET Items]
NoManifest == [op |-> 0, src |-> NoNode, tgt |-> NoNode, items |-> {}]
Phases == {"NONE", "FREEZING", "EXPORTED", "RECEIVING", "INSTALLING", "ACTIVE", "RELEASED"}
Records == [phase : Phases, m : Manifests]
NoRecord == [phase |-> "NONE", m |-> NoManifest]

(* The disc files stand for one file of one chunk, the runtime snapshot for *)
(* one of two, so that it can be there in part.                             *)
Artifacts == {"disc", "snapshot"}
Size(f) == IF f = "disc" THEN 1 ELSE 2
NoFiles == [f \in Artifacts |-> 0]

Callers == {"begin", "advance", "nobody"}
Requests == [by : Callers, node : Nodes, m : Manifests, asking : BOOLEAN,
             act : {"FREEZE", "ACCEPT", "WRITE", "ACTIVATE", "COMMIT", "RELEASE"},
             file : Artifacts, off : 0..2]
Request(by, act, n, m) ==
    [by |-> by, act |-> act, node |-> n, m |-> m, asking |-> FALSE,
     file |-> "disc", off |-> 0]

(* HandoffBlocksAdmission. *)
Blocks(r) == r.phase \notin {"NONE", "ACTIVE"}

(* Fault: the engine runs after every restart. *)
RunsAlways(r) == TRUE

(* The constructor runs the engine in these phases only. *)
RunsAtStart(r) == r.phase \in {"NONE", "ACTIVE", "FREEZING"}

(* handoff_mu_ is free: no handler of n is waiting for the MDS. *)
GateFree(n) == \A q \in net : ~(q.node = n /\ q.act # "COMMIT" /\ q.asking)

(* Fault: a mapping is followed only once. *)
ResolveOnce(n) == IF olh[n] = NoManifest THEN n ELSE olh[n].tgt

(* ResolveOpticalHandoff: follow the committed mappings; a cycle or a chain *)
(* that is too long resolves to nothing.                                    *)
Resolve(n) ==
    LET hop[d \in 0..MaxDepth, x \in Nodes] ==
            IF d = 0 THEN NoNode
            ELSE IF olh[x] = NoManifest THEN x ELSE hop[d - 1, olh[x].tgt]
    IN  hop[MaxDepth, n]

Lifes == {"WORKING", "DRAINING", "EXITING"}
Tasks == [state : {"none", "active", "blocked", "done"}, tries : 0..MaxRetries]
NewTask == [state |-> "active", tries |-> 0]
NoTask == [state |-> "none", tries |-> 0]

Threads == [at : {"idle", "pick", "freeze", "fenced", "remove", "accept", "copy",
                  "activate", "commit", "release", "report", "wait"},
            node : Nodes \cup {NoNode}, m : Manifests]
Idle == [at |-> "idle", node |-> NoNode, m |-> NoManifest]

CommitPlaces == {"free", "source", "target", "write"}

Init ==
    /\ rec = [n \in Nodes |-> NoRecord] /\ disk = rec
    /\ engine = [n \in Nodes |-> TRUE]
    /\ lib = [n \in Nodes |-> IF n = Home THEN {First} ELSE {}]
    /\ pend = [n \in Nodes |-> {}]
    /\ snap = [n \in Nodes |-> FALSE]
    /\ stage = [n \in Nodes |-> NoFiles]
    /\ home = [i \in Items |-> IF i = First THEN Home ELSE NoNode]
    /\ olh = [n \in Nodes |-> NoManifest]
    /\ commit = "free"
    /\ life = [n \in Nodes |-> "WORKING"]
    /\ inv = [n \in Nodes |-> n # Home]
    /\ task = [n \in Nodes |-> NoTask]
    /\ begin = Idle /\ adv = Idle
    /\ net = {} /\ begins = 0 /\ faults = 0

Fault == faults < MaxFaults /\ faults' = faults + 1
NoFault == UNCHANGED faults

-----------------------------------------------------------------------------
(* How a reply goes on in the scheduler. *)

(* Fault: a task blocks one retry too late. *)
RetriedOneMore(t) ==
    [state |-> IF t.tries >= MaxRetries THEN "blocked" ELSE "active",
     tries |-> t.tries + 1]

(* RetryLocked of the coordinator. *)
Retried(t) ==
    [state |-> IF t.tries + 1 >= MaxRetries THEN "blocked" ELSE "active",
     tries |-> t.tries + 1]

AdvanceFails ==
    /\ adv' = Idle
    /\ task' = [task EXCEPT ![adv.node] = Retried(@)]

(* The request Advance has outstanding at each place of the driver. *)
Outstanding(place, m) ==
    CASE place = "freeze" -> {Request("advance", "FREEZE", m.src, m)}
      [] place = "accept" -> {Request("advance", "ACCEPT", m.tgt, m)}
      [] place = "activate" -> {Request("advance", "ACTIVATE", m.tgt, m)}
      [] place = "commit" -> {Request("advance", "COMMIT", m.src, m)}
      [] place = "release" -> {Request("advance", "RELEASE", m.src, m)}
      [] OTHER -> {}

(* Advance, from one successful call to the next; r is the record in the   *)
(* reply.  The copy loop stops after a while, without an error.             *)
After(act, r) ==
    CASE act = "FREEZE" -> {IF r.phase = "EXPORTED" THEN "accept" ELSE "report"}
      [] act = "ACCEPT" -> {IF r.phase = "RECEIVING" THEN "copy" ELSE "activate"}
      [] act = "WRITE" -> {"copy", "idle"}
      [] act = "ACTIVATE" -> {"commit"}
      [] act = "COMMIT" -> {"release"}
      [] act = "RELEASE" -> {"report"}

(* The reply to q reaches its caller, if it still waits. *)
Answer(q, ok, r) ==
    \/ /\ q.by = "advance" /\ ok
       /\ \E place \in After(q.act, r) :
          LET m == IF q.act = "FREEZE" THEN r.m ELSE q.m IN
          /\ adv' = IF place = "idle" THEN Idle
                    ELSE [at |-> place, node |-> adv.node, m |-> m]
          /\ net' = (net \ {q}) \cup Outstanding(place, m)
       /\ UNCHANGED <<begin, task>>
    \/ /\ q.by = "advance" /\ ~ok
       /\ AdvanceFails
       /\ net' = net \ {q}
       /\ UNCHANGED begin
    \/ /\ q.by = "begin"
       /\ begin' = [begin EXCEPT !.at = IF ok THEN "remove" ELSE "fenced"]
       /\ net' = net \ {q}
       /\ UNCHANGED <<adv, task>>
    \/ /\ q.by = "nobody"
       /\ net' = net \ {q}
       /\ UNCHANGED <<begin, adv, task>>

Refuse(q) == Answer(q, FALSE, NoRecord) /\ UNCHANGED nodeVars /\ NoFault

-----------------------------------------------------------------------------
(* The optical node. *)

(* SendArchiveMetadata admits an item... *)
Admit(n, i) ==
    /\ engine[n] /\ ~Blocks(rec[n]) /\ GateFree(n)
    /\ home[i] = NoNode /\ \A x \in Nodes : i \notin pend[x]
    /\ pend' = [pend EXCEPT ![n] = @ \cup {i}]
    /\ UNCHANGED <<rec, disk, engine, lib, snap, stage, mdsVars, schedVars, net,
                   begins, faults>>

(* ...and the engine burns it and has the MDS record where it is. *)
Burn(n, i) ==
    /\ engine[n] /\ i \in pend[n]
    /\ pend' = [pend EXCEPT ![n] = @ \ {i}]
    /\ lib' = [lib EXCEPT ![n] = @ \cup {i}]
    /\ home' = [home EXCEPT ![i] = n]
    /\ UNCHANGED <<rec, disk, engine, snap, stage, olh, commit, schedVars, net,
                   begins, faults>>

(* The node's inventory report; a released library reports an empty one. *)
ReportInventory(n) ==
    /\ GateFree(n)
    /\ inv' = [inv EXCEPT ![n] = rec[n].phase = "RELEASED" \/ lib[n] \cup pend[n] = {}]
    /\ inv' # inv
    /\ UNCHANGED <<nodeVars, mdsVars, life, task, begin, adv, net, begins, faults>>

(* The handler calls the MDS and keeps handoff_mu_ until the answer. *)
Ask(q) ==
    /\ net' = (net \ {q}) \cup {[q EXCEPT !.asking = TRUE]}
    /\ UNCHANGED <<nodeVars, begin, adv, task>> /\ NoFault

(* Fault: a question about a mapping waits for the placement lock. *)
ToldUnderLock(q) == q.asking /\ commit = "free"

(* CommitOpticalLibraryHandoff without commit set: the MDS tells whether   *)
(* exactly this manifest is committed, without taking a lock.              *)
Told(q) == q.asking
Committed(m) == olh[m.src] = m

(* Fault: the manifest is exported before its receipt is saved. *)
ExportUnsaved(q, at) ==
    LET n == q.node
        fenced == IF at.phase = "NONE" THEN [phase |-> "FREEZING", m |-> q.m] ELSE at
        exported == [phase |-> "EXPORTED", m |-> [fenced.m EXCEPT !.items = lib[n]]]
        r == IF fenced.phase = "FREEZING" THEN exported ELSE fenced
    IN
    /\ fenced.phase = "FREEZING" => pend[n] = {}
    /\ rec' = [rec EXCEPT ![n] = r]
    /\ engine' = [engine EXCEPT ![n] = FALSE]
    /\ snap' = [snap EXCEPT ![n] = TRUE]
    /\ Answer(q, TRUE, r)
    /\ UNCHANGED <<disk, lib, pend, stage>> /\ NoFault

(* Fault: the manifest is not built anew from the directories. *)
ExportStale(q, at) ==
    LET n == q.node
        fenced == IF at.phase = "NONE" THEN [phase |-> "FREEZING", m |-> q.m] ELSE at
        r == IF fenced.phase = "FREEZING" THEN [fenced EXCEPT !.phase = "EXPORTED"]
             ELSE fenced
    IN
    /\ fenced.phase = "FREEZING" => pend[n] = {}
    /\ rec' = [rec EXCEPT ![n] = r]
    /\ disk' = [disk EXCEPT ![n] = r]
    /\ engine' = [engine EXCEPT ![n] = FALSE]
    /\ snap' = [snap EXCEPT ![n] = TRUE]
    /\ Answer(q, TRUE, r)
    /\ UNCHANGED <<lib, pend, stage>> /\ NoFault

(* HANDOFF_FREEZE, from the record "at" that the handler finds: reserve,   *)
(* wait for admitted tasks, checkpoint, build the manifest, export.        *)
FreezeFrom(q, at) ==
    LET n == q.node
        fenced == IF at.phase = "NONE" THEN [phase |-> "FREEZING", m |-> q.m] ELSE at
        saved == IF at.phase = "NONE" THEN fenced ELSE disk[n]
        exported == [phase |-> "EXPORTED", m |-> [fenced.m EXCEPT !.items = lib[n]]]
    IN
    \/ /\ at.phase = "NONE"
       /\ Fault
       /\ rec' = [rec EXCEPT ![n] = fenced]
       /\ Answer(q, FALSE, fenced)
       /\ UNCHANGED <<disk, engine, lib, pend, snap, stage>>
    \/ /\ fenced.phase = "FREEZING" /\ pend[n] # {}
       /\ rec' = [rec EXCEPT ![n] = fenced]
       /\ disk' = [disk EXCEPT ![n] = saved]
       /\ engine' = [engine EXCEPT ![n] = TRUE]
       /\ Answer(q, FALSE, fenced)
       /\ UNCHANGED <<lib, pend, snap, stage>> /\ NoFault
    \/ /\ fenced.phase = "FREEZING" /\ pend[n] = {}
       /\ engine' = [engine EXCEPT ![n] = FALSE]
       /\ snap' = [snap EXCEPT ![n] = TRUE]
       /\ \/ /\ rec' = [rec EXCEPT ![n] = exported]
             /\ disk' = [disk EXCEPT ![n] = exported]
             /\ Answer(q, TRUE, exported) /\ NoFault
          \/ /\ rec' = [rec EXCEPT ![n] = fenced]
             /\ disk' = [disk EXCEPT ![n] = saved]
             /\ Answer(q, FALSE, fenced) /\ Fault
       /\ UNCHANGED <<lib, pend, stage>>
    \/ /\ fenced.phase \notin {"FREEZING"}
       /\ Answer(q, TRUE, fenced)
       /\ UNCHANGED nodeVars /\ NoFault

(* Only the source freezes; a receipt of another handoff keeps it reserved, *)
(* except an ACTIVE one that the MDS has committed.                         *)
Freeze(q) ==
    LET n == q.node
        old == rec[n].phase = "ACTIVE" /\ rec[n].m.op # q.m.op
        reserved == rec[n].phase # "NONE"
                    /\ (rec[n].m.op # q.m.op \/ rec[n].m.tgt # q.m.tgt) IN
    /\ q.act = "FREEZE"
    /\ \/ q.m.src # n /\ GateFree(n) /\ Refuse(q)
       \/ q.m.src = n /\ old /\ ~q.asking /\ GateFree(n) /\ Ask(q)
       \/ q.m.src = n /\ old /\ Told(q) /\ Committed(rec[n].m) /\ FreezeFrom(q, NoRecord)
       \/ q.m.src = n /\ old /\ Told(q) /\ ~Committed(rec[n].m) /\ Refuse(q)
       \/ q.m.src = n /\ ~old /\ reserved /\ GateFree(n) /\ Refuse(q)
       \/ q.m.src = n /\ ~old /\ ~reserved /\ GateFree(n) /\ FreezeFrom(q, rec[n])

(* HANDOFF_ACCEPT: an empty idle library reserves itself for one manifest. *)
Accept(q) ==
    LET n == q.node
        mine == [phase |-> "RECEIVING", m |-> q.m] IN
    /\ q.act = "ACCEPT" /\ GateFree(n)
    /\ \/ /\ q.m.tgt = n /\ rec[n].phase # "NONE" /\ rec[n].m = q.m
          /\ Answer(q, TRUE, rec[n])
          /\ UNCHANGED nodeVars /\ NoFault
       \/ /\ q.m.tgt = n /\ rec[n].phase = "NONE"
          /\ lib[n] \cup pend[n] = {}
          /\ rec' = [rec EXCEPT ![n] = mine]
          /\ \/ /\ disk' = [disk EXCEPT ![n] = mine]
                /\ engine' = [engine EXCEPT ![n] = FALSE]
                /\ Answer(q, TRUE, mine) /\ NoFault
             \/ /\ Answer(q, FALSE, mine) /\ Fault
                /\ UNCHANGED <<disk, engine>>
          /\ UNCHANGED <<lib, pend, snap, stage>>
       \/ /\ \/ q.m.tgt # n
             \/ rec[n].phase # "NONE" /\ rec[n].m # q.m
             \/ rec[n].phase = "NONE" /\ lib[n] \cup pend[n] # {}
          /\ Refuse(q)

(* HANDOFF_WRITE of one chunk; chunks extend or rewrite a prefix. *)
Write(q) ==
    LET n == q.node
        fits == /\ rec[n].m = q.m /\ q.m.tgt = n
                /\ rec[n].phase = "RECEIVING" /\ q.off <= stage[n][q.file] IN
    /\ q.act = "WRITE" /\ GateFree(n)
    /\ \/ /\ fits
          /\ stage' = [stage EXCEPT ![n][q.file] = IF q.off = @ THEN @ + 1 ELSE @]
          /\ Answer(q, TRUE, rec[n])
          /\ UNCHANGED <<rec, disk, engine, lib, pend, snap>> /\ NoFault
       \/ ~fits /\ Refuse(q)

(* A manifest file verifies: the staged one when there is one, else the    *)
(* installed one.                                                           *)
Matches(n, f) ==
    IF stage[n][f] > 0 THEN stage[n][f] = Size(f)
    ELSE IF f = "disc" THEN lib[n] = rec[n].m.items ELSE snap[n]

(* What an installation has done to the files of n after k of its steps:   *)
(* 1 disc files moved, 2 snapshot moved, 3 snapshot partly copied back to   *)
(* the staging area, 4 copied, 5 engine started, which consumes it.         *)
Installed(n, k) ==
    /\ lib' = IF k < 1 THEN lib ELSE [lib EXCEPT ![n] = rec[n].m.items]
    /\ snap' = IF k < 2 THEN snap ELSE [snap EXCEPT ![n] = k < 5]
    /\ stage' = [stage EXCEPT ![n] =
                    [f \in Artifacts |->
                        IF f = "disc" THEN IF k < 1 THEN @[f] ELSE 0
                        ELSE CASE k < 2 -> @[f] [] k = 2 -> 0 [] k = 3 -> 1 [] k > 3 -> 2]]

(* HANDOFF_ACTIVATE: verify every file, save INSTALLING, install, run the  *)
(* engine, save ACTIVE.                                                     *)
Activate(q) ==
    LET n == q.node
        phase(p) == [phase |-> p, m |-> q.m]
        due == /\ q.m.tgt = n /\ rec[n].m = q.m
               /\ rec[n].phase \in {"RECEIVING", "INSTALLING"}
               /\ \A f \in Artifacts : Matches(n, f)
        active == q.m.tgt = n /\ rec[n].m = q.m /\ rec[n].phase = "ACTIVE" IN
    /\ q.act = "ACTIVATE" /\ GateFree(n)
    /\ \/ /\ due
          /\ rec' = [rec EXCEPT ![n] = phase("ACTIVE")]
          /\ disk' = [disk EXCEPT ![n] = phase("ACTIVE")]
          /\ engine' = [engine EXCEPT ![n] = TRUE]
          /\ Installed(n, 5)
          /\ Answer(q, TRUE, phase("ACTIVE"))
          /\ UNCHANGED pend /\ NoFault
       \/ /\ due /\ Fault   \* INSTALLING is not saved
          /\ rec' = [rec EXCEPT ![n] = phase("INSTALLING")]
          /\ Answer(q, FALSE, phase("INSTALLING"))
          /\ UNCHANGED <<disk, engine, lib, pend, snap, stage>>
       \/ /\ due /\ Fault   \* ACTIVE is not saved
          /\ rec' = [rec EXCEPT ![n] = phase("INSTALLING")]
          /\ disk' = [disk EXCEPT ![n] = phase("INSTALLING")]
          /\ engine' = [engine EXCEPT ![n] = TRUE]
          /\ Installed(n, 5)
          /\ Answer(q, FALSE, phase("INSTALLING"))
          /\ UNCHANGED pend
       \/ /\ due /\ Fault   \* the node dies on the way and starts again
          /\ \E k \in 0..5 : Installed(n, k)
          /\ rec' = [rec EXCEPT ![n] = phase("INSTALLING")]
          /\ disk' = [disk EXCEPT ![n] = phase("INSTALLING")]
          /\ engine' = [engine EXCEPT ![n] = RunsAtStart(phase("INSTALLING"))]
          /\ Answer(q, FALSE, NoRecord)
          /\ UNCHANGED pend
       \/ active /\ Answer(q, TRUE, rec[n]) /\ UNCHANGED nodeVars /\ NoFault
       \/ ~due /\ ~active /\ Refuse(q)

(* HANDOFF_RELEASE: once the MDS says that exactly this manifest is        *)
(* committed, move the active directories away and save RELEASED.          *)
Release(q) ==
    LET n == q.node
        released == [phase |-> "RELEASED", m |-> q.m]
        due == q.m.src = n /\ rec[n].m = q.m /\ rec[n].phase = "EXPORTED"
        done == q.m.src = n /\ rec[n].m = q.m /\ rec[n].phase = "RELEASED" IN
    /\ q.act = "RELEASE"
    /\ \/ due /\ ~q.asking /\ GateFree(n) /\ Ask(q)
       \/ due /\ Told(q) /\ ~Committed(q.m) /\ Refuse(q)
       \/ /\ due /\ Told(q) /\ Committed(q.m)
          /\ lib' = [lib EXCEPT ![n] = {}]
          /\ snap' = [snap EXCEPT ![n] = FALSE]
          /\ \/ /\ rec' = [rec EXCEPT ![n] = released]
                /\ disk' = [disk EXCEPT ![n] = released]
                /\ Answer(q, TRUE, released) /\ NoFault
             \/ /\ Answer(q, FALSE, rec[n]) /\ Fault   \* not saved, or it dies
                /\ UNCHANGED <<rec, disk>>
          /\ UNCHANGED <<engine, pend, stage>>
       \/ done /\ GateFree(n) /\ Answer(q, TRUE, rec[n]) /\ UNCHANGED nodeVars /\ NoFault
       \/ ~due /\ ~done /\ GateFree(n) /\ Refuse(q)

Handle == /\ \E q \in net : Freeze(q) \/ Accept(q) \/ Write(q) \/ Activate(q) \/ Release(q)
          /\ UNCHANGED <<mdsVars, life, inv, begins>>

(* The process dies and starts again: LoadHandoff, and Run where the       *)
(* constructor runs the engine; a handler that was waiting dies with it.   *)
NodeRestart(n) ==
    /\ Fault
    /\ rec' = [rec EXCEPT ![n] = disk[n]]
    /\ engine' = [engine EXCEPT ![n] = RunsAtStart(disk[n])]
    /\ \E kept \in {pend[n], {}} : pend' = [pend EXCEPT ![n] = kept]
    /\ \/ GateFree(n) /\ UNCHANGED <<net, begin, adv, task>>
       \/ \E q \in net : /\ q.node = n /\ q.act # "COMMIT" /\ q.asking
                         /\ Answer(q, FALSE, NoRecord)
    /\ UNCHANGED <<disk, lib, snap, stage, mdsVars, life, inv, begins>>

-----------------------------------------------------------------------------
(* The MDS. *)

(* CommitOpticalLibraryHandoff with commit set: under the placement lock,  *)
(* answer from the mapping if there is one...                               *)
CommitBegin(q) ==
    /\ q.act = "COMMIT" /\ commit = "free"
    /\ \/ /\ olh[q.m.src] # NoManifest
          /\ Answer(q, olh[q.m.src] = q.m, NoRecord)
          /\ UNCHANGED commit
       \/ /\ olh[q.m.src] = NoManifest
          /\ commit' = "source"
          /\ net' = (net \ {q}) \cup {[q EXCEPT !.asking = TRUE]}
          /\ UNCHANGED <<begin, adv, task>>
    /\ UNCHANGED olh /\ NoFault

CommitRefuse(q) == commit' = "free" /\ Answer(q, FALSE, NoRecord) /\ UNCHANGED olh

(* ...else ask the source for its receipt, then the target for its own,    *)
(* while the CMS has the one draining and the other in service...           *)
CommitReceipt(q, at, n, phase, lives, then) ==
    /\ q.act = "COMMIT" /\ q.asking /\ commit = at
    /\ GateFree(n)
    /\ IF life[n] \in lives /\ rec[n] = [phase |-> phase, m |-> q.m]
       THEN commit' = then /\ UNCHANGED <<olh, net, begin, adv, task>>
       ELSE CommitRefuse(q)
    /\ NoFault

CommitSource(q) ==
    CommitReceipt(q, "source", q.m.src, "EXPORTED", {"DRAINING", "EXITING"}, "target")

CommitTarget(q) ==
    CommitReceipt(q, "target", q.m.tgt, "ACTIVE", {"WORKING"}, "write")

(* ...and write the mapping, unless the target has itself been handed on. *)
CommitWrite(q) ==
    /\ q.act = "COMMIT" /\ q.asking /\ commit = "write"
    /\ IF Resolve(q.m.tgt) = q.m.tgt
       THEN /\ olh' = [olh EXCEPT ![q.m.src] = q.m]
            /\ commit' = "free"
            /\ Answer(q, TRUE, NoRecord)
       ELSE CommitRefuse(q)
    /\ NoFault

(* A receipt query or the write fails, or the MDS dies. *)
CommitFails(q) ==
    /\ q.act = "COMMIT" /\ q.asking
    /\ CommitRefuse(q) /\ Fault

Mds == /\ \E q \in net : \/ CommitBegin(q) \/ CommitSource(q) \/ CommitTarget(q)
                         \/ CommitWrite(q)
       /\ UNCHANGED <<nodeVars, home, life, inv, begins>>

MdsFails == /\ \E q \in net : CommitFails(q)
            /\ UNCHANGED <<nodeVars, home, life, inv, begins>>

-----------------------------------------------------------------------------
(* The scheduler. *)

(* Begin, for a node without a running task: read its receipt; one that it *)
(* got as a receiver does not count...                                     *)
BeginQuery(s) ==
    LET r == rec[s]
        fresh == r.phase = "NONE" \/ (r.phase = "ACTIVE" /\ r.m.tgt = s)
        m == [NoManifest EXCEPT !.op = begins + 1, !.src = s] IN
    /\ begin = Idle /\ begins < MaxBegins
    /\ task[s].state \in {"none", "blocked"} /\ GateFree(s)
    /\ begins' = begins + 1
    /\ begin' = [at |-> IF fresh THEN "pick" ELSE "freeze", node |-> s,
                 m |-> IF fresh THEN m ELSE r.m]
    /\ net' = IF fresh THEN net ELSE net \cup {Request("begin", "FREEZE", s, r.m)}
    /\ UNCHANGED <<nodeVars, mdsVars, life, inv, task, adv, faults>>

(* ...choose an empty receiver without a receipt (the inventory is the     *)
(* last one reported) and freeze the source for it...                      *)
BeginPick ==
    LET s == begin.node
        receivers == {t \in Nodes \ {s} : /\ life[t] = "WORKING" /\ inv[t]
                                          /\ GateFree(t) /\ rec[t].phase = "NONE"} IN
    /\ begin.at = "pick"
    /\ \/ \E t \in receivers :
             LET m == [begin.m EXCEPT !.tgt = t] IN
             /\ begin' = [begin EXCEPT !.at = "freeze", !.m = m]
             /\ net' = net \cup {Request("begin", "FREEZE", s, m)}
       \/ receivers = {} /\ begin' = Idle /\ UNCHANGED net
    /\ UNCHANGED <<nodeVars, mdsVars, life, inv, task, adv, begins, faults>>

(* ...a freeze that failed is good enough when the source says FREEZING... *)
BeginFenced ==
    LET r == rec[begin.node] IN
    /\ begin.at = "fenced" /\ GateFree(begin.node)
    /\ begin' = IF r.phase = "FREEZING" /\ r.m.op = begin.m.op
                THEN [begin EXCEPT !.at = "remove"] ELSE Idle
    /\ UNCHANGED <<nodeVars, mdsVars, life, inv, task, adv, net, begins, faults>>

(* ...and BeginRemoveNode makes it DRAINING; a task is started for it. *)
BeginRemove ==
    LET s == begin.node IN
    /\ begin.at = "remove"
    /\ begin' = Idle
    /\ IF life[s] \in {"WORKING", "DRAINING"}
       THEN /\ life' = [life EXCEPT ![s] = "DRAINING"]
            /\ task' = [task EXCEPT ![s] = NewTask]
       ELSE UNCHANGED <<life, task>>
    /\ UNCHANGED <<nodeVars, mdsVars, inv, adv, net, begins, faults>>

(* Advance starts from the source's receipt, whatever phase it is in. *)
AdvanceQuery(s) ==
    LET r == rec[s]
        place == CASE r.phase = "FREEZING" -> "freeze" [] r.phase = "EXPORTED" -> "accept"
                   [] r.phase = "RELEASED" -> "report" [] OTHER -> "idle" IN
    /\ adv = Idle /\ task[s].state = "active" /\ GateFree(s)
    /\ IF place = "idle"
       THEN adv' = Idle /\ task' = [task EXCEPT ![s] = Retried(@)] /\ UNCHANGED net
       ELSE /\ adv' = [at |-> place, node |-> s, m |-> r.m]
            /\ net' = net \cup Outstanding(place, r.m)
            /\ UNCHANGED task
    /\ UNCHANGED <<nodeVars, mdsVars, life, inv, begin, begins, faults>>

Order == <<"disc", "snapshot">>

(* One turn of the copy loop: ask the target how much it has of the next   *)
(* file, read the chunk after it at the source, send it.  The file cursor  *)
(* only saves asking again about files that are complete.                  *)
AdvanceCopy ==
    LET s == adv.m.src
        t == adv.m.tgt
        have(f) == IF rec[t].phase = "RECEIVING" THEN stage[t][f] ELSE 0
        missing == {i \in 1..2 : have(Order[i]) < Size(Order[i])}
        f == Order[CHOOSE i \in missing : \A j \in missing : i <= j] IN
    /\ adv.at = "copy" /\ GateFree(t) /\ GateFree(s)
    /\ \/ /\ missing = {}
          /\ adv' = [adv EXCEPT !.at = "activate"]
          /\ net' = net \cup Outstanding("activate", adv.m)
          /\ UNCHANGED task
       \/ /\ missing # {}
          /\ rec[s] = [phase |-> "EXPORTED", m |-> adv.m] /\ snap[s]
          /\ adv' = [adv EXCEPT !.at = "wait"]
          /\ net' = net \cup {[Request("advance", "WRITE", t, adv.m)
                               EXCEPT !.file = f, !.off = have(f)]}
          /\ UNCHANGED task
       \/ /\ missing # {}
          /\ ~(rec[s] = [phase |-> "EXPORTED", m |-> adv.m] /\ snap[s])
          /\ AdvanceFails /\ UNCHANGED net
    /\ UNCHANGED <<nodeVars, mdsVars, life, inv, begin, begins, faults>>

(* A released source that reports an empty inventory has been drained;     *)
(* ReportDrainProgress makes it EXITING.                                   *)
AdvanceReport ==
    LET s == adv.node IN
    /\ adv.at = "report"
    /\ adv' = Idle
    /\ IF inv[s]
       THEN /\ life' = [life EXCEPT ![s] = "EXITING"]
            /\ task' = [task EXCEPT ![s].state = "done"]
       ELSE UNCHANGED <<life, task>>
    /\ UNCHANGED <<nodeVars, mdsVars, inv, begin, net, begins, faults>>

(* A call fails for its caller: the request is lost, or goes on without it.*)
GiveUp(q) ==
    /\ q.by # "nobody" /\ Fault
    /\ \/ ~q.asking /\ net' = net \ {q}
       \/ net' = (net \ {q}) \cup {[q EXCEPT !.by = "nobody"]}
    /\ IF q.by = "advance" THEN AdvanceFails /\ UNCHANGED begin
       ELSE begin' = [begin EXCEPT !.at = "fenced"] /\ UNCHANGED <<adv, task>>
    /\ UNCHANGED <<nodeVars, mdsVars, life, inv, begins>>

(* The scheduler restarts; its tick starts the drains of DRAINING nodes. *)
SchedulerRestart ==
    /\ Fault
    /\ begin' = Idle /\ adv' = Idle
    /\ net' = {[q EXCEPT !.by = "nobody"] : q \in net}
    /\ task' = [n \in Nodes |-> CASE life[n] = "DRAINING" -> NewTask
                                  [] life[n] = "EXITING" -> task[n]
                                  [] OTHER -> NoTask]
    /\ UNCHANGED <<nodeVars, mdsVars, life, inv, begins>>

-----------------------------------------------------------------------------
Begin == (\E s \in Nodes : BeginQuery(s)) \/ BeginPick \/ BeginFenced \/ BeginRemove
Advance == (\E s \in Nodes : AdvanceQuery(s)) \/ AdvanceCopy \/ AdvanceReport

Next ==
    \/ \E n \in Nodes, i \in Items : Admit(n, i) \/ Burn(n, i)
    \/ \E n \in Nodes : ReportInventory(n) \/ NodeRestart(n)
    \/ Handle \/ Mds \/ MdsFails
    \/ Begin \/ Advance \/ SchedulerRestart
    \/ \E q \in net : GiveUp(q)

Spec == Init /\ [][Next]_vars

(* Requests are served and the migration thread goes on; nodes report.     *)
FairSpec ==
    /\ Spec
    /\ WF_vars(Handle \/ Mds \/ Advance)
    /\ WF_vars(\E n \in Nodes : ReportInventory(n))

-----------------------------------------------------------------------------
TypeOK ==
    /\ rec \in [Nodes -> Records] /\ disk \in [Nodes -> Records]
    /\ engine \in [Nodes -> BOOLEAN] /\ snap \in [Nodes -> BOOLEAN]
    /\ lib \in [Nodes -> SUBSET Items] /\ pend \in [Nodes -> SUBSET Items]
    /\ stage \in [Nodes -> [Artifacts -> 0..2]]
    /\ home \in [Items -> Nodes \cup {NoNode}]
    /\ olh \in [Nodes -> Manifests]
    /\ commit \in CommitPlaces
    /\ life \in [Nodes -> Lifes] /\ inv \in [Nodes -> BOOLEAN]
    /\ task \in [Nodes -> Tasks]
    /\ begin \in Threads /\ adv \in Threads
    /\ net \subseteq Requests
    /\ begins \in 0..MaxBegins /\ faults \in 0..MaxFaults

(* Whatever fails on the way, the node the MDS resolves an archived item   *)
(* to has it in its active directories: nothing is released too early, and *)
(* nothing is archived on a source behind its manifest.                    *)
LibraryKept == \A i \in Items : home[i] # NoNode => i \in lib[Resolve(home[i])]

(* Two nodes with a copy of the same item never both admit work, now or     *)
(* after a restart of either.                                               *)
OneOpenCopy ==
    \A n, x \in Nodes : \A r \in {rec[n], disk[n]}, u \in {rec[x], disk[x]} :
        n # x /\ lib[n] \cap lib[x] # {} => Blocks(r) \/ Blocks(u)

(* A node runs no engine over a library that has left it, and none on a     *)
(* library it has only received in part, whatever it restarts from.         *)
EngineOnWholeLibrary ==
    \A n \in Nodes : engine[n] =>
        /\ disk[n].phase \notin {"EXPORTED", "RELEASED"}
        /\ disk[n].phase \in {"RECEIVING", "INSTALLING"} => disk[n].m.items \subseteq lib[n]

(* An installation that was interrupted can be taken up again: every file   *)
(* of the manifest still verifies.  A death while the snapshot is copied    *)
(* back breaks it.                                                          *)
InstallResumable ==
    \A n \in Nodes : rec[n].phase = "INSTALLING" => \A f \in Artifacts : Matches(n, f)

(* A node the scheduler drains keeps its admission closed across restarts. *)
(* True only as long as no save of the FREEZING receipt fails.             *)
FenceDurable == \A n \in Nodes : life[n] # "WORKING" => Blocks(disk[n])

(* Every drain ends: the library is handed over and reported, or the task   *)
(* is blocked for an operator.                                              *)
HandoffEnds ==
    \A n \in Nodes : task[n].state = "active" ~> task[n].state \in {"done", "blocked"}

Owner(i) == IF home[i] = NoNode THEN NoNode ELSE Resolve(home[i])

Abstract == INSTANCE LibraryOwner WITH
    owner <- [i \in Items |-> Owner(i)],
    left <- {n \in Nodes : olh[n] # NoManifest}

(* Seen through the MDS's mapping, the handoff is a change of ownership of  *)
(* whole libraries: readers never see one half moved, moved twice or moved  *)
(* back, and nothing is archived on a node that has left.                   *)
LibraryMovesWhole == Abstract!Spec
=============================================================================
