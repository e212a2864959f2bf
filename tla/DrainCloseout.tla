--------------------------- MODULE DrainCloseout ---------------------------
(***************************************************************************)
(* How the drain of one physical storage node begins and ends: the node's  *)
(* managed lifecycle WORKING, DRAINING, EXITING, RETIRED, the closeout of   *)
(* DrainMigrationCoordinator (CompleteLocked), the power side of            *)
(* NodePowerManager, the catalog the CMS in the MDS has committed, and the  *)
(* managed snapshot a restarted scheduler comes back with.                  *)
(*                                                                          *)
(* Moving one file is one step here; module DrainMigration opens it up.     *)
(* Heartbeats, the tick thread, the migration thread and the snapshot       *)
(* thread interleave.  Health, standby and utilisation are left out, and a  *)
(* node in service is taken to be powered.                                  *)
(***************************************************************************)
EXTENDS Naturals, FiniteSets

CONSTANTS NumFiles,      \* files that may ever be placed on the node
          StopCommand,   \* a stop command template is configured
          Actuation,     \* POWER_ACTUATION_ENABLED
          MaxRetries,    \* max_retries of the coordinator
          MaxRestarts    \* bound: crashes, and restarts of a blocked drain

ASSUME CloseoutAssumption ==
    /\ NumFiles \in Nat
    /\ StopCommand \in BOOLEAN /\ Actuation \in BOOLEAN
    /\ MaxRetries \in Nat \ {0} /\ MaxRestarts \in Nat

VARIABLES up,        \* the node's process runs
          gate,      \* the node has its durable write gate closed
          data,      \* files with objects on the node
          hb,        \* a heartbeat under way: what it says of used bytes
          where,     \* MDS: a file is located on this node, elsewhere, or gone
          catalog,   \* MDS: lifecycle of the node in the committed CMS catalog
          mgr,       \* scheduler: the node's ManagedNodeRuntime
          saved,     \* the same in the managed snapshot on disk
          task,      \* scheduler: the node's drain task
          step,      \* what the migration thread is doing, and what StopNode read
          reconciled, \* the catalog publisher has compared itself with the CMS
          restarts

nodeVars == <<up, gate, data, hb>>
mdsVars == <<where, catalog>>
taskVars == <<task, step>>
vars == <<nodeVars, mdsVars, mgr, saved, taskVars, reconciled, restarts>>

Files == 1..NumFiles
Lives == {"WORKING", "DRAINING", "EXITING", "RETIRED"}
Powers == {"ON", "OFF"}

(* The order of ManagedLifecycleState. *)
Rank(life) == CASE life = "WORKING" -> 1 [] life = "DRAINING" -> 2
                [] life = "EXITING" -> 3 [] life = "RETIRED" -> 4

(* resident: resident_data_bytes # 0; power: power_level, what the policy  *)
(* wants; actuated: actuated_power_level, what is believed to be applied.  *)
Runtimes == [life : Lives, resident : BOOLEAN, power : Powers, actuated : Powers]
Joined == [life |-> "WORKING", resident |-> TRUE, power |-> "ON", actuated |-> "ON"]

Tasks == [state : {"none", "active", "blocked", "completed"},
          enumerated : BOOLEAN, listed : SUBSET Files, retries : 0..MaxRetries]
NewTask == [state |-> "active", enumerated |-> FALSE, listed |-> {}, retries |-> 0]
NoTask == [NewTask EXCEPT !.state = "none"]

Places == {"idle", "fence", "list", "work", "empty", "refs", "report", "stop",
           "halt", "finalize"}
Steps == [at : Places, power : Powers, actuated : Powers]
Idle == [at |-> "idle", power |-> "ON", actuated |-> "ON"]

Init ==
    /\ up = TRUE
    /\ gate = FALSE
    /\ data \in SUBSET Files
    /\ hb = "none"
    /\ where = [f \in Files |-> IF f \in data THEN "here" ELSE "gone"]
    /\ catalog = "WORKING"
    /\ mgr = Joined /\ saved = Joined
    /\ task = NoTask
    /\ step = Idle
    /\ reconciled = TRUE
    /\ restarts = 0

-----------------------------------------------------------------------------
(* Clients, and the MDS. *)

(* Create saves the location of the new, still empty file: any node the    *)
(* committed catalog says is writable.                                     *)
Create(f) ==
    /\ catalog = "WORKING"
    /\ where[f] = "gone" /\ f \notin data
    /\ where' = [where EXCEPT ![f] = "here"]
    /\ UNCHANGED <<nodeVars, catalog, mgr, saved, taskVars, reconciled, restarts>>

FirstWrite(f) ==
    /\ where[f] = "here" /\ f \notin data
    /\ up /\ ~gate
    /\ data' = data \cup {f}
    /\ UNCHANGED <<up, gate, hb, mdsVars, mgr, saved, taskVars, reconciled, restarts>>

(* Unlink purges the objects on the node, then removes the inode. *)
Unlink(f) ==
    /\ where[f] = "here" /\ up
    /\ where' = [where EXCEPT ![f] = "gone"]
    /\ data' = data \ {f}
    /\ UNCHANGED <<up, gate, hb, catalog, mgr, saved, taskVars, reconciled, restarts>>

-----------------------------------------------------------------------------
(* The node. *)

(* BeginDataDrain for the RemoveManagedNode call. *)
GateClose ==
    /\ up /\ ~gate
    /\ gate' = TRUE
    /\ UNCHANGED <<up, data, hb, mdsVars, mgr, saved, taskVars, reconciled, restarts>>

(* Used bytes come from the file system, so they may be positive on a node *)
(* without objects.                                                        *)
HeartbeatSend ==
    /\ up /\ hb = "none"
    /\ hb' \in IF data = {} THEN {"used", "empty"} ELSE {"used"}
    /\ UNCHANGED <<up, gate, data, mdsVars, mgr, saved, taskVars, reconciled, restarts>>

(* NodePowerManager::ReportHeartbeat. *)
HeartbeatArrive ==
    /\ hb # "none"
    /\ hb' = "none"
    /\ mgr' = IF mgr.life = "RETIRED" THEN mgr
              ELSE [mgr EXCEPT !.resident = (hb = "used"), !.actuated = "ON"]
    /\ UNCHANGED <<up, gate, data, mdsVars, saved, taskVars, reconciled, restarts>>

NodeCrash ==
    /\ up /\ restarts < MaxRestarts
    /\ up' = FALSE
    /\ restarts' = restarts + 1
    /\ UNCHANGED <<gate, data, hb, mdsVars, mgr, saved, taskVars, reconciled>>

(* Someone starts the process again, unless the scheduler wants it off. *)
NodeStart ==
    /\ ~up /\ mgr.power = "ON"
    /\ up' = TRUE
    /\ UNCHANGED <<gate, data, hb, mdsVars, mgr, saved, taskVars, reconciled, restarts>>

-----------------------------------------------------------------------------
(* The scheduler's calls and its tick and snapshot threads. *)

(* RemoveManagedNode once the node has confirmed its gate: BeginRemoveNode, *)
(* Start, and CommitManagedState, which may fail.                           *)
RemoveNode ==
    /\ gate
    /\ mgr.life \in {"WORKING", "DRAINING"}
    /\ task.state \in {"none", "blocked"}
    /\ task.state = "blocked" => restarts < MaxRestarts
    /\ restarts' = IF task.state = "blocked" THEN restarts + 1 ELSE restarts
    /\ mgr' = [mgr EXCEPT !.life = "DRAINING"]
    /\ task' = NewTask
    /\ saved' \in {saved, mgr'}
    /\ UNCHANGED <<nodeVars, mdsVars, step, reconciled>>

(* The planned exit time passes in TickMatchingLocked. *)
PlannedExit ==
    /\ mgr.life = "WORKING"
    /\ mgr' = [mgr EXCEPT !.life = "DRAINING"]
    /\ UNCHANGED <<nodeVars, mdsVars, saved, taskVars, reconciled, restarts>>

(* The tick thread starts a drain only for DRAINING nodes without a task. *)
TickStart ==
    /\ mgr.life = "DRAINING"
    /\ task.state = "none"
    /\ task' = NewTask
    /\ UNCHANGED <<nodeVars, mdsVars, mgr, saved, step, reconciled, restarts>>

(* DesiredPowerLevelLocked: an idle draining node without resident data    *)
(* may go off, an exiting or retired one has to.                           *)
DesiredPower(m) == CASE m.life = "WORKING" -> {"ON"}
                     [] m.life = "DRAINING" -> IF m.resident THEN {"ON"} ELSE {"ON", "OFF"}
                     [] m.life \in {"EXITING", "RETIRED"} -> {"OFF"}

PowerTick ==
    /\ \E p \in DesiredPower(mgr) \ {mgr.power} : mgr' = [mgr EXCEPT !.power = p]
    /\ UNCHANGED <<nodeVars, mdsVars, saved, taskVars, reconciled, restarts>>

(* PowerActuationController::Tick runs the power command and reports it.   *)
Actuate ==
    /\ Actuation
    /\ mgr.power # mgr.actuated
    /\ up' = (mgr.power = "ON")
    /\ mgr' = [mgr EXCEPT !.actuated = mgr.power]
    /\ UNCHANGED <<gate, data, hb, mdsVars, saved, taskVars, reconciled, restarts>>

(* Fault: a restarted publisher does not compare itself with the CMS. *)
PublishUnchecked ==
    /\ ~(catalog = "RETIRED" /\ mgr.life # "RETIRED")
    /\ reconciled' = TRUE
    /\ catalog' = mgr.life
    /\ <<reconciled', catalog'>> # <<reconciled, catalog>>
    /\ UNCHANGED <<nodeVars, where, mgr, saved, taskVars, restarts>>

(* CmsNodeCatalogPublisher::Publish: after a restart it first reads the    *)
(* committed catalog and gives up when that is ahead of its own; the CMS   *)
(* refuses to bring a retired node back.                                   *)
Publish ==
    /\ reconciled \/ Rank(mgr.life) >= Rank(catalog)
    /\ ~(catalog = "RETIRED" /\ mgr.life # "RETIRED")
    /\ reconciled' = TRUE
    /\ catalog' = mgr.life
    /\ <<reconciled', catalog'>> # <<reconciled, catalog>>
    /\ UNCHANGED <<nodeVars, where, mgr, saved, taskVars, restarts>>

SaveSnapshot ==
    /\ saved # mgr
    /\ saved' = mgr
    /\ UNCHANGED <<nodeVars, mdsVars, mgr, taskVars, reconciled, restarts>>

SchedulerRestart ==
    /\ restarts < MaxRestarts
    /\ restarts' = restarts + 1
    /\ mgr' = saved
    /\ task' = NoTask
    /\ step' = Idle
    /\ reconciled' = FALSE
    /\ UNCHANGED <<nodeVars, mdsVars, saved>>

-----------------------------------------------------------------------------
(* The migration thread. *)

At(place) == step.at = place
Goto(place) == step' = [step EXCEPT !.at = place]

(* Fault: the retry limit is never applied. *)
RetryForever ==
    /\ task' = [task EXCEPT !.retries = IF @ < MaxRetries THEN @ + 1 ELSE @]
    /\ step' = Idle

(* Fault: a task blocks one retry too late. *)
RetryOneMore ==
    LET r == task.retries + 1 IN
    /\ task' = [task EXCEPT !.retries = r,
                            !.state = IF r > MaxRetries THEN "blocked" ELSE @]
    /\ step' = Idle

(* RetryLocked: retry_count is never reset. *)
Retry ==
    LET r == task.retries + 1 IN
    /\ task' = [task EXCEPT !.retries = r,
                            !.state = IF r >= MaxRetries THEN "blocked" ELSE @]
    /\ step' = Idle

TickTask ==
    /\ At("idle")
    /\ task.state = "active"
    /\ Goto(IF ~task.enumerated THEN "fence"
            ELSE IF task.listed # {} THEN "work" ELSE "empty")
    /\ UNCHANGED <<nodeVars, mdsVars, mgr, saved, task, reconciled, restarts>>

(* Fault: the drain goes on without the node's confirmation of its gate. *)
FenceUnconfirmed ==
    /\ At("fence")
    /\ Goto("list")
    /\ UNCHANGED <<nodeVars, mdsVars, mgr, saved, task, reconciled, restarts>>

(* EnumerateLocked: BeginSourceDrain, then ListObjects. *)
Fence ==
    /\ At("fence")
    /\ \/ up /\ gate' = TRUE /\ Goto("list") /\ UNCHANGED task
       \/ Retry /\ UNCHANGED gate
    /\ UNCHANGED <<up, data, hb, mdsVars, mgr, saved, reconciled, restarts>>

(* ReportDrainProgress: nothing left makes the node EXITING. *)
Progress(left) ==
    [mgr EXCEPT !.resident = (left # {}),
                !.life = IF left = {} /\ @ = "DRAINING" THEN "EXITING" ELSE @]

(* An empty listing is already reported as a finished drain. *)
List ==
    /\ At("list")
    /\ \/ /\ up
          /\ task' = [task EXCEPT !.enumerated = TRUE, !.listed = data]
          /\ mgr' = Progress(data)
          /\ IF data = {} THEN Goto("empty") ELSE step' = Idle
       \/ Retry /\ UNCHANGED mgr
    /\ UNCHANGED <<nodeVars, mdsVars, saved, reconciled, restarts>>

First(S) == CHOOSE f \in S : \A g \in S : f <= g

(* ProcessWorkLocked on the work item in hand: copy, commit, delete.  It   *)
(* may fail before or after the commit; an unlinked file has no location   *)
(* any more and fails for good.                                            *)
Work ==
    /\ At("work")
    /\ LET f == First(task.listed)
           rest == task.listed \ {f} IN
       \/ /\ up /\ where[f] # "gone"
          /\ where' = [where EXCEPT ![f] = "away"]
          /\ data' = data \ {f}
          /\ task' = [task EXCEPT !.listed = rest]
          /\ IF rest = {} THEN Goto("empty") /\ UNCHANGED mgr
                          ELSE step' = Idle /\ mgr' = Progress(rest)
       \/ /\ up /\ where[f] # "gone"
          /\ where' = [where EXCEPT ![f] = "away"]
          /\ Retry
          /\ UNCHANGED <<data, mgr>>
       \/ Retry /\ UNCHANGED <<where, data, mgr>>
    /\ UNCHANGED <<up, gate, hb, catalog, saved, reconciled, restarts>>

(* CompleteLocked: VerifySourceEmpty... *)
VerifyEmpty ==
    /\ At("empty")
    /\ \/ up /\ data = {} /\ Goto("refs") /\ UNCHANGED task
       \/ Retry
    /\ UNCHANGED <<nodeVars, mdsVars, mgr, saved, reconciled, restarts>>

(* ...VerifyCmsNodeReferencesZero, one atomic scan in the MDS...            *)
VerifyReferences ==
    /\ At("refs")
    /\ \/ (\A f \in Files : where[f] # "here") /\ Goto("report") /\ UNCHANGED task
       \/ Retry
    /\ UNCHANGED <<nodeVars, mdsVars, mgr, saved, reconciled, restarts>>

(* ...the final drain report...                                             *)
Report ==
    /\ At("report")
    /\ mgr' = Progress({})
    /\ Goto("stop")
    /\ UNCHANGED <<nodeVars, mdsVars, saved, task, reconciled, restarts>>

(* ...LifecycleManager::StopNode, refused while the node reports data...    *)
Stop ==
    /\ At("stop")
    /\ \/ /\ ~mgr.resident
          /\ mgr' = [mgr EXCEPT !.power = "OFF"]
          /\ step' = [at |-> "halt", power |-> mgr.power, actuated |-> mgr.actuated]
          /\ UNCHANGED task
       \/ mgr.resident /\ Retry /\ UNCHANGED mgr
    /\ UNCHANGED <<nodeVars, mdsVars, saved, reconciled, restarts>>

(* Fault: the result of the stop command is not looked at. *)
HaltUnchecked ==
    /\ At("halt")
    /\ up' \in {up, FALSE}
    /\ mgr' = [mgr EXCEPT !.actuated = "OFF"]
    /\ Goto("finalize")
    /\ UNCHANGED <<gate, data, hb, mdsVars, saved, task, reconciled, restarts>>

(* ...whose command stops the process and counts as the power-off, also    *)
(* when no command is configured; a failed one restores the power states...*)
Halt ==
    /\ At("halt")
    /\ \/ /\ up' = (up /\ ~StopCommand)
          /\ mgr' = [mgr EXCEPT !.actuated = "OFF"]
          /\ Goto("finalize")
          /\ UNCHANGED task
       \/ /\ StopCommand
          /\ up' \in {up, FALSE}
          /\ mgr' = [mgr EXCEPT !.power = step.power, !.actuated = step.actuated]
          /\ Retry
    /\ UNCHANGED <<gate, data, hb, mdsVars, saved, reconciled, restarts>>

(* ...and FinalizeRemoveNode.                                               *)
Finalize ==
    /\ At("finalize")
    /\ \/ /\ mgr.life = "EXITING" /\ ~mgr.resident /\ mgr.actuated = "OFF"
          /\ mgr' = [mgr EXCEPT !.life = "RETIRED", !.power = "OFF"]
          /\ task' = [task EXCEPT !.state = "completed"]
          /\ step' = Idle
       \/ /\ ~(mgr.life = "EXITING" /\ ~mgr.resident /\ mgr.actuated = "OFF")
          /\ Retry /\ UNCHANGED mgr
    /\ UNCHANGED <<nodeVars, mdsVars, saved, reconciled, restarts>>

-----------------------------------------------------------------------------
Migrate == \/ TickTask \/ Fence \/ List \/ Work \/ VerifyEmpty \/ VerifyReferences
           \/ Report \/ Stop \/ Halt \/ Finalize

Next ==
    \/ \E f \in Files : Create(f) \/ FirstWrite(f) \/ Unlink(f)
    \/ GateClose \/ HeartbeatSend \/ HeartbeatArrive \/ NodeCrash \/ NodeStart
    \/ RemoveNode \/ PlannedExit \/ TickStart \/ PowerTick \/ Actuate
    \/ Publish \/ SaveSnapshot \/ SchedulerRestart
    \/ Migrate

Spec == Init /\ [][Next]_vars

(* The loops of scheduler_server: the migration thread goes on with a task, *)
(* and the tick thread starts the drains that have none.                    *)
FairSpec == Spec /\ WF_vars(Migrate) /\ WF_vars(TickStart)

-----------------------------------------------------------------------------
TypeOK ==
    /\ up \in BOOLEAN /\ gate \in BOOLEAN
    /\ data \in SUBSET Files
    /\ hb \in {"none", "used", "empty"}
    /\ where \in [Files -> {"here", "away", "gone"}]
    /\ catalog \in Lives
    /\ mgr \in Runtimes /\ saved \in Runtimes
    /\ task \in Tasks
    /\ step \in Steps
    /\ reconciled \in BOOLEAN
    /\ restarts \in 0..MaxRestarts

(* A node the scheduler is switching off for good holds no data: from      *)
(* EXITING on, and in a snapshot or a catalog that says so, it is empty,   *)
(* through every retry and restart.                                        *)
ExitingEmpty ==
    (\E life \in {mgr.life, saved.life, catalog} : life \in {"EXITING", "RETIRED"})
        => data = {}

(* The committed catalog never takes a node back: a scheduler that restarts *)
(* from an old snapshot cannot re-admit a node it was draining.             *)
CatalogForward == [][Rank(catalog') >= Rank(catalog)]_vars

(* A node that leaves the catalog as RETIRED has no files located on it:    *)
(* no location is added after the zero-reference scan.                      *)
RetiredUnreferenced == mgr.life = "RETIRED" => \A f \in Files : where[f] # "here"

(* A physical node is RETIRED only once it is really off.                   *)
RetiredIsOff == mgr.life = "RETIRED" => ~up

(* A drain the scheduler has saved ends: the node is retired or its task    *)
(* reports BLOCKED.  True only as long as the scheduler does not restart.   *)
DrainSettles ==
    saved.life \in {"DRAINING", "EXITING"} ~>
        (mgr.life = "RETIRED" \/ task.state = "blocked")

(* With scheduler restarts there is one other way for it to end: a node     *)
(* restored as EXITING, for which the tick starts no task.                  *)
DrainSettlesOrOrphaned ==
    saved.life \in {"DRAINING", "EXITING"} ~>
        \/ mgr.life = "RETIRED" \/ task.state = "blocked"
        \/ mgr.life = "EXITING" /\ task.state = "none"

(* The scheduler keeps the tombstone of a node the CMS has retired, so that *)
(* it goes on rejecting the heartbeats of its old process.  True only as    *)
(* long as the scheduler does not restart before its next snapshot.         *)
TombstoneKept == catalog = "RETIRED" => mgr.life = "RETIRED"
=============================================================================
