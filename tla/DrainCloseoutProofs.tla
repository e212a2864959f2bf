------------------------ MODULE DrainCloseoutProofs ------------------------
(***************************************************************************)
(* Proofs about DrainCloseout for any number of files, retries and         *)
(* restarts.  The inductive invariant says, beside the types, what the     *)
(* order of the closeout's checks establishes and no thread can undo: the  *)
(* gate is closed once objects are enumerated, the node is empty once it   *)
(* counts as EXITING anywhere, and the published catalog is never ahead of *)
(* a scheduler that has compared itself with it.                           *)
(***************************************************************************)
EXTENDS DrainCloseout, TLAPS

(* The migration thread only works on an active task, whose retries are    *)
(* below the limit.                                                        *)
TaskRuns ==
    /\ step.at # "idle" => task.state = "active"
    /\ task.state = "active" => task.retries < MaxRetries

(* Past the fence, and after an enumeration, the gate is closed. *)
GateHeld ==
    /\ step.at \notin {"idle", "fence"} => gate
    /\ task.enumerated => gate

(* Past the second enumeration the node is empty. *)
VerifiedEmpty == step.at \in {"refs", "report", "stop", "halt", "finalize"} => data = {}

(* EXITING in memory, in the snapshot or in the catalog: gated and empty. *)
Leaving(life) == life \in {"EXITING", "RETIRED"}
LeavingEmpty ==
    Leaving(mgr.life) \/ Leaving(saved.life) \/ Leaving(catalog) => gate /\ data = {}

(* A reconciled publisher is not behind the catalog. *)
NotBehind == reconciled => Rank(mgr.life) >= Rank(catalog)

(* A task belongs to a node that is leaving but not yet retired, and the   *)
(* node is EXITING from the final report on.                               *)
TaskLife ==
    /\ task.state = "active" => mgr.life \in {"DRAINING", "EXITING"}
    /\ step.at \in {"stop", "halt", "finalize"} => mgr.life = "EXITING"

(* From StopNode on the policy keeps the node off; after a stop command it *)
(* is off, and the snapshot of a tombstone is a tombstone.                 *)
KeptOff ==
    /\ step.at = "halt" => mgr.power = "OFF"
    /\ step.at = "finalize" \/ mgr.life = "RETIRED" => mgr.power = "OFF" /\ ~up
    /\ saved.life = "RETIRED" => saved.power = "OFF" /\ mgr.life = "RETIRED"

IInv == TypeOK /\ TaskRuns /\ GateHeld /\ VerifiedEmpty /\ LeavingEmpty /\ NotBehind
            /\ TaskLife

-----------------------------------------------------------------------------
(* Rank orders the four states. *)
LEMMA RankOrder ==
    /\ Rank("WORKING") = 1 /\ Rank("DRAINING") = 2
    /\ Rank("EXITING") = 3 /\ Rank("RETIRED") = 4
BY DEF Rank

(* New tasks, the idle step and a joined node have their types. *)
LEMMA Fresh ==
    /\ NewTask \in Tasks /\ NewTask.state = "active" /\ NewTask.retries = 0
    /\ NewTask.enumerated = FALSE
    /\ NoTask \in Tasks /\ NoTask.state = "none" /\ NoTask.enumerated = FALSE
    /\ Idle \in Steps /\ Idle.at = "idle"
    /\ Joined \in Runtimes /\ Joined.life = "WORKING"
<1>1. NewTask \in Tasks
    BY CloseoutAssumption DEF NewTask, Tasks
<1>2. NewTask.state = "active" /\ NewTask.retries = 0 /\ NewTask.enumerated = FALSE
    BY DEF NewTask
<1>3. NoTask \in Tasks /\ NoTask.state = "none" /\ NoTask.enumerated = FALSE
    BY <1>1, <1>2 DEF NoTask, Tasks
<1>4. Idle \in Steps /\ Idle.at = "idle"
    BY DEF Idle, Steps, Places, Powers
<1>5. Joined \in Runtimes /\ Joined.life = "WORKING"
    BY DEF Joined, Runtimes, Lives, Powers
<1> QED
    BY <1>1, <1>2, <1>3, <1>4, <1>5

(* A failed call ends the step, and blocks the task at the limit. *)
LEMMA RetryKeeps ==
    ASSUME TypeOK, TaskRuns, step.at # "idle", Retry
    PROVE  /\ task' \in Tasks /\ step' = Idle
           /\ task'.enumerated = task.enumerated
           /\ task'.state = "active" => task'.retries < MaxRetries
           /\ task'.state = "active" => task.state = "active"
<1> DEFINE r == task.retries + 1
           s == IF r >= MaxRetries THEN "blocked" ELSE task.state
<1>1. task \in Tasks /\ task.state = "active" /\ task.retries < MaxRetries
    BY DEF TypeOK, TaskRuns
<1>2. task' = [task EXCEPT !.retries = r, !.state = s] /\ step' = Idle
    BY  DEF Retry
<1>3. r \in 0..MaxRetries /\ s \in {"active", "blocked"} /\ (s = "active" => r < MaxRetries)
    BY <1>1, CloseoutAssumption DEF Tasks
<1> HIDE DEF r, s
<1> QED
    BY <1>1, <1>2, <1>3, Zenon DEF Tasks

(* Moving on to another place only changes the place. *)
LEMMA GotoPlace ==
    ASSUME TypeOK, NEW p \in Places, Goto(p)
    PROVE  step' \in Steps /\ step'.at = p
BY DEF TypeOK, Goto, Steps

(* The drain report keeps the runtime's type and only ever makes a         *)
(* DRAINING node EXITING, when nothing is left.                            *)
LEMMA ProgressKeeps ==
    ASSUME TypeOK, NEW left
    PROVE  /\ Progress(left) \in Runtimes
           /\ Progress(left).life =
                 IF left = {} /\ mgr.life = "DRAINING" THEN "EXITING" ELSE mgr.life
           /\ Progress(left).power = mgr.power
BY Zenon DEF TypeOK, Progress, Runtimes, Lives

(* The initial state satisfies the invariant. *)
LEMMA InitIInv == Init => IInv
<1> SUFFICES ASSUME Init PROVE IInv
    OBVIOUS
<1>1. where \in [Files -> {"here", "away", "gone"}] /\ data \in SUBSET Files
    BY DEF Init
<1>2. restarts \in 0..MaxRestarts
    BY CloseoutAssumption DEF Init
<1>3. TypeOK
    BY <1>1, <1>2, Fresh, Zenon DEF Init, TypeOK, Lives
<1> QED
    BY <1>3, Fresh, RankOrder DEF Init, IInv, TaskRuns, GateHeld, VerifiedEmpty, LeavingEmpty,
       Leaving, NotBehind, TaskLife

(* Every step of the node, of the clients and of the scheduler's threads   *)
(* preserves it.                                                           *)
LEMMA NextIInv == IInv /\ [Next]_vars => IInv'
<1> SUFFICES ASSUME IInv, [Next]_vars PROVE IInv'
    OBVIOUS
<1> USE CloseoutAssumption, RankOrder DEF nodeVars, mdsVars, taskVars
<1>t. TypeOK /\ TaskRuns
    BY DEF IInv
<1>1. ASSUME NEW f \in Files, Create(f) PROVE IInv'
    <2>1. TypeOK'
        BY <1>1, <1>t DEF Create, TypeOK, Lives
    <2> QED
        BY <1>1, <1>t, <2>1 DEF Create, IInv, TaskRuns, GateHeld, VerifiedEmpty,
           LeavingEmpty, Leaving, NotBehind, TaskLife
<1>2. ASSUME NEW f \in Files, FirstWrite(f) PROVE IInv'
    <2>1. TypeOK'
        BY <1>2, <1>t DEF FirstWrite, TypeOK
    <2> QED
        BY <1>2, <1>t, <2>1 DEF FirstWrite, IInv, TaskRuns, GateHeld,
           VerifiedEmpty, LeavingEmpty, Leaving, NotBehind, TaskLife
<1>3. ASSUME NEW f \in Files, Unlink(f) PROVE IInv'
    <2>1. TypeOK'
        BY <1>3, <1>t DEF Unlink, TypeOK
    <2> QED
        BY <1>3, <1>t, <2>1 DEF Unlink, IInv, TaskRuns, GateHeld, VerifiedEmpty,
           LeavingEmpty, Leaving, NotBehind, TaskLife
<1>4. ASSUME GateClose PROVE IInv'
    <2>1. TypeOK'
        BY <1>4, <1>t DEF GateClose, TypeOK
    <2> QED
        BY <1>4, <1>t, <2>1 DEF GateClose, IInv, TaskRuns, GateHeld,
           VerifiedEmpty, LeavingEmpty, Leaving, NotBehind, TaskLife
<1>5. ASSUME HeartbeatSend PROVE IInv'
    <2>1. hb' \in {"none", "used", "empty"}
        BY <1>5, <1>t DEF HeartbeatSend
    <2>2. TypeOK'
        BY <1>5, <1>t, <2>1 DEF HeartbeatSend, TypeOK
    <2> QED
        BY <1>5, <1>t, <2>1, <2>2 DEF HeartbeatSend, IInv, TaskRuns, GateHeld,
           VerifiedEmpty, LeavingEmpty, Leaving, NotBehind, TaskLife
<1>6. ASSUME HeartbeatArrive PROVE IInv'
    <2>1. (hb = "used") \in BOOLEAN
        BY <1>6, <1>t DEF HeartbeatArrive
    <2>2. mgr' \in Runtimes /\ mgr'.life = mgr.life
        BY <1>6, <1>t, <2>1, Zenon DEF HeartbeatArrive, TypeOK, Runtimes, Powers
    <2>3. TypeOK'
        BY <1>6, <1>t, <2>1, <2>2 DEF HeartbeatArrive, TypeOK
    <2> QED
        BY <1>6, <1>t, <2>1, <2>2, <2>3 DEF HeartbeatArrive, IInv, TaskRuns,
           GateHeld, VerifiedEmpty, LeavingEmpty, Leaving, NotBehind, TaskLife
<1>7. ASSUME NodeCrash PROVE IInv'
    <2>1. restarts' \in 0..MaxRestarts
        BY <1>7, <1>t DEF NodeCrash, TypeOK
    <2>2. TypeOK'
        BY <1>7, <1>t, <2>1, Zenon DEF NodeCrash, TypeOK
    <2> QED
        BY <1>7, <1>t, <2>1, <2>2 DEF NodeCrash, IInv, TaskRuns, GateHeld,
           VerifiedEmpty, LeavingEmpty, Leaving, NotBehind, TaskLife
<1>8. ASSUME NodeStart PROVE IInv'
    <2>1. TypeOK'
        BY <1>8, <1>t DEF NodeStart, TypeOK
    <2> QED
        BY <1>8, <1>t, <2>1 DEF NodeStart, IInv, TaskRuns, GateHeld,
           VerifiedEmpty, LeavingEmpty, Leaving, NotBehind, TaskLife
<1>9. ASSUME RemoveNode PROVE IInv'
    <2>1. mgr' \in Runtimes /\ mgr'.life = "DRAINING"
        BY <1>9, <1>t DEF RemoveNode, TypeOK, Runtimes, Lives
    <2>2. TypeOK'
        BY <1>9, <1>t, <2>1, Fresh DEF RemoveNode, TypeOK
    <2>3. /\ step' = step /\ step.at = "idle" /\ task' = NewTask
          /\ gate /\ gate' = gate /\ data' = data
        BY <1>9, <1>t DEF RemoveNode, TaskRuns
    <2>4. LeavingEmpty'
        <3>1. catalog' = catalog /\ (saved' = saved \/ saved' = mgr')
            BY <1>9 DEF RemoveNode
        <3> QED
            BY <2>1, <2>3, <3>1 DEF IInv, LeavingEmpty, Leaving
    <2>5. NotBehind'
        BY <1>9, <1>t, <2>1 DEF RemoveNode, IInv, NotBehind, TypeOK, Lives
    <2> QED
        BY <2>1, <2>2, <2>3, <2>4, <2>5, Fresh
           DEF IInv, TaskRuns, GateHeld, VerifiedEmpty, TaskLife
<1>10. ASSUME PlannedExit PROVE IInv'
    <2>1. mgr' \in Runtimes /\ mgr'.life = "DRAINING"
        BY <1>10, <1>t DEF PlannedExit, TypeOK, Runtimes, Lives
    <2>2. TypeOK'
        BY <1>10, <1>t, <2>1 DEF PlannedExit, TypeOK
    <2> QED
        BY <1>10, <1>t, <2>1, <2>2 DEF PlannedExit, IInv, TaskRuns, GateHeld,
           VerifiedEmpty, LeavingEmpty, Leaving, NotBehind, TaskLife, TypeOK,
           Lives
<1>11. ASSUME TickStart PROVE IInv'
    <2>1. TypeOK'
        BY <1>11, <1>t, Fresh DEF TickStart, TypeOK
    <2> QED
        BY <1>11, <1>t, <2>1, Fresh DEF TickStart, IInv, TaskRuns, GateHeld,
           VerifiedEmpty, LeavingEmpty, Leaving, NotBehind, TaskLife
<1>12. ASSUME PowerTick PROVE IInv'
    <2>1. DesiredPower(mgr) \subseteq Powers
        BY <1>12, <1>t DEF PowerTick, DesiredPower, TypeOK, Runtimes, Lives,
           Powers
    <2>2. mgr' \in Runtimes /\ mgr'.life = mgr.life
        BY <1>12, <1>t, <2>1 DEF PowerTick, TypeOK, Runtimes
    <2>3. TypeOK'
        BY <1>12, <1>t, <2>1, <2>2 DEF PowerTick, TypeOK
    <2> QED
        BY <1>12, <1>t, <2>1, <2>2, <2>3 DEF PowerTick, IInv, TaskRuns,
           GateHeld, VerifiedEmpty, LeavingEmpty, Leaving, NotBehind, TaskLife
<1>13. ASSUME Actuate PROVE IInv'
    <2>1. mgr' \in Runtimes /\ mgr'.life = mgr.life
        BY <1>13, <1>t DEF Actuate, TypeOK, Runtimes
    <2>2. TypeOK'
        BY <1>13, <1>t, <2>1 DEF Actuate, TypeOK
    <2> QED
        BY <1>13, <1>t, <2>1, <2>2 DEF Actuate, IInv, TaskRuns, GateHeld,
           VerifiedEmpty, LeavingEmpty, Leaving, NotBehind, TaskLife
<1>14. ASSUME Publish PROVE IInv'
    <2>1. TypeOK'
        BY <1>14, <1>t DEF Publish, TypeOK, Runtimes
    <2> QED
        BY <1>14, <1>t, <2>1 DEF Publish, IInv, TaskRuns, GateHeld,
           VerifiedEmpty, LeavingEmpty, Leaving, NotBehind, TaskLife, TypeOK,
           Lives, Runtimes
<1>15. ASSUME SaveSnapshot PROVE IInv'
    <2>1. TypeOK'
        BY <1>15, <1>t DEF SaveSnapshot, TypeOK
    <2> QED
        BY <1>15, <1>t, <2>1 DEF SaveSnapshot, IInv, TaskRuns, GateHeld,
           VerifiedEmpty, LeavingEmpty, Leaving, NotBehind, TaskLife
<1>16. ASSUME SchedulerRestart PROVE IInv'
    <2>1. restarts' \in 0..MaxRestarts
        BY <1>16, <1>t DEF SchedulerRestart, TypeOK
    <2>2. TypeOK'
        BY <1>16, <1>t, <2>1, Fresh, Zenon DEF SchedulerRestart, TypeOK
    <2> QED
        BY <1>16, <1>t, <2>1, <2>2, Fresh DEF SchedulerRestart, IInv, TaskRuns,
           GateHeld, VerifiedEmpty, LeavingEmpty, Leaving, NotBehind, TaskLife
<1>17. ASSUME TickTask PROVE IInv'
    <2>1. \E p \in {"fence", "work", "empty"} :
             step' \in Steps /\ step'.at = p /\ (p # "fence" => task.enumerated)
        BY <1>17, <1>t, GotoPlace DEF TickTask, Places
    <2>2. TypeOK'
        BY <1>17, <1>t, <2>1 DEF TickTask, TypeOK
    <2> QED
        BY <1>17, <1>t, <2>1, <2>2 DEF TickTask, IInv, TaskRuns, GateHeld,
           VerifiedEmpty, LeavingEmpty, Leaving, NotBehind, TaskLife
<1>18. ASSUME Fence PROVE IInv'
    <2>1. TypeOK'
        BY <1>18, <1>t, RetryKeeps, GotoPlace, Fresh, Zenon DEF Fence, TypeOK, At,
           Places
    <2> QED
        BY <1>18, <1>t, <2>1, RetryKeeps, GotoPlace, Fresh DEF Fence, IInv,
           TaskRuns, GateHeld, VerifiedEmpty, LeavingEmpty, Leaving, NotBehind,
           TaskLife, At, Places
<1>19. ASSUME List PROVE IInv'
    <2>1. CASE Retry /\ UNCHANGED mgr
        BY <1>19, <1>t, <2>1, RetryKeeps, Fresh DEF List, At, TypeOK, IInv,
           TaskRuns, GateHeld, VerifiedEmpty, LeavingEmpty, Leaving, NotBehind,
           TaskLife
    <2>2. ASSUME task' = [task EXCEPT !.enumerated = TRUE, !.listed = data],
                 mgr' = Progress(data),
                 IF data = {} THEN Goto("empty") ELSE step' = Idle
          PROVE  IInv'
        <3>1. /\ task' \in Tasks /\ task'.state = task.state
              /\ task'.retries = task.retries
            BY <1>t, <2>2, Zenon DEF TypeOK, Tasks
        <3>2. step' \in Steps /\ step'.at = (IF data = {} THEN "empty" ELSE "idle")
            BY <1>t, <2>2, GotoPlace, Fresh DEF Places
        <3>3. /\ mgr' \in Runtimes
              /\ mgr'.life = IF data = {} /\ mgr.life = "DRAINING" THEN "EXITING" ELSE mgr.life
            BY <1>t, <2>2, ProgressKeeps
        <3>4. /\ gate /\ task.state = "active"
              /\ UNCHANGED <<nodeVars, mdsVars, saved, reconciled, restarts>>
            BY <1>19 DEF List, At, IInv, GateHeld, TaskRuns
        <3>5. TypeOK'
            BY <1>t, <3>1, <3>2, <3>3, <3>4 DEF TypeOK
        <3>6. NotBehind'
            BY <1>t, <3>3, <3>4 DEF IInv, NotBehind, TypeOK, Lives
        <3> QED
            BY <3>1, <3>2, <3>3, <3>4, <3>5, <3>6 DEF IInv, TaskRuns, GateHeld,
               VerifiedEmpty, LeavingEmpty, Leaving, TaskLife
    <2> QED
        BY <1>19, <2>1, <2>2 DEF List
<1>20. ASSUME Work PROVE IInv'
    <2>1. TypeOK'
        BY <1>20, <1>t, RetryKeeps, GotoPlace, ProgressKeeps, Fresh DEF Work,
           TypeOK, At, Places, Tasks
    <2> QED
        BY <1>20, <1>t, <2>1, RetryKeeps, GotoPlace, ProgressKeeps, Fresh DEF
           Work, IInv, TaskRuns, GateHeld, VerifiedEmpty, LeavingEmpty, Leaving,
           NotBehind, TaskLife, At, Places, TypeOK, Tasks
<1>21. ASSUME VerifyEmpty PROVE IInv'
    <2>1. TypeOK'
        BY <1>21, <1>t, RetryKeeps, GotoPlace, Fresh DEF VerifyEmpty, TypeOK,
           At, Places
    <2> QED
        BY <1>21, <1>t, <2>1, RetryKeeps, GotoPlace, Fresh DEF VerifyEmpty,
           IInv, TaskRuns, GateHeld, VerifiedEmpty, LeavingEmpty, Leaving,
           NotBehind, TaskLife, At, Places
<1>22. ASSUME VerifyReferences PROVE IInv'
    <2>1. TypeOK'
        BY <1>22, <1>t, RetryKeeps, GotoPlace, Fresh DEF VerifyReferences,
           TypeOK, At, Places
    <2> QED
        BY <1>22, <1>t, <2>1, RetryKeeps, GotoPlace, Fresh DEF VerifyReferences,
           IInv, TaskRuns, GateHeld, VerifiedEmpty, LeavingEmpty, Leaving,
           NotBehind, TaskLife, At, Places
<1>23. ASSUME Report PROVE IInv'
    <2>1. TypeOK'
        BY <1>23, <1>t, GotoPlace, ProgressKeeps DEF Report, TypeOK, Places
    <2> QED
        BY <1>23, <1>t, <2>1, GotoPlace, ProgressKeeps DEF Report, IInv,
           TaskRuns, GateHeld, VerifiedEmpty, LeavingEmpty, Leaving, NotBehind,
           TaskLife, At, Places, TypeOK, Lives
<1>24. ASSUME Stop PROVE IInv'
    <2>1. TypeOK'
        BY <1>24, <1>t, RetryKeeps, Fresh DEF Stop, TypeOK, At, Places, Powers,
           Runtimes, Steps
    <2> QED
        BY <1>24, <1>t, <2>1, RetryKeeps, Fresh DEF Stop, IInv, TaskRuns,
           GateHeld, VerifiedEmpty, LeavingEmpty, Leaving, NotBehind, TaskLife,
           At, Places, Runtimes, TypeOK, Steps
<1>25. ASSUME Halt PROVE IInv'
    <2>1. up' \in BOOLEAN
        BY <1>25, <1>t, Zenon DEF Halt, TypeOK
    <2>2. mgr' \in Runtimes /\ mgr'.life = mgr.life
        BY <1>25, <1>t, Zenon DEF Halt, TypeOK, Runtimes, Steps, Powers
    <2>3. TypeOK'
        BY <1>25, <1>t, <2>1, <2>2, RetryKeeps, GotoPlace, Fresh, Zenon DEF Halt,
           TypeOK, At, Places
    <2> QED
        BY <1>25, <1>t, <2>1, <2>2, <2>3, RetryKeeps, GotoPlace, Fresh, Zenon DEF Halt,
           IInv, TaskRuns, GateHeld, VerifiedEmpty, LeavingEmpty, Leaving,
           NotBehind, TaskLife, At, Places, TypeOK
<1>26. ASSUME Finalize PROVE IInv'
    <2>1. CASE Retry /\ UNCHANGED mgr
        BY <1>26, <1>t, <2>1, RetryKeeps, Fresh DEF Finalize, At, TypeOK, IInv,
           TaskRuns, GateHeld, VerifiedEmpty, LeavingEmpty, Leaving, NotBehind,
           TaskLife
    <2>2. ASSUME mgr.life = "EXITING",
                 mgr' = [mgr EXCEPT !.life = "RETIRED", !.power = "OFF"],
                 task' = [task EXCEPT !.state = "completed"], step' = Idle
          PROVE  IInv'
        <3>1. /\ task' \in Tasks /\ task'.state = "completed"
              /\ task'.enumerated = task.enumerated
            BY <1>t, <2>2 DEF TypeOK, Tasks
        <3>2. mgr' \in Runtimes /\ mgr'.life = "RETIRED"
            BY <1>t, <2>2, Zenon DEF TypeOK, Runtimes, Lives, Powers
        <3>3. UNCHANGED <<nodeVars, mdsVars, saved, reconciled, restarts>>
            BY <1>26 DEF Finalize
        <3>4. TypeOK'
            BY <1>t, <2>2, <3>1, <3>2, <3>3, Fresh DEF TypeOK
        <3>5. NotBehind'
            BY <1>t, <3>2, <3>3 DEF NotBehind, TypeOK, Lives
        <3> QED
            BY <2>2, <3>1, <3>2, <3>3, <3>4, <3>5, Fresh DEF IInv, TaskRuns, GateHeld,
               VerifiedEmpty, LeavingEmpty, Leaving, TaskLife
    <2> QED
        BY <1>26, <2>1, <2>2 DEF Finalize
<1>27. CASE UNCHANGED vars
    BY <1>27 DEF vars, IInv, TypeOK, TaskRuns, GateHeld, VerifiedEmpty,
       LeavingEmpty, Leaving, NotBehind, TaskLife
<1> QED
    BY <1>1, <1>2, <1>3, <1>4, <1>5, <1>6, <1>7, <1>8, <1>9, <1>10, <1>11,
       <1>12, <1>13, <1>14, <1>15, <1>16, <1>17, <1>18, <1>19, <1>20, <1>21,
       <1>22, <1>23, <1>24, <1>25, <1>26, <1>27 DEF Next, Migrate

-----------------------------------------------------------------------------
(* The invariant holds for ever. *)
THEOREM Invariance == Spec => []IInv
BY InitIInv, NextIInv, PTL DEF Spec

(* Type correctness: no retry pushes a task past MaxRetries. *)
THEOREM TypeCorrect == Spec => []TypeOK
<1>1. IInv => TypeOK
    BY DEF IInv
<1> QED
    BY <1>1, Invariance, PTL

(* The order of the closeout's checks is enough: a node that counts as     *)
(* EXITING or RETIRED in the scheduler, its snapshot or the CMS is empty.  *)
THEOREM LeavesEmpty == Spec => []ExitingEmpty
<1>1. IInv => ExitingEmpty
    BY DEF IInv, LeavingEmpty, Leaving, ExitingEmpty
<1> QED
    BY <1>1, Invariance, PTL

(* Only Publish changes the catalog, and never behind a reconcile. *)
LEMMA CatalogStep == IInv /\ [Next]_vars => Rank(catalog') >= Rank(catalog) \/ UNCHANGED vars
<1> SUFFICES ASSUME IInv, Next PROVE Rank(catalog') >= Rank(catalog)
    OBVIOUS
<1>1. Rank(catalog) \in Nat
    BY RankOrder DEF IInv, TypeOK, Lives
<1>2. CASE Publish
    BY <1>2 DEF Publish, IInv, NotBehind
<1>3. CASE UNCHANGED catalog
    BY <1>1, <1>3
<1> QED
    BY <1>2, <1>3, Zenon DEF Next, Migrate, mdsVars, Create, FirstWrite, Unlink, GateClose,
       HeartbeatSend, HeartbeatArrive, NodeCrash, NodeStart, RemoveNode, PlannedExit,
       TickStart, PowerTick, Actuate, SaveSnapshot, SchedulerRestart, TickTask, Fence,
       List, Work, VerifyEmpty, VerifyReferences, Report, Stop, Halt, Finalize

(* The committed catalog never takes a node back, whatever snapshot the    *)
(* scheduler restarts from.                                                *)
THEOREM CatalogMonotone == Spec => CatalogForward
<1>1. IInv /\ [Next]_vars => [Rank(catalog') >= Rank(catalog)]_vars
    BY CatalogStep
<1> QED
    BY <1>1, Invariance, PTL DEF Spec, CatalogForward
(* With a stop command configured, no step brings a node back that the     *)
(* closeout has switched off.                                              *)
LEMMA NextKeptOff ==
    ASSUME StopCommand = TRUE, IInv, KeptOff, [Next]_vars
    PROVE  KeptOff'
<1> USE DEF KeptOff, nodeVars, mdsVars, taskVars
<1>t. TypeOK /\ TaskRuns /\ TaskLife
    BY DEF IInv
<1>q. CASE UNCHANGED <<up, mgr, saved, step>>
    BY <1>q
<1>1. CASE HeartbeatArrive
    BY <1>1, <1>t DEF HeartbeatArrive, TypeOK, Runtimes
<1>2. CASE NodeCrash
    BY <1>2, <1>t DEF NodeCrash
<1>3. CASE NodeStart
    BY <1>3, <1>t DEF NodeStart
<1>4. CASE RemoveNode
    BY <1>4, <1>t DEF RemoveNode, TypeOK, Runtimes, TaskRuns
<1>5. CASE PlannedExit
    BY <1>5, <1>t DEF PlannedExit, TypeOK, Runtimes, TaskRuns, TaskLife
<1>6. CASE PowerTick
    BY <1>6, <1>t DEF PowerTick, TypeOK, Runtimes, TaskLife, DesiredPower
<1>7. CASE Actuate
    BY <1>7, <1>t DEF Actuate, TypeOK, Runtimes
<1>8. CASE SaveSnapshot
    BY <1>8, <1>t DEF SaveSnapshot
<1>9. CASE SchedulerRestart
    BY <1>9, <1>t, Fresh DEF SchedulerRestart
<1>10. CASE TickTask
    BY <1>10, <1>t, GotoPlace DEF TickTask, Places, TaskLife
<1>11. CASE Fence
    BY <1>11, <1>t, RetryKeeps, GotoPlace, Fresh DEF Fence, At, Places
<1>12. CASE List
    BY <1>12, <1>t, RetryKeeps, GotoPlace, ProgressKeeps, Fresh DEF List, At,
       Places, TaskLife, TaskRuns
<1>13. CASE Work
    BY <1>13, <1>t, RetryKeeps, GotoPlace, ProgressKeeps, Fresh DEF Work, At,
       Places, TaskLife, TaskRuns
<1>14. CASE VerifyEmpty
    BY <1>14, <1>t, RetryKeeps, GotoPlace, Fresh DEF VerifyEmpty, At, Places
<1>15. CASE VerifyReferences
    BY <1>15, <1>t, RetryKeeps, GotoPlace, Fresh DEF VerifyReferences, At,
       Places
<1>16. CASE Report
    BY <1>16, <1>t, GotoPlace, ProgressKeeps DEF Report, At, Places, TaskLife,
       TaskRuns
<1>17. CASE Stop
    BY <1>17, <1>t, RetryKeeps, Fresh DEF Stop, At, TypeOK, Runtimes, TaskLife
<1>18. CASE Halt
    BY <1>18, <1>t, RetryKeeps, GotoPlace, Fresh, Zenon DEF Halt, At, Places, TypeOK,
       Runtimes, TaskLife
<1>19. CASE Finalize
    BY <1>19, <1>t, RetryKeeps, Fresh, Zenon DEF Finalize, At, TypeOK, Runtimes
<1> QED
    BY <1>q, <1>1, <1>2, <1>3, <1>4, <1>5, <1>6, <1>7, <1>8, <1>9, <1>10, <1>11,
       <1>12, <1>13, <1>14, <1>15, <1>16, <1>17, <1>18, <1>19 DEF Next, Migrate,
       vars, Create, FirstWrite, Unlink, GateClose, HeartbeatSend, TickStart,
       Publish

(* A retired node is off, for every deployment with a stop command.        *)
THEOREM RetiredStaysOff == ASSUME StopCommand = TRUE PROVE Spec => []RetiredIsOff
<1>1. Init => KeptOff
    BY Fresh DEF Init, KeptOff
<1>2. IInv /\ KeptOff /\ [Next]_vars => KeptOff'
    BY NextKeptOff
<1>3. KeptOff => RetiredIsOff
    BY DEF KeptOff, RetiredIsOff
<1> QED
    BY <1>1, <1>2, <1>3, Invariance, PTL DEF Spec
=============================================================================
