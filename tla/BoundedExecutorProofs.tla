------------------------ MODULE BoundedExecutorProofs ------------------------
(* For any number of threads, tasks and keys and any limits: a              *)
(* BoundedExecutor keeps its key limits, loses no wake-up and no thread, and *)
(* leaves no accepted task behind when it stops.                            *)
EXTENDS BoundedExecutor, FiniteSetTheorems, TLAPS

(* Tasks are queued and run once: this is what the counts rest on. *)
Once ==
    /\ IsFiniteSet(running)
    /\ \A i, j \in DOMAIN queue : queue[i] = queue[j] => i = j
    /\ \A i \in DOMAIN queue : queue[i] \notin running

Inv == /\ ExecTypeOK /\ Once
       /\ KeyLimitKept /\ NoLostWakeup /\ NothingLeftBehind /\ ThreadsKept

OfKey(R, k) == {t \in R : KeyOf[t] = k}

-----------------------------------------------------------------------------
(* Removing the i-th element keeps the others, in order. *)
LEMMA WithoutSeq ==
    ASSUME NEW S, NEW s \in Seq(S), NEW i \in DOMAIN s
    PROVE  /\ Without(s, i) \in Seq(S)
           /\ DOMAIN Without(s, i) = 1..(Len(s) - 1)
           /\ \A j \in DOMAIN Without(s, i) :
                 Without(s, i)[j] = s[IF j < i THEN j ELSE j + 1]
<1>1. Len(s) \in Nat /\ i \in 1..Len(s) /\ DOMAIN s = 1..Len(s)
  OBVIOUS
<1>2. \A j \in 1..(Len(s) - 1) : s[j] \in S /\ s[j + 1] \in S
  BY <1>1
<1>3. Len(s) - 1 \in Nat
  BY <1>1
<1>4. Without(s, i) \in [1..(Len(s) - 1) -> S]
  BY <1>2 DEF Without
<1>5. Without(s, i) \in Seq(S)
  BY <1>3, <1>4
<1> QED
  BY <1>4, <1>5 DEF Without

(* One more task running counts for its own key only. *)
LEMMA OneMore ==
    ASSUME NEW R, IsFiniteSet(R), NEW t, t \notin R, NEW k
    PROVE  /\ IsFiniteSet(OfKey(R, k)) /\ IsFiniteSet(R \cup {t})
           /\ Cardinality(R \cup {t}) = Cardinality(R) + 1
           /\ Cardinality(OfKey(R \cup {t}, k)) =
                 Cardinality(OfKey(R, k)) + (IF KeyOf[t] = k THEN 1 ELSE 0)
           /\ Cardinality(OfKey(R, k)) \in Nat /\ Cardinality(R) \in Nat
<1>1. IsFiniteSet(OfKey(R, k))
  BY FS_Subset, OfKey(R, k) \subseteq R DEF OfKey
<1>2. IsFiniteSet(R \cup {t}) /\ Cardinality(R \cup {t}) = Cardinality(R) + 1
  BY FS_AddElement
<1>3. Cardinality(OfKey(R, k)) \in Nat /\ Cardinality(R) \in Nat
  BY <1>1, FS_CardinalityType
<1>4. CASE KeyOf[t] = k
  <2>1. OfKey(R \cup {t}, k) = OfKey(R, k) \cup {t} /\ t \notin OfKey(R, k)
    BY <1>4 DEF OfKey
  <2>2. Cardinality(OfKey(R, k) \cup {t}) = Cardinality(OfKey(R, k)) + 1
    BY <1>1, <2>1, FS_AddElement
  <2>3. Cardinality(OfKey(R \cup {t}, k)) = Cardinality(OfKey(R, k)) + 1
    BY <2>1, <2>2
  <2> QED
    BY ONLY <1>1, <1>2, <1>3, <1>4, <2>3
<1>5. CASE KeyOf[t] # k
  <2>1. OfKey(R \cup {t}, k) = OfKey(R, k)
    BY <1>5 DEF OfKey
  <2> QED
    BY <2>1, <1>1, <1>2, <1>3, <1>5
<1> QED
  BY <1>4, <1>5

(* One task less running never adds to a key. *)
LEMMA OneLess ==
    ASSUME NEW R, IsFiniteSet(R), NEW t \in R, NEW k
    PROVE  /\ IsFiniteSet(R \ {t})
           /\ Cardinality(R \ {t}) = Cardinality(R) - 1
           /\ Cardinality(OfKey(R \ {t}, k)) <= Cardinality(OfKey(R, k))
           /\ Cardinality(OfKey(R \ {t}, k)) \in Nat /\ Cardinality(OfKey(R, k)) \in Nat
           /\ Cardinality(R) \in Nat
<1>1. IsFiniteSet(R \ {t}) /\ Cardinality(R \ {t}) = Cardinality(R) - 1
  BY FS_RemoveElement
<1>2. IsFiniteSet(OfKey(R, k))
  BY FS_Subset, OfKey(R, k) \subseteq R DEF OfKey
<1>3. OfKey(R \ {t}, k) \subseteq OfKey(R, k)
  BY DEF OfKey
<1>4. /\ Cardinality(OfKey(R \ {t}, k)) <= Cardinality(OfKey(R, k))
      /\ IsFiniteSet(OfKey(R \ {t}, k))
  BY <1>2, <1>3, FS_Subset, Zenon
<1> QED
  BY <1>1, <1>2, <1>4, FS_CardinalityType

(* The tasks of a key that run are counted once each. *)
LEMMA ActiveOf == \A k : Active(k) = Cardinality(OfKey(running, k))
  BY DEF Active, OfKey

-----------------------------------------------------------------------------
(* A new executor satisfies the invariant. *)
LEMMA InvInit == ASSUME Workers \in Nat, PerKey \in Nat, ExecInit PROVE Inv
<1>1. IsFiniteSet(running) /\ Cardinality(running) = 0
  BY FS_EmptySet DEF ExecInit
<1>2. \A k : Active(k) = 0
  <2>1. \A k : {t \in running : KeyOf[t] = k} = {}
    BY DEF ExecInit
  <2> QED
    BY <2>1, FS_EmptySet DEF Active
<1>3. queue = <<>> /\ DOMAIN queue = {} /\ queue \in Seq(Tasks)
  BY DEF ExecInit
<1>4. ExecTypeOK
  <2>1. stopping \in BOOLEAN /\ running \in SUBSET Tasks
    BY Zenon DEF ExecInit
  <2>2. ready \in Nat /\ asleep \in Nat /\ gone \in Nat /\ bytes \in Int
    BY SMT DEF ExecInit
  <2> QED
    BY <1>3, <2>1, <2>2 DEF ExecTypeOK
<1>8. Once
  BY <1>1, <1>3, Zenon DEF Once
<1>5. KeyLimitKept
  BY <1>2 DEF KeyLimitKept
<1>6. NoLostWakeup /\ NothingLeftBehind
  BY DEF ExecInit, NoLostWakeup, NothingLeftBehind
<1>7. ThreadsKept
  BY <1>1 DEF ExecInit, ThreadsKept, Created
<1> QED
  BY <1>4, <1>5, <1>6, <1>7, <1>8 DEF Inv

(* A task is queued, or refused when the queue is full or closed. *)
LEMMA SubmitKeeps ==
    ASSUME Workers \in Nat, BytesOf \in [Tasks -> Nat], Inv,
           NEW t \in Tasks \ (Queued \cup running), Submit(t)
    PROVE  Inv'
<1>1. DOMAIN queue = 1..Len(queue) /\ Len(queue) \in Nat
  BY DEF Inv, ExecTypeOK
<1>2. /\ queue' \in Seq(Tasks) /\ DOMAIN queue' = 1..(Len(queue) + 1)
      /\ \A i \in DOMAIN queue' : queue'[i] = IF i = Len(queue) + 1 THEN t ELSE queue[i]
  BY DEF Submit, Inv, ExecTypeOK
<1>3. Cardinality(running) \in Nat
  BY FS_CardinalityType DEF Inv, Once
<1>4. ExecTypeOK'
  BY <1>2 DEF Submit, Inv, ExecTypeOK
<1>5. Once'
  BY <1>1, <1>2 DEF Submit, Inv, Once, Queued
<1>6. KeyLimitKept'
  BY DEF Submit, Inv, KeyLimitKept, Active
<1>7. NoLostWakeup' /\ NothingLeftBehind'
  BY DEF Submit, Accepts, Inv, NoLostWakeup, NothingLeftBehind, ExecTypeOK
<1>8. ThreadsKept'
  <2>1. CASE Created
    BY <2>1, <1>3 DEF Submit, Accepts, Inv, ThreadsKept, ExecTypeOK
  <2>2. CASE ~Created
    <3>0. running = {} /\ gone = 0
      BY <2>2 DEF Created, Inv, ExecTypeOK
    <3>1. Cardinality(running) = 0 /\ gone = 0
      BY <3>0, FS_EmptySet
    <3> QED
      BY <2>2, <3>1 DEF Submit, ThreadsKept, Inv, ExecTypeOK
  <2> QED
    BY <2>1, <2>2
<1> QED
  BY <1>4, <1>5, <1>6, <1>7, <1>8 DEF Inv

(* A worker takes the first task whose key is below its limit. *)
LEMMA TakeKeeps ==
    ASSUME Workers \in Nat, PerKey \in Nat, Inv, Take PROVE Inv'
<1>1. PICK i \in Eligible : /\ queue' = Without(queue, i)
                            /\ running' = running \cup {queue[i]}
  BY DEF Take
<1> DEFINE t == queue[i]
<1>2. /\ i \in DOMAIN queue /\ DOMAIN queue = 1..Len(queue) /\ Len(queue) \in Nat
      /\ t \in Tasks /\ t \notin running /\ Active(KeyOf[t]) < PerKey
  BY DEF Eligible, Inv, ExecTypeOK, Once
<1>3. /\ queue' \in Seq(Tasks) /\ DOMAIN queue' = 1..(Len(queue) - 1)
      /\ \A j \in DOMAIN queue' : queue'[j] = queue[IF j < i THEN j ELSE j + 1]
  BY <1>1, <1>2, WithoutSeq DEF Inv, ExecTypeOK
<1>4. /\ IsFiniteSet(running') /\ Cardinality(running') = Cardinality(running) + 1
      /\ Cardinality(running) \in Nat
  BY <1>1, <1>2, OneMore, Zenon DEF Inv, Once
<1>5. \A k : /\ Active(k) \in Nat
             /\ Active(k)' = Active(k) + (IF KeyOf[t] = k THEN 1 ELSE 0)
  <2> TAKE k
  <2>1. Active(k)' = Cardinality(OfKey(running', k))
    BY DEF Active, OfKey
  <2>2. Active(k) = Cardinality(OfKey(running, k))
    BY DEF Active, OfKey
  <2>3. IsFiniteSet(running) /\ t \notin running
    BY <1>2 DEF Inv, Once
  <2>4. /\ Cardinality(OfKey(running, k)) \in Nat
        /\ Cardinality(OfKey(running \cup {t}, k)) =
              Cardinality(OfKey(running, k)) + (IF KeyOf[t] = k THEN 1 ELSE 0)
    BY <2>3, OneMore
  <2> QED
    BY <1>1, <2>1, <2>2, <2>4
<1>6. ExecTypeOK'
  BY <1>1, <1>2, <1>3 DEF Take, Inv, ExecTypeOK
<1>7. Once'
  <2> DEFINE from(j) == IF j < i THEN j ELSE j + 1
  <2>1. \A j \in DOMAIN queue' : from(j) \in DOMAIN queue /\ from(j) # i
    BY <1>2, <1>3
  <2>2. \A j, k \in DOMAIN queue' : from(j) = from(k) => j = k
    BY <1>2, <1>3
  <2>3. \A j \in DOMAIN queue' : queue'[j] = queue[from(j)]
    BY <1>3
  <2> HIDE DEF from
  <2>4. \A j, k \in DOMAIN queue' : queue'[j] = queue'[k] => j = k
    BY <2>1, <2>2, <2>3 DEF Inv, Once
  <2>5. \A j \in DOMAIN queue' : queue'[j] \notin running'
    BY <1>1, <1>2, <2>1, <2>3 DEF Inv, Once
  <2> QED
    BY <1>4, <2>4, <2>5 DEF Once
<1>8. KeyLimitKept'
  <2> SUFFICES ASSUME NEW u \in Tasks PROVE Active(KeyOf[u])' <= PerKey
    BY DEF KeyLimitKept
  <2>1. Active(KeyOf[u]) <= PerKey
    BY DEF Inv, KeyLimitKept
  <2> QED
    BY <1>2, <1>5, <2>1
<1>9. asleep = 0 /\ gone = 0
  BY <1>2, <1>5 DEF Inv, NoLostWakeup, NothingLeftBehind, ExecTypeOK
<1>10. NoLostWakeup' /\ NothingLeftBehind'
  BY <1>9 DEF Take, NoLostWakeup, NothingLeftBehind
<1>11. ThreadsKept'
  BY <1>4, <1>9 DEF Take, Inv, ThreadsKept, ExecTypeOK, Created
<1> QED
  BY <1>6, <1>7, <1>8, <1>10, <1>11 DEF Inv

(* A task ends and gives its slot and its bytes back. *)
LEMMA FinishKeeps ==
    ASSUME Workers \in Nat, PerKey \in Nat, BytesOf \in [Tasks -> Nat], Inv,
           NEW t \in running, Finish(t)
    PROVE  Inv'
<1>1. IsFiniteSet(running) /\ t \in Tasks
  BY DEF Inv, Once, ExecTypeOK
<1>2. /\ IsFiniteSet(running') /\ Cardinality(running') = Cardinality(running) - 1
      /\ Cardinality(running) \in Nat
  BY <1>1, OneLess, Zenon DEF Finish
<1>3. ExecTypeOK'
  BY <1>1 DEF Finish, Inv, ExecTypeOK
<1>4. Once'
  BY <1>2 DEF Finish, Inv, Once
<1>5. KeyLimitKept'
  <2> SUFFICES ASSUME NEW u \in Tasks PROVE Active(KeyOf[u])' <= PerKey
    BY DEF KeyLimitKept
  <2> DEFINE k == KeyOf[u]
  <2>1. Active(k)' = Cardinality(OfKey(running', k)) /\ Active(k) = Cardinality(OfKey(running, k))
    BY DEF Active, OfKey
  <2>2. /\ Cardinality(OfKey(running', k)) <= Cardinality(OfKey(running, k))
        /\ Cardinality(OfKey(running', k)) \in Nat /\ Cardinality(OfKey(running, k)) \in Nat
    BY <1>1, OneLess, Zenon DEF Finish
  <2>3. Active(k) <= PerKey
    BY DEF Inv, KeyLimitKept
  <2> QED
    BY <2>1, <2>2, <2>3
<1>6. NoLostWakeup' /\ NothingLeftBehind'
  BY DEF Finish, Inv, NoLostWakeup, NothingLeftBehind
<1>7. ThreadsKept'
  BY <1>2 DEF Finish, Inv, ThreadsKept, ExecTypeOK, Created
<1> QED
  BY <1>3, <1>4, <1>5, <1>6, <1>7 DEF Inv

(* A step of the pool keeps the invariant. *)
LEMMA InvStep ==
    ASSUME Workers \in Nat, PerKey \in Nat, BytesOf \in [Tasks -> Nat], Inv,
           [ExecNext]_execVars
    PROVE  Inv'
<1> Cardinality(running) \in Nat
  BY FS_CardinalityType DEF Inv, Once
<1>1. ASSUME NEW t \in Tasks \ (Queued \cup running), Submit(t) PROVE Inv'
  BY <1>1, SubmitKeeps
<1>2. ASSUME NEW t \in Tasks \ (Queued \cup running), StartFails(t) PROVE Inv'
  <2>0. running = {} /\ gone = 0 /\ asleep = 0
    BY <1>2 DEF StartFails, Created, Inv, ExecTypeOK
  <2>1. Cardinality(running) = 0
    BY <2>0, FS_EmptySet
  <2>2. ready' \in Nat /\ ready' <= Workers
    BY <1>2 DEF StartFails
  <2>3. ExecTypeOK' /\ Once' /\ KeyLimitKept'
    BY <1>2, <2>2 DEF StartFails, Inv, ExecTypeOK, Once, KeyLimitKept, Active
  <2>4. NoLostWakeup' /\ NothingLeftBehind'
    BY <1>2, <2>0 DEF StartFails, NoLostWakeup, NothingLeftBehind
  <2>5. ThreadsKept'
    BY <1>2, <2>0, <2>1, <2>2 DEF StartFails, ThreadsKept
  <2> QED
    BY <2>3, <2>4, <2>5 DEF Inv
<1>3. CASE Take
  BY <1>3, TakeKeeps
<1>4. CASE Return
  <2>1. asleep = 0
    BY <1>4 DEF Return, Inv, NoLostWakeup, ExecTypeOK
  <2>2. ExecTypeOK' /\ Once' /\ KeyLimitKept'
    BY <1>4 DEF Return, Inv, ExecTypeOK, Once, KeyLimitKept, Active
  <2> QED
    BY <1>4, <2>1, <2>2 DEF Return, Inv, NoLostWakeup, NothingLeftBehind, ThreadsKept, ExecTypeOK
<1>5. CASE Wait
  <2>1. ExecTypeOK' /\ Once' /\ KeyLimitKept'
    BY <1>5 DEF Wait, Inv, ExecTypeOK, Once, KeyLimitKept, Active
  <2>2. \A i \in DOMAIN queue : Active(KeyOf[queue[i]]) >= PerKey
    <3> SUFFICES ASSUME NEW i \in DOMAIN queue PROVE Active(KeyOf[queue[i]]) >= PerKey
      OBVIOUS
    <3>1. ~(Active(KeyOf[queue[i]]) < PerKey)
      BY <1>5 DEF Wait, Eligible
    <3>2. Active(KeyOf[queue[i]]) \in Nat
      <4>1. IsFiniteSet({t \in running : KeyOf[t] = KeyOf[queue[i]]})
        BY FS_Subset DEF Inv, Once
      <4> QED
        BY <4>1, FS_CardinalityType DEF Active
    <3> QED
      BY <3>1, <3>2
  <2>3. NoLostWakeup'
    BY <1>5, <2>2 DEF Wait, NoLostWakeup, Active
  <2> QED
    BY <1>5, <2>1, <2>3 DEF Wait, Inv, NothingLeftBehind, ThreadsKept, ExecTypeOK, Created
<1>6. ASSUME NEW t \in running, Finish(t) PROVE Inv'
  BY <1>6, FinishKeeps
<1>7. CASE Stop
  <2>1. ExecTypeOK' /\ Once' /\ KeyLimitKept'
    BY <1>7 DEF Stop, Inv, ExecTypeOK, Once, KeyLimitKept, Active
  <2> QED
    BY <1>7, <2>1 DEF Stop, Inv, NoLostWakeup, NothingLeftBehind, ThreadsKept, ExecTypeOK, Created
<1>8. CASE UNCHANGED execVars
  BY <1>8 DEF execVars, threadVars, Inv, ExecTypeOK, Once, KeyLimitKept, Active, NoLostWakeup,
     NothingLeftBehind, ThreadsKept, Created
<1> QED
  BY <1>1, <1>2, <1>3, <1>4, <1>5, <1>6, <1>7, <1>8 DEF ExecNext, Turn

(* Any BoundedExecutor, whatever its callers submit and whenever it stops,  *)
(* keeps the limit of each key, lets no thread sleep beside a task it could *)
(* run, leaves no accepted task behind and loses no thread.                 *)
THEOREM ExecutorSafe ==
    ASSUME Workers \in Nat, PerKey \in Nat, BytesOf \in [Tasks -> Nat]
    PROVE  ExecSpec => [](/\ KeyLimitKept /\ NoLostWakeup
                          /\ NothingLeftBehind /\ ThreadsKept)
<1>1. ExecInit => Inv
  BY InvInit
<1>2. Inv /\ [ExecNext]_execVars => Inv'
  BY InvStep
<1>3. Inv => KeyLimitKept /\ NoLostWakeup /\ NothingLeftBehind /\ ThreadsKept
  BY DEF Inv
<1> QED
  BY <1>1, <1>2, <1>3, PTL DEF ExecSpec
=============================================================================
