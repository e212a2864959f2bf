-------------------------- MODULE FileWriteProofs ---------------------------
(***************************************************************************)
(* The properties of FileWrite for any number of clients, sizes, locks,    *)
(* late requests and restarts.                                             *)
(*                                                                          *)
(* The lock is the argument: a token is granted once, so whatever is        *)
(* admitted under it belongs to one mutation, and that mutation commits     *)
(* one plan, at most twice (the empty record first, then the truncation).   *)
(***************************************************************************)
EXTENDS FileWrite, TLAPS

(* The types the argument needs, without the bounds. *)
Meta == [ver : Nat, size : Nat, tx : Nat]
Plans == [kind : Kinds, token : Nat, size : Nat, expected : Nat]
Calls == [op : {"acquire"}]
           \cup [op : {"release"}, token : Nat]
           \cup [op : {"write"}, token : Nat, unit : Nat]
           \cup [op : {"commit"}, commit : Plans]
Work == [at : Steps, kind : Kinds, from : Nat, upto : Nat, token : Nat,
         size : Nat, ver : Nat, todo : SUBSET Nat]

Typed ==
    /\ tokens \in 0..MaxTokens /\ owner \in {0, tokens}
    /\ table \in Meta /\ disk \in Meta
    /\ rotation \in [by : Clients \cup {NoClient}, commit : Plans, old : Meta]
    /\ stat \in [ver : Nat, size : Nat]
    /\ updates \subseteq [ver : Nat, size : Nat, checked : BOOLEAN, by : Clients \cup {NoClient}]
    /\ late \subseteq Calls
    /\ client \in [Clients -> Work]
    /\ owed \in Nat /\ lost \in BOOLEAN

Busy == {"plan", "write", "commit", "rotate", "stat", "wait"}

(* Tokens of clients were issued and are their own; late commits too. *)
Issued(t) == t \in 1..tokens
Tokened ==
    /\ \A c \in Clients : client[c].at # "idle" => Issued(client[c].token)
    /\ \A c, d \in Clients : c # d /\ client[c].at # "idle" /\ client[d].at # "idle"
                                => client[c].token # client[d].token
    /\ \A m \in late : m.op = "commit" => Issued(m.commit.token)

(* A commit that replaces the table has the lock, and its client waits. *)
Rotating ==
    /\ ~TableFree =>
          /\ Issued(rotation.commit.token) /\ owner = rotation.commit.token
          /\ table = [ver |-> rotation.old.ver + 1, size |-> rotation.commit.size,
                      tx |-> TxId(rotation.commit)]
          /\ rotation.commit.kind = "write" => rotation.commit.size >= rotation.old.size
          /\ rotation.commit.kind = "bootstrap" => rotation.old.ver = 0
          /\ \A c \in Clients : rotation.by = c => client[c].at = "rotate"
          /\ \A c \in Clients : client[c].at \in Busy /\ client[c].token = rotation.commit.token
                                   => rotation.by = c
    /\ \A c \in Clients : client[c].at = "rotate" =>
          ~TableFree /\ rotation.by = c /\ rotation.commit = CommitOf(c)

(* The file on disk is the committed table or gone; its txid was issued. *)
Stored ==
    /\ Committed.ver = 0 => Committed = Absent
    /\ Committed.ver # 0 => \E t \in 1..tokens : Committed.tx \in {t, MaxTokens + t}
    /\ disk \in {Absent, Committed}

(* A late commit is the only one of its token, and its client is done. *)
Single ==
    /\ \A m, o \in late : m.op = "commit" /\ o.op = "commit" /\ m.commit.token = o.commit.token
                             => m = o
    /\ \A m \in late : m.op = "commit" /\ ~TableFree => m.commit.token # rotation.commit.token
    /\ \A m \in late : m.op = "commit" =>
          \A c \in Clients : client[c].at \in Busy => m.commit.token # client[c].token

(* The record tells whether a client's commit was applied, and as what. *)
Known ==
    \A c \in Clients : Committed.ver # 0 =>
        /\ client[c].at \in {"plan", "write"} =>
              Committed.tx # client[c].token /\ Committed.tx # MaxTokens + client[c].token
        /\ client[c].at = "commit" /\ Committed.tx = TxId(CommitOf(c)) =>
              Committed.size = client[c].size

(* A commit whose lock is held was planned on the table as it is, or is it. *)
Current(x) ==
    owner # 0 /\ x.token = owner =>
        /\ x.kind = "write" => x.size >= Committed.size
        /\ x.kind = "bootstrap" => Committed.ver = 0 \/ Committed.tx = TxId(x)
Planned ==
    /\ \A c \in Clients : client[c].at \in {"write", "commit", "rotate"} => Current(CommitOf(c))
    /\ \A m \in late : m.op = "commit" => Current(m.commit)

(* Each answer of the MDS has one client that waits for it. *)
Waits ==
    /\ \A u \in updates : u.by # NoClient => client[u.by].at = "wait"
    /\ \A u, v \in updates : u.by # NoClient /\ u.by = v.by => u = v

(* What clients and the MDS report of the table is not ahead of it. *)
True(ver, size) == ver <= Committed.ver /\ (ver = Committed.ver => size = Committed.size)
Reported ==
    ~lost =>
        /\ stat = Created \/ True(stat.ver, stat.size)
        /\ \A u \in updates : True(u.ver, u.size)
        /\ \A c \in Clients : client[c].at = "stat" => True(client[c].ver, client[c].size)
        /\ Committed.size >= owed

IInv == /\ Typed /\ Tokened /\ Rotating /\ Stored /\ Single /\ Known /\ Planned
        /\ Waits /\ Reported

-----------------------------------------------------------------------------
(* Lemmas. *)

(* A txid tells the token and whether the commit only creates the record. *)
LEMMA TxIdTells ==
    ASSUME NEW x, NEW y, x.token \in 1..MaxTokens, y.token \in 1..MaxTokens
    PROVE  /\ TxId(x) \in Nat /\ TxId(x) \in {x.token, MaxTokens + x.token}
           /\ TxId(x) = TxId(y) => x.token = y.token /\ (x.kind = "bootstrap" <=> y.kind = "bootstrap")
BY WriteAssumption DEF TxId

(* The plan a client would commit from the work w. *)
PlanOf(w) == [kind |-> w.kind, token |-> w.token, expected |-> w.ver, size |-> w.size]

(* A plan made of work has the types and the fields of the work. *)
LEMMA PlanTyped ==
    ASSUME NEW w \in Work
    PROVE  PlanOf(w) \in Plans /\ PlanOf(w).token = w.token /\ PlanOf(w).size = w.size
           /\ PlanOf(w).kind = w.kind /\ PlanOf(w).expected = w.ver
BY DEF PlanOf, Plans, Work

(* A client's commit is the plan of its work. *)
LEMMA CommitOfPlan == \A c : CommitOf(c) = PlanOf(client[c])
BY DEF CommitOf, PlanOf

(* NoMutation and what is left of a mutation are typed. *)
LEMMA NoMutationTyped ==
    /\ NoMutation \in Work /\ NoMutation.at = "idle"
    /\ \A c \in Clients : client[c].token \in Nat =>
          Unlocking(c) \in Work /\ Unlocking(c).at = "release" /\ Unlocking(c).token = client[c].token
BY Zenon DEF NoMutation, Work, Steps, Kinds, Unlocking

(* The table and its replacement stay: so does what is committed. *)
LEMMA SameTable ==
    ASSUME UNCHANGED <<table, rotation>>
    PROVE  Committed' = Committed /\ (TableFree' <=> TableFree)
BY DEF Committed, TableFree

(* A client gives up: its work is over, its commit may still arrive. *)
LEMMA LeaveStep ==
    ASSUME IInv, NEW c \in Clients, client[c].at \in Busy \ {"rotate"},
           client' = [client EXCEPT ![c] = Unlocking(c)],
           UNCHANGED <<owner, tokens, table, disk, rotation, owed, lost>>,
           \A m \in late' : \/ m \in late
                            \/ /\ m \in Calls
                               /\ m.op = "commit" => client[c].at = "commit" /\ m.commit = CommitOf(c),
           updates' \subseteq [ver : Nat, size : Nat, checked : BOOLEAN, by : Clients \cup {NoClient}],
           \A u \in updates' : \E v \in updates : u.ver = v.ver /\ u.size = v.size,
           \A u \in updates' : u.by # NoClient => u \in updates /\ u.by # c,
           stat' = stat \/ \E v \in updates : stat' = [ver |-> v.ver, size |-> v.size]
    PROVE  IInv'
<1> USE DEF IInv
<1>1. Committed' = Committed /\ (TableFree' <=> TableFree)
    BY SameTable
<1>2. /\ client \in [Clients -> Work] /\ client[c] \in Work
      /\ Unlocking(c) \in Work /\ Unlocking(c).at = "release" /\ Unlocking(c).token = client[c].token
    BY NoMutationTyped DEF Typed, Work
<1>3. /\ client'[c] = Unlocking(c) /\ \A d \in Clients : d # c => client'[d] = client[d]
      /\ client' \in [Clients -> Work]
      /\ \A d \in Clients : client'[d].token = client[d].token
      /\ \A d \in Clients : client'[d].at # "release" => d # c
    BY <1>2
<1>4. \A d \in Clients : d # c => CommitOf(d)' = CommitOf(d)
    BY <1>3 DEF CommitOf
<1>5. Issued(client[c].token) /\ \A m \in late' : m.op = "commit" => Issued(m.commit.token)
    BY <1>2, CommitOfPlan, PlanTyped DEF Tokened, Busy
<1>6. Typed'
    <2>1. late' \subseteq Calls
        BY DEF Typed
    <2>2. stat' \in [ver : Nat, size : Nat]
        BY DEF Typed
    <2> QED BY <1>3, <2>1, <2>2 DEF Typed
<1>7. Tokened'
    <2>1. \A d \in Clients : client'[d].at # "idle" => client[d].at # "idle"
        BY <1>3 DEF Busy
    <2> QED BY <1>3, <1>5, <2>1 DEF Tokened, Issued
<1>8. Rotating'
    <2>1. \A d \in Clients : client'[d].at = "rotate" <=> client[d].at = "rotate"
        BY <1>2, <1>3
    <2>2. \A d \in Clients : client'[d].at \in Busy => client[d].at \in Busy
        BY <1>2, <1>3 DEF Busy
    <2>3. \A d \in Clients : client'[d].at = "rotate" => CommitOf(d)' = CommitOf(d)
        BY <1>2, <1>3, <1>4
    <2> QED BY <1>1, <1>3, <2>1, <2>2, <2>3 DEF Rotating, Issued, TxId
<1>9. Stored'
    BY <1>1 DEF Stored
<1>10. Single'
    <2>1. \A m \in late : m.op = "commit" => m.commit.token # client[c].token
        BY DEF Single
    <2>2. ASSUME NEW m \in late', m.op = "commit", m \notin late
          PROVE  m.commit = CommitOf(c) /\ m.commit.token = client[c].token /\ client[c].at = "commit"
        BY <1>2, <2>2, CommitOfPlan, PlanTyped
    <2>3. \A m, o \in late' : m.op = "commit" /\ o.op = "commit" /\ m.commit.token = o.commit.token
                                => m = o
        <3> SUFFICES ASSUME NEW m \in late', NEW o \in late', m.op = "commit", o.op = "commit",
                            m.commit.token = o.commit.token
                     PROVE  m = o
            OBVIOUS
        <3>1. CASE m \in late /\ o \in late
            BY <3>1 DEF Single
        <3>2. CASE m \notin late /\ o \notin late
            <4>1. m.commit = o.commit /\ m \in Calls /\ o \in Calls
                BY <2>2, <3>2
            <4> QED BY <4>1 DEF Calls
        <3>3. CASE m \in late <=> o \notin late
            BY <2>1, <2>2, <3>3
        <3> QED BY <3>1, <3>2, <3>3
    <2>4. \A m \in late' : m.op = "commit" /\ ~TableFree => m.commit.token # rotation.commit.token
        BY <2>2 DEF Single, Rotating, Busy
    <2>5. \A m \in late' : m.op = "commit" =>
              \A d \in Clients : client'[d].at \in Busy => m.commit.token # client'[d].token
        <3> SUFFICES ASSUME NEW m \in late', m.op = "commit", NEW d \in Clients,
                            client'[d].at \in Busy
                     PROVE  m.commit.token # client[d].token
            BY <1>3
        <3>1. d # c /\ client[d].at \in Busy
            BY <1>2, <1>3 DEF Busy
        <3>2. CASE m \in late
            BY <3>1, <3>2 DEF Single
        <3>3. CASE m \notin late
            BY <2>2, <3>1, <3>3 DEF Tokened, Busy
        <3> QED BY <3>2, <3>3
    <2> QED BY <1>1, <2>3, <2>4, <2>5 DEF Single
<1>11. Known'
    <2>1. \A d \in Clients : client'[d].at \in {"plan", "write", "commit"} =>
              d # c /\ client'[d] = client[d] /\ CommitOf(d)' = CommitOf(d)
        BY <1>2, <1>3, <1>4
    <2> QED BY <1>1, <2>1 DEF Known, TxId
<1>12. Planned'
    <2>1. \A d \in Clients : client'[d].at \in {"write", "commit", "rotate"} =>
              client'[d] = client[d] /\ CommitOf(d)' = CommitOf(d)
        BY <1>2, <1>3, <1>4
    <2>2. \A m \in late' : m.op = "commit" => Current(m.commit)
        BY DEF Planned
    <2> QED BY <1>1, <2>1, <2>2 DEF Planned, Current, TxId
<1>13. Waits'
    <2>1. \A u \in updates' : u.by # NoClient => u.by \in Clients
        OBVIOUS
    <2> QED BY <1>3, <2>1 DEF Waits
<1>14. Reported'
    <2>1. \A d \in Clients : client'[d].at = "stat" => client'[d] = client[d]
        BY <1>2, <1>3
    <2>2. ~lost => stat' = Created \/ True(stat'.ver, stat'.size)
        BY DEF Reported
    <2> QED BY <1>1, <2>1, <2>2 DEF Reported, True
<1> QED BY <1>6, <1>7, <1>8, <1>9, <1>10, <1>11, <1>12, <1>13, <1>14

(* A client goes on with work w; the node is as it was. *)
LEMMA GoOnStep ==
    ASSUME IInv, NEW c \in Clients, NEW w \in Work, client' = [client EXCEPT ![c] = w],
           client[c].at \in {"plan", "write", "commit", "stat"},
           w.at \in {"write", "commit", "stat", "wait"}, w.token = client[c].token,
           UNCHANGED <<owner, tokens, table, disk, rotation, late, stat, owed, lost>>,
           w.at = "write" => client[c].at \in {"plan", "write"},
           w.at \in {"write", "commit"} => Current(PlanOf(w)),
           w.at = "commit" /\ Committed.ver # 0 /\ Committed.tx = TxId(PlanOf(w))
               => Committed.size = w.size,
           w.at = "stat" /\ ~lost => True(w.ver, w.size),
           \/ updates' = updates
           \/ \E u \in [ver : Nat, size : Nat, checked : BOOLEAN, by : Clients \cup {NoClient}] :
                 /\ updates' = updates \cup {u} /\ u.by = c /\ w.at = "wait"
                 /\ ~lost => True(u.ver, u.size)
    PROVE  IInv'
<1> USE DEF IInv
<1>1. Committed' = Committed /\ (TableFree' <=> TableFree)
    BY SameTable
<1>2. /\ client'[c] = w /\ \A d \in Clients : d # c => client'[d] = client[d]
      /\ client' \in [Clients -> Work]
    BY DEF Typed
<1>3. \A d \in Clients : client'[d].token = client[d].token
    BY <1>2
<1>4. \A d \in Clients : d # c => CommitOf(d)' = CommitOf(d)
    BY <1>2 DEF CommitOf
<1>5. CommitOf(c)' = PlanOf(w)
    BY <1>2 DEF CommitOf, PlanOf
<1>6. Typed'
    BY <1>2 DEF Typed
<1>7. Tokened'
    <2>1. \A d \in Clients : client'[d].at # "idle" => client[d].at # "idle"
        BY <1>2
    <2> QED BY <1>3, <2>1 DEF Tokened, Issued
<1>8. Rotating'
    <2>1. \A d \in Clients : client'[d].at = "rotate" <=> client[d].at = "rotate"
        BY <1>2
    <2>2. \A d \in Clients : client'[d].at \in Busy => client[d].at \in Busy
        BY <1>2 DEF Busy
    <2>3. \A d \in Clients : client'[d].at = "rotate" => CommitOf(d)' = CommitOf(d)
        BY <1>2, <1>4
    <2> QED BY <1>1, <1>3, <2>1, <2>2, <2>3 DEF Rotating, Issued, TxId
<1>9. Stored'
    BY <1>1 DEF Stored
<1>10. Single'
    <2>1. \A d \in Clients : client'[d].at \in Busy => client[d].at \in Busy
        BY <1>2 DEF Busy
    <2> QED BY <1>1, <1>3, <2>1 DEF Single
<1>11. Known'
    <2> SUFFICES ASSUME NEW d \in Clients, Committed.ver # 0
                 PROVE  /\ client'[d].at \in {"plan", "write"} =>
                              /\ Committed.tx # client'[d].token
                              /\ Committed.tx # MaxTokens + client'[d].token
                        /\ client'[d].at = "commit" /\ Committed.tx = TxId(CommitOf(d)') =>
                              Committed.size = client'[d].size
        BY <1>1 DEF Known, TxId
    <2>1. CASE d = c
        BY <1>2, <1>5, <2>1 DEF Known
    <2>2. CASE d # c
        BY <1>2, <1>4, <2>2 DEF Known
    <2> QED BY <2>1, <2>2
<1>12. Planned'
    <2>1. ASSUME NEW d \in Clients, client'[d].at \in {"write", "commit", "rotate"}
          PROVE  Current(CommitOf(d))'
        <3>1. CASE d = c
            BY <1>1, <1>2, <1>5, <2>1, <3>1 DEF Current, TxId
        <3>2. CASE d # c
            BY <1>1, <1>2, <1>4, <2>1, <3>2 DEF Planned, Current, TxId
        <3> QED BY <3>1, <3>2
    <2>2. ASSUME NEW m \in late', m.op = "commit"
          PROVE  Current(m.commit)'
        BY <1>1, <2>2 DEF Planned, Current, TxId
    <2> HIDE DEF Current
    <2> QED BY <2>1, <2>2 DEF Planned
<1>13. Waits'
    <2>1. \A u \in updates : u.by # NoClient => u.by # c /\ u.by \in Clients /\ client'[u.by].at = "wait"
        BY <1>2 DEF Waits, Typed
    <2> QED BY <1>2, <2>1 DEF Waits
<1>14. Reported'
    <2>1. \A d \in Clients : client'[d].at = "stat" /\ ~lost => True(client'[d].ver, client'[d].size)
        BY <1>2 DEF Reported
    <2>2. \A u \in updates' : ~lost => True(u.ver, u.size)
        BY DEF Reported
    <2> QED BY <1>1, <2>1, <2>2 DEF Reported, True
<1> QED BY <1>6, <1>7, <1>8, <1>9, <1>10, <1>11, <1>12, <1>13, <1>14

(* The lock is granted, freed or left, and no commit is under way with it. *)
LEMMA LockStep ==
    ASSUME IInv, UNCHANGED <<table, disk, rotation, updates, stat, owed, lost>>,
           \A m \in late' : m \in Calls /\ (m.op = "commit" => m \in late),
           \/ /\ \/ UNCHANGED <<owner, tokens>>
                 \/ owner' = 0 /\ UNCHANGED tokens /\ TableFree
              /\ \/ client' = client
                 \/ \E c \in Clients : client[c].at = "release"
                                       /\ client' = [client EXCEPT ![c] = NoMutation]
           \/ /\ owner = 0 /\ tokens < MaxTokens /\ tokens' = tokens + 1 /\ owner' = tokens + 1
              /\ \/ client' = client
                 \/ \E c \in Clients, w \in Work :
                       /\ client[c].at = "idle" /\ client' = [client EXCEPT ![c] = w]
                       /\ w.at = "plan" /\ w.token = tokens + 1
    PROVE  IInv'
<1> USE DEF IInv
<1>1. Committed' = Committed /\ (TableFree' <=> TableFree)
    BY SameTable
<1>2. /\ tokens \in Nat /\ tokens' \in 0..MaxTokens /\ tokens' >= tokens
      /\ owner' \in {0, tokens'} /\ owner \in {0, tokens} /\ MaxTokens \in Nat
      /\ owner' # 0 => owner' = owner \/ owner' = tokens + 1
    BY WriteAssumption DEF Typed
<1>3. /\ client' \in [Clients -> Work]
      /\ \A d \in Clients : \/ client'[d] = client[d]
                            \/ client'[d].at = "idle" /\ client[d].at = "release"
                            \/ /\ client'[d].at = "plan" /\ client[d].at = "idle"
                               /\ client'[d].token = tokens + 1 /\ tokens' = tokens + 1
      /\ \A d, e \in Clients : client'[d] # client[d] /\ client'[e] # client[e] => d = e
    BY NoMutationTyped DEF Typed
<1>4. \A d \in Clients : client'[d] = client[d] => CommitOf(d)' = CommitOf(d)
    BY DEF CommitOf
<1>5. /\ \A d \in Clients : client[d].at # "idle" => Issued(client[d].token)
      /\ \A m \in late : m.op = "commit" => Issued(m.commit.token)
    BY DEF Tokened
<1>6. ~TableFree => owner' = owner
    BY <1>2 DEF Rotating, Issued
<1>7. Typed'
    BY <1>2, <1>3 DEF Typed
<1>8. Tokened'
    <2>1. \A d \in Clients : client'[d].at # "idle" => client'[d].token \in 1..tokens'
        BY <1>2, <1>3, <1>5 DEF Issued
    <2>2. ASSUME NEW d \in Clients, NEW e \in Clients, d # e,
                 client'[d].at # "idle", client'[e].at # "idle"
          PROVE  client'[d].token # client'[e].token
        <3>1. CASE client'[d] = client[d] /\ client'[e] = client[e]
            BY <2>2, <3>1 DEF Tokened
        <3>2. CASE client'[d] # client[d]
            BY <1>2, <1>3, <1>5, <2>2, <3>2 DEF Issued
        <3>3. CASE client'[e] # client[e]
            BY <1>2, <1>3, <1>5, <2>2, <3>3 DEF Issued
        <3> QED BY <3>1, <3>2, <3>3
    <2>3. \A m \in late' : m.op = "commit" => m.commit.token \in 1..tokens'
        BY <1>2, <1>5 DEF Issued
    <2> QED BY <2>1, <2>2, <2>3 DEF Tokened, Issued
<1>9. Rotating'
    <2>1. \A d \in Clients : client'[d].at = "rotate" <=> client[d].at = "rotate"
        BY <1>3
    <2>2. \A d \in Clients : client'[d].at = "rotate" => CommitOf(d)' = CommitOf(d)
        BY <1>3, <1>4
    <2>3. ~TableFree => \A c \in Clients :
              client'[c].at \in Busy /\ client'[c].token = rotation.commit.token => rotation.by = c
        <3> SUFFICES ASSUME ~TableFree, NEW c \in Clients, client'[c].at \in Busy,
                            client'[c].token = rotation.commit.token
                     PROVE  rotation.by = c
            OBVIOUS
        <3>1. Issued(rotation.commit.token)
            BY DEF Rotating
        <3>2. client'[c] = client[c]
            BY <1>2, <1>3, <3>1 DEF Busy, Issued
        <3> QED BY <3>2 DEF Rotating
    <2>4. ~TableFree => Issued(rotation.commit.token)' /\ owner' = rotation.commit.token
        <3> SUFFICES ASSUME ~TableFree
                     PROVE  rotation'.commit.token \in 1..tokens' /\ owner' = rotation.commit.token
            BY DEF Issued
        <3>1. rotation.commit.token \in 1..tokens /\ owner = rotation.commit.token
            BY DEF Rotating, Issued
        <3> QED BY ONLY <1>2, <1>6, <3>1, ~TableFree, UNCHANGED rotation
    <2>5. TxId(rotation.commit)' = TxId(rotation.commit)
        BY DEF TxId
    <2> QED BY <1>1, <2>1, <2>2, <2>3, <2>4, <2>5 DEF Rotating
<1>10. Stored'
    <2>1. Committed.ver # 0 => \E t \in 1..tokens' : Committed.tx \in {t, MaxTokens + t}
        BY <1>2 DEF Stored
    <2> QED BY <1>1, <2>1 DEF Stored
<1>11. Single'
    <2>1. ASSUME NEW m \in late, m.op = "commit", NEW d \in Clients, client'[d].at \in Busy
          PROVE  m.commit.token # client'[d].token
        <3>1. CASE client'[d] = client[d]
            BY <2>1, <3>1 DEF Single
        <3>2. CASE client'[d] # client[d]
            BY <1>2, <1>3, <1>5, <2>1, <3>2 DEF Issued, Busy
        <3> QED BY <3>1, <3>2
    <2> QED BY <1>1, <2>1 DEF Single
<1>12. Known'
    <2> SUFFICES ASSUME NEW d \in Clients, Committed.ver # 0
                 PROVE  /\ client'[d].at \in {"plan", "write"} =>
                              /\ Committed.tx # client'[d].token
                              /\ Committed.tx # MaxTokens + client'[d].token
                        /\ client'[d].at = "commit" /\ Committed.tx = TxId(CommitOf(d)') =>
                              Committed.size = client'[d].size
        BY <1>1 DEF Known, TxId
    <2>1. CASE client'[d] = client[d]
        BY <1>4, <2>1 DEF Known
    <2>2. CASE client'[d].at = "plan" /\ client'[d].token = tokens + 1 /\ tokens' = tokens + 1
        <3>1. PICK t \in 1..tokens : Committed.tx \in {t, MaxTokens + t}
            BY DEF Stored
        <3> QED BY <1>2, <2>2, <3>1
    <2>3. CASE client'[d].at = "idle"
        BY <2>3
    <2> QED BY <1>3, <2>1, <2>2, <2>3
<1>13. Planned'
    <2>1. ASSUME NEW x, Current(x), Issued(x.token)
          PROVE  Current(x)'
        BY <1>1, <1>2, <2>1 DEF Current, TxId, Issued
    <2>2. \A d \in Clients : client'[d].at \in {"write", "commit", "rotate"} =>
              client'[d] = client[d] /\ CommitOf(d)' = CommitOf(d) /\ CommitOf(d).token = client[d].token
        BY <1>3, <1>4 DEF CommitOf
    <2>3. \A d \in Clients : client[d].at \in {"write", "commit", "rotate"} => Issued(client[d].token)
        BY <1>5
    <2>4. ASSUME NEW d \in Clients, client'[d].at \in {"write", "commit", "rotate"}
          PROVE  Current(CommitOf(d))'
        <3>1. PICK x : x = CommitOf(d)
            OBVIOUS
        <3>2. Current(x) /\ Issued(x.token)
            BY <2>2, <2>3, <2>4, <3>1 DEF Planned
        <3>3. Current(x)' /\ CommitOf(d)' = x
            BY <2>1, <2>2, <2>4, <3>1, <3>2
        <3> QED BY <3>3 DEF Current, TxId
    <2>5. ASSUME NEW m \in late', m.op = "commit"
          PROVE  Current(m.commit)'
        BY <1>5, <2>1, <2>5 DEF Planned
    <2> HIDE DEF Current
    <2> QED BY <2>4, <2>5 DEF Planned
<1>14. Waits'
    <2>1. \A u \in updates : u.by # NoClient => u.by \in Clients
        BY DEF Typed
    <2>2. \A u \in updates : u.by # NoClient => client'[u.by].at = "wait"
        BY <1>3, <2>1 DEF Waits
    <2> QED BY <2>2 DEF Waits
<1>15. Reported'
    <2>1. \A d \in Clients : client'[d].at = "stat" => client'[d] = client[d]
        BY <1>3
    <2> QED BY <1>1, <2>1 DEF Reported, True
<1> QED BY <1>7, <1>8, <1>9, <1>10, <1>11, <1>12, <1>13, <1>14, <1>15

(* The empty record and the absence of a commit under way are typed. *)
LEMMA NoRotationTyped ==
    /\ Absent \in Meta /\ Absent.ver = 0 /\ Absent.size = 0
    /\ NoRotation \in [by : Clients \cup {NoClient}, commit : Plans, old : Meta]
    /\ NoRotation.commit.token = 0
BY DEF NoRotation, Absent, Meta, Plans, Kinds

(* A commit is admitted: it was planned on the table it replaces. *)
LEMMA ApplyStep ==
    ASSUME IInv, NEW x \in Plans, NEW by \in Clients \cup {NoClient}, CommitApply(x, by),
           UNCHANGED <<updates, stat, owed, lost>>,
           \/ \E c \in Clients : /\ by = c /\ x = CommitOf(c) /\ client[c].at = "commit"
                                 /\ client' = [client EXCEPT ![c].at = "rotate"]
                                 /\ late' = late
           \/ \E m \in late : /\ by = NoClient /\ m.op = "commit" /\ m.commit = x
                              /\ late' = late \ {m} /\ client' = client
    PROVE  IInv'
<1> USE DEF IInv
<1>1. /\ owner = x.token /\ x.token # 0 /\ TableFree /\ (table.ver = 0 \/ table.tx # TxId(x))
      /\ table' = [ver |-> table.ver + 1, size |-> x.size, tx |-> TxId(x)]
      /\ disk' = Absent /\ rotation' = [by |-> by, commit |-> x, old |-> table]
      /\ UNCHANGED <<owner, tokens>>
    BY DEF CommitApply, CommitAccepted, Allowed, Repeated, NextVersion
<1>2. ~TableFree' /\ Committed = table /\ Committed' = table
    BY <1>1, NoRotationTyped DEF TableFree, Committed
<1>3. /\ client' \in [Clients -> Work]
      /\ \A d \in Clients : /\ client'[d].token = client[d].token /\ client'[d].size = client[d].size
                            /\ client'[d].kind = client[d].kind /\ client'[d].ver = client[d].ver
      /\ \A d \in Clients : client'[d] = client[d] \/ (client[d].at = "commit" /\ client'[d].at = "rotate")
      /\ \A d \in Clients : by = d => client'[d].at = "rotate" /\ client[d].at = "commit" /\ x = CommitOf(d)
      /\ \A d \in Clients : client'[d] # client[d] => by = d
    BY WriteAssumption DEF Typed, Work, Steps
<1>4. \A d \in Clients : CommitOf(d)' = CommitOf(d)
    BY <1>3 DEF CommitOf
<1> DEFINE Alone ==
              /\ late' \subseteq late
              /\ \A m \in late' : m.op = "commit" => m.commit.token # x.token
              /\ \A d \in Clients : client'[d].at \in Busy /\ client'[d].token = x.token => by = d
              /\ Issued(x.token) /\ Current(x)
<1>5. Alone
    <2>1. ASSUME NEW c \in Clients, by = c, x = CommitOf(c), client[c].at = "commit", late' = late
          PROVE  Alone
        <3>1. x.token = client[c].token
            BY <2>1 DEF CommitOf
        <3>2. \A m \in late' : m.op = "commit" => m.commit.token # x.token
            BY <2>1, <3>1 DEF Single, Busy
        <3>3. \A d \in Clients : client'[d].at \in Busy /\ client'[d].token = x.token => by = d
            BY <1>3, <2>1, <3>1 DEF Tokened, Busy
        <3>4. Issued(x.token) /\ Current(x)
            BY <2>1, <3>1 DEF Tokened, Planned
        <3> QED BY <2>1, <3>2, <3>3, <3>4
    <2>2. ASSUME NEW m \in late, by = NoClient, m.op = "commit", m.commit = x,
                 late' = late \ {m}, client' = client
          PROVE  Alone
        <3>1. \A o \in late' : o.op = "commit" => o.commit.token # x.token
            BY <2>2 DEF Single
        <3>2. \A d \in Clients : client'[d].at \in Busy /\ client'[d].token = x.token => by = d
            BY <2>2 DEF Single
        <3>3. Issued(x.token) /\ Current(x)
            BY <2>2 DEF Tokened, Planned
        <3> QED BY <2>2, <3>1, <3>2, <3>3
    <2> QED BY <2>1, <2>2
<1>6. Typed'
    <2>1. table' \in Meta /\ disk' \in Meta
        <3>1. TxId(x) \in Nat /\ table.ver + 1 \in Nat /\ x.size \in Nat
            BY WriteAssumption DEF TxId, Typed, Meta, Plans
        <3> QED BY <1>1, <3>1, NoRotationTyped DEF Meta
    <2>2. rotation' \in [by : Clients \cup {NoClient}, commit : Plans, old : Meta]
        BY <1>1 DEF Typed
    <2> QED BY <1>1, <1>3, <1>5, <2>1, <2>2 DEF Typed
<1>7. Tokened'
    <2>1. \A d \in Clients : client'[d].at # "idle" => client[d].at # "idle"
        BY <1>3
    <2> QED BY <1>1, <1>3, <1>5, <2>1 DEF Tokened, Issued
<1>8. Rotating'
    <2>1. /\ Issued(x.token)' /\ owner' = x.token
          /\ table' = [ver |-> table.ver + 1, size |-> x.size, tx |-> TxId(x)]
        BY <1>1, <1>5 DEF Issued
    <2>2. (x.kind = "write" => x.size >= table.size) /\ (x.kind = "bootstrap" => table.ver = 0)
        BY <1>1, <1>2, <1>5 DEF Current
    <2>3. ASSUME NEW d \in Clients, client'[d].at = "rotate"
          PROVE  by = d /\ x = CommitOf(d)'
        <3>1. client[d].at # "rotate"
            BY <1>1 DEF Rotating
        <3> QED BY <1>3, <1>4, <2>3, <3>1
    <2>4. rotation'.commit = x /\ rotation'.old = table /\ rotation'.by = by
        BY <1>1
    <2>5. TxId(rotation.commit)' = TxId(x)
        BY <2>4 DEF TxId
    <2>6. Issued(rotation.commit.token)'
        BY <1>1, <1>5, <2>4 DEF Issued
    <2> QED BY <1>2, <1>3, <1>5, <2>1, <2>2, <2>3, <2>4, <2>5, <2>6 DEF Rotating
<1>9. Stored'
    BY <1>1, <1>2 DEF Stored
<1>10. Single'
    <2>1. \A d \in Clients : client'[d].at \in Busy => client[d].at \in Busy
        BY <1>3 DEF Busy
    <2> QED BY <1>1, <1>3, <1>5, <2>1 DEF Single
<1>11. Known'
    <2>1. \A d \in Clients : client'[d].at \in {"plan", "write", "commit"} => client'[d] = client[d]
        BY <1>3
    <2> QED BY <1>2, <1>4, <2>1 DEF Known, TxId
<1>12. Planned'
    <2>1. \A d \in Clients : client'[d].at \in {"write", "commit", "rotate"} =>
              client[d].at \in {"write", "commit", "rotate"}
        BY <1>3
    <2> QED BY <1>1, <1>2, <1>4, <1>5, <2>1 DEF Planned, Current, TxId
<1>13. Waits'
    <2>1. \A u \in updates : u.by # NoClient => client'[u.by].at = "wait"
        BY <1>3 DEF Waits, Typed
    <2> QED BY <2>1 DEF Waits
<1>14. Reported'
    <2>1. \A d \in Clients : client'[d].at = "stat" => client'[d] = client[d]
        BY <1>3
    <2> QED BY <1>2, <2>1 DEF Reported, True
<1> QED BY <1>6, <1>7, <1>8, <1>9, <1>10, <1>11, <1>12, <1>13, <1>14

(* The commit under way, if there is one, is undone or dies with the node. *)
LEMMA AbandonStep ==
    ASSUME IInv, rotation' = NoRotation, UNCHANGED <<tokens, disk, late, updates, stat, owed>>,
           owner' \in {owner, 0}, lost' \in BOOLEAN, lost => lost',
           client' = [c \in Clients |-> IF client[c].at = "rotate" THEN Unlocking(c) ELSE client[c]],
           table' = Committed \/ (table' = disk /\ owner' = 0),
           ~lost' => table' = Committed
    PROVE  IInv'
<1> USE DEF IInv
<1>1. TableFree' /\ Committed' = table'
    BY DEF TableFree, Committed
<1>2. Committed \in Meta
    BY DEF Committed, Typed
<1>3. Committed'.ver # 0 => Committed' = Committed
    BY <1>1, NoRotationTyped DEF Stored
<1>4. /\ client' \in [Clients -> Work]
      /\ \A d \in Clients : client'[d] = client[d] \/ (client[d].at = "rotate" /\ client'[d].at = "release")
      /\ \A d \in Clients : client'[d].token = client[d].token /\ client'[d].at # "rotate"
    BY NoMutationTyped DEF Typed, Work
<1>5. \A d \in Clients : client'[d].at # "release" => client'[d] = client[d] /\ CommitOf(d)' = CommitOf(d)
    BY <1>4 DEF CommitOf
<1>6. Typed'
    BY <1>2, <1>4, NoRotationTyped DEF Typed
<1>7. Tokened'
    <2>1. \A d \in Clients : client'[d].at # "idle" => client[d].at # "idle"
        BY <1>4
    <2> QED BY <1>4, <2>1 DEF Tokened, Issued
<1>8. Rotating'
    BY <1>1, <1>4, Zenon DEF Rotating
<1>9. Stored'
    <2>1. Committed'.ver = 0 => Committed' = Absent
        BY <1>1 DEF Stored
    <2>2. disk \in {Absent, table'}
        BY DEF Stored
    <2> QED BY <1>1, <1>3, <2>1, <2>2 DEF Stored
<1>10. Single'
    <2>1. \A d \in Clients : client'[d].at \in Busy => client[d].at \in Busy
        BY <1>4 DEF Busy
    <2> QED BY <1>1, <1>4, <2>1 DEF Single
<1>11. Known'
    <2>1. \A d \in Clients : client'[d].at \in {"plan", "write", "commit"} =>
              client'[d] = client[d] /\ CommitOf(d)' = CommitOf(d)
        BY <1>5
    <2> QED BY <1>3, <2>1, Zenon DEF Known, TxId
<1>12. Planned'
    <2>1. \A d \in Clients : client'[d].at \in {"write", "commit", "rotate"} =>
              client'[d] = client[d] /\ CommitOf(d)' = CommitOf(d)
        BY <1>5
    <2>2. owner' # 0 => Committed' = Committed /\ owner' = owner
        BY <1>1
    <2> QED BY <2>1, <2>2 DEF Planned, Current, TxId
<1>13. Waits'
    <2>1. \A u \in updates : u.by # NoClient => client'[u.by].at = "wait"
        BY <1>4 DEF Waits, Typed
    <2> QED BY <2>1 DEF Waits
<1>14. Reported'
    <2>1. \A d \in Clients : client'[d].at = "stat" => client'[d] = client[d]
        BY <1>5
    <2>2. ~lost' => ~lost /\ Committed' = Committed
        BY <1>1
    <2> QED BY <2>1, <2>2 DEF Reported, True
<1> QED BY <1>6, <1>7, <1>8, <1>9, <1>10, <1>11, <1>12, <1>13, <1>14

(* The MDS checks or writes; a client that waits goes on waiting. *)
LEMMA MdsStep ==
    ASSUME IInv, UNCHANGED <<owner, tokens, table, disk, rotation, late, client, owed, lost>>,
           updates' \subseteq [ver : Nat, size : Nat, checked : BOOLEAN, by : Clients \cup {NoClient}],
           \A u \in updates' : \E v \in updates : u.ver = v.ver /\ u.size = v.size /\ u.by = v.by,
           \A u, v \in updates' : u.by # NoClient /\ u.by = v.by => u = v,
           stat' = stat \/ \E v \in updates : stat' = [ver |-> v.ver, size |-> v.size]
    PROVE  IInv'
<1> USE DEF IInv
<1>1. Committed' = Committed /\ (TableFree' <=> TableFree)
    BY SameTable
<1>2. \A d \in Clients : CommitOf(d)' = CommitOf(d)
    BY DEF CommitOf
<1>3. Typed'
    <2>1. stat' \in [ver : Nat, size : Nat]
        BY DEF Typed
    <2> QED BY <2>1 DEF Typed
<1>4. Tokened' /\ Stored' /\ Single'
    BY <1>1 DEF Tokened, Issued, Stored, Single
<1>5. Rotating'
    BY <1>1, <1>2 DEF Rotating, Issued, TxId
<1>6. Known' /\ Planned'
    BY <1>1, <1>2, Zenon DEF Known, Planned, Current, TxId
<1>7. Waits'
    <2>1. \A v \in updates : v.by # NoClient => client'[v.by].at = "wait"
        BY Zenon DEF Waits
    <2>2. \A u \in updates' : u.by # NoClient => client'[u.by].at = "wait"
        BY <2>1
    <2> QED BY <2>2, Zenon DEF Waits
<1>8. Reported'
    <2>1. ~lost => stat' = Created \/ True(stat'.ver, stat'.size)
        BY DEF Reported
    <2> QED BY <1>1, <2>1 DEF Reported, True
<1> QED BY <1>3, <1>4, <1>5, <1>6, <1>7, <1>8

(* The table is in place: the commit's client goes on, gives up or asks again. *)
LEMMA RotatedStep ==
    ASSUME IInv, Rotated
    PROVE  IInv'
<1> USE DEF IInv
<1> DEFINE x == rotation.commit
<1>1. /\ ~TableFree /\ disk' = table /\ table' = table /\ rotation' = NoRotation
      /\ UNCHANGED <<owner, tokens, late, stat, updates, lost>>
    BY DEF Rotated, RotateEnd, mdsVars
<1>2. TableFree' /\ Committed' = table /\ Committed = rotation.old
    BY <1>1 DEF TableFree, Committed
<1>3. /\ x.token \in 1..tokens /\ owner = x.token /\ tokens \in Nat /\ tokens <= MaxTokens
      /\ x \in Plans /\ MaxTokens \in Nat /\ rotation.old \in Meta
      /\ table.ver = rotation.old.ver + 1 /\ table.size = x.size /\ table.tx = TxId(x)
      /\ x.kind = "write" => x.size >= rotation.old.size
      /\ x.kind = "bootstrap" => rotation.old.ver = 0
    BY <1>1, WriteAssumption DEF Rotating, Issued, Typed
<1>4. TxId(x) \in {x.token, MaxTokens + x.token} /\ x.token \in 1..MaxTokens
    BY <1>3 DEF TxId
<1>5. \/ rotation.by = NoClient /\ client' = client
      \/ \E c \in Clients :
            /\ rotation.by = c
            /\ \/ /\ x.kind = "bootstrap"
                  /\ client' = [client EXCEPT ![c].at = "commit", ![c].kind = "truncate",
                                              ![c].size = client[c].upto, ![c].ver = table.ver]
               \/ /\ x.kind # "bootstrap"
                  /\ client' = [client EXCEPT ![c].at = "stat", ![c].ver = table.ver]
               \/ client' = [client EXCEPT ![c] = Unlocking(c)]
               \/ client' = [client EXCEPT ![c].at = "commit"]
    BY Zenon DEF Rotated, CommitAnswered, Leave, Goto
<1> HIDE DEF x
<1>6. \A d \in Clients : client[d].at = "rotate" <=> rotation.by = d
    BY <1>1, Zenon DEF Rotating
<1>7. \A d \in Clients : rotation.by = d =>
          /\ client[d].token = x.token /\ client[d].size = x.size /\ client[d].kind = x.kind
          /\ client[d].ver = x.expected
    <2> SUFFICES ASSUME NEW d \in Clients, rotation.by = d
                 PROVE  /\ client[d].token = x.token /\ client[d].size = x.size
                        /\ client[d].kind = x.kind /\ client[d].ver = x.expected
        OBVIOUS
    <2>1. x = CommitOf(d)
        BY <1>6, Zenon DEF Rotating, x
    <2> QED BY <2>1 DEF CommitOf
<1> DEFINE Moved ==
          /\ client' \in [Clients -> Work]
          /\ \A d \in Clients : rotation.by # d => client'[d] = client[d]
          /\ \A d \in Clients : rotation.by = d =>
                /\ client'[d].token = x.token
                /\ \/ /\ client'[d].at = "commit" /\ client'[d].kind = "truncate" /\ x.kind = "bootstrap"
                   \/ /\ client'[d].at = "stat" /\ client'[d].ver = table.ver /\ client'[d].size = x.size
                   \/ client'[d].at = "release"
                   \/ /\ client'[d].at = "commit" /\ client'[d].kind = x.kind /\ client'[d].size = x.size
                      /\ client'[d].ver = x.expected
<1>8. Moved
    <2>1. table.ver \in Nat /\ client \in [Clients -> Work]
        BY DEF Typed, Meta
    <2>2. CASE rotation.by = NoClient /\ client' = client
        BY <2>1, <2>2, WriteAssumption
    <2>3. ASSUME NEW c \in Clients, rotation.by = c, NEW w \in Work,
                 client' = [client EXCEPT ![c] = w], w.token = x.token,
                 \/ w.at = "commit" /\ w.kind = "truncate" /\ x.kind = "bootstrap"
                 \/ w.at = "stat" /\ w.ver = table.ver /\ w.size = x.size
                 \/ w.at = "release"
                 \/ w.at = "commit" /\ w.kind = x.kind /\ w.size = x.size /\ w.ver = x.expected
          PROVE  Moved
        <3>1. client' \in [Clients -> Work] /\ client'[c] = w
              /\ \A d \in Clients : d # c => client'[d] = client[d]
            BY <2>1, <2>3
        <3>2. \A d \in Clients : rotation.by = d => d = c
            BY <2>3
        <3> QED BY <2>3, <3>1, <3>2
    <2> HIDE DEF Moved
    <2>4. ASSUME NEW c \in Clients, rotation.by = c, x.kind = "bootstrap",
                 client' = [client EXCEPT ![c].at = "commit", ![c].kind = "truncate",
                                          ![c].size = client[c].upto, ![c].ver = table.ver]
          PROVE  Moved
        <3> DEFINE w == [client[c] EXCEPT !.at = "commit", !.kind = "truncate",
                                          !.size = client[c].upto, !.ver = table.ver]
        <3>1. client[c] \in Work /\ client' = [client EXCEPT ![c] = w]
            BY <2>1, <2>4, Zenon
        <3>2. w \in Work
            BY <2>1, <3>1, Zenon DEF Work, Steps, Kinds
        <3>3. w.at = "commit" /\ w.kind = "truncate" /\ w.token = client[c].token
            BY <3>1 DEF Work
        <3>4. client[c].token = x.token
            BY <1>7, <2>4
        <3> HIDE DEF w
        <3>5. w.token = x.token
            BY <3>3, <3>4
        <3> QED BY ONLY <2>3, <2>4, <3>1, <3>2, <3>3, <3>5, Zenon
    <2>5. ASSUME NEW c \in Clients, rotation.by = c,
                 client' = [client EXCEPT ![c].at = "stat", ![c].ver = table.ver]
          PROVE  Moved
        <3> DEFINE w == [client[c] EXCEPT !.at = "stat", !.ver = table.ver]
        <3>1. client[c] \in Work /\ client' = [client EXCEPT ![c] = w]
            BY <2>1, <2>5, Zenon
        <3>2. w \in Work
            BY <2>1, <3>1, Zenon DEF Work, Steps
        <3>3. w.at = "stat" /\ w.ver = table.ver /\ w.token = client[c].token /\ w.size = client[c].size
            BY <3>1 DEF Work
        <3> HIDE DEF w
        <3> QED BY <1>7, <2>3, <2>5, <3>1, <3>2, <3>3, Zenon
    <2>6. ASSUME NEW c \in Clients, rotation.by = c, client' = [client EXCEPT ![c] = Unlocking(c)]
          PROVE  Moved
        <3>1. client[c].token \in Nat
            BY <2>1 DEF Work
        <3> QED BY <1>7, <2>3, <2>6, <3>1, NoMutationTyped, Zenon
    <2>7. ASSUME NEW c \in Clients, rotation.by = c, client' = [client EXCEPT ![c].at = "commit"]
          PROVE  Moved
        <3> DEFINE w == [client[c] EXCEPT !.at = "commit"]
        <3>1. client[c] \in Work /\ client' = [client EXCEPT ![c] = w]
            BY <2>1, <2>7
        <3>2. w \in Work
            BY <3>1 DEF Work, Steps
        <3>3. /\ w.at = "commit" /\ w.ver = client[c].ver /\ w.token = client[c].token
              /\ w.size = client[c].size /\ w.kind = client[c].kind
            BY <3>1 DEF Work
        <3> HIDE DEF w
        <3> QED BY <1>7, <2>3, <2>7, <3>1, <3>2, <3>3, ZenonT(40)
    <2> QED BY <1>5, <2>2, <2>4, <2>5, <2>6, <2>7, Zenon
<1>9. /\ \A d \in Clients : client'[d].at # "rotate" /\ client'[d].token = client[d].token
      /\ \A d \in Clients : rotation.by # d /\ client[d].at \in Busy => client[d].token # x.token
      /\ \A d \in Clients : rotation.by = d => client[d].at = "rotate" /\ client'[d].at # "idle"
    <2>1. \A d \in Clients : rotation.by # d /\ client[d].at \in Busy => client[d].token # x.token
        BY <1>1 DEF Rotating, x
    <2> QED BY <1>6, <1>7, <1>8, <2>1
<1>10. \A d \in Clients : rotation.by # d => CommitOf(d)' = CommitOf(d)
    BY <1>8 DEF CommitOf
<1>11. Typed'
    <2>1. owed' \in Nat
        <3>1. owed \in Nat /\ rotation.commit.size \in Nat
            BY DEF Typed, Plans
        <3> QED BY <3>1 DEF Rotated, Larger
    <2> QED BY <1>1, <1>8, <2>1, NoRotationTyped DEF Typed
<1>12. Tokened'
    <2>1. \A d \in Clients : client'[d].at # "idle" => client[d].at # "idle"
        BY <1>8, <1>9
    <2> QED BY <1>1, <1>9, <2>1 DEF Tokened, Issued
<1>13. Rotating'
    BY <1>2, <1>9, Zenon DEF Rotating
<1>14. Stored'
    <2>1. table.ver # 0
        BY <1>3 DEF Meta
    <2>2. \E t \in 1..tokens : table.tx \in {t, MaxTokens + t}
        BY <1>3, <1>4
    <2> QED BY <1>1, <1>2, <2>1, <2>2 DEF Stored
<1>15. Single'
    <2>1. \A m \in late : m.op = "commit" => m.commit.token # x.token
        BY <1>1 DEF Single, x
    <2>2. \A m \in late : m.op = "commit" =>
              \A d \in Clients : client'[d].at \in Busy => m.commit.token # client'[d].token
        <3> SUFFICES ASSUME NEW m \in late, m.op = "commit", NEW d \in Clients, client'[d].at \in Busy
                     PROVE  m.commit.token # client'[d].token
            OBVIOUS
        <3>1. CASE rotation.by = d
            BY <1>7, <1>9, <2>1, <3>1
        <3>2. CASE rotation.by # d
            BY <1>8, <3>2 DEF Single
        <3> QED BY <3>1, <3>2
    <2> QED BY <1>1, <1>2, <2>2 DEF Single
<1>16. \A d \in Clients : /\ CommitOf(d)'.kind = client'[d].kind /\ CommitOf(d)'.size = client'[d].size
                          /\ CommitOf(d)'.token = client'[d].token
    BY DEF CommitOf
<1>17. \A d \in Clients : client[d].at # "idle" => client[d].token \in 1..MaxTokens
    BY <1>3 DEF Tokened, Issued
<1>18. Known'
    <2> SUFFICES ASSUME NEW d \in Clients
                 PROVE  /\ client'[d].at \in {"plan", "write"} =>
                              table.tx # client'[d].token /\ table.tx # MaxTokens + client'[d].token
                        /\ client'[d].at = "commit" /\ table.tx = TxId(CommitOf(d)') =>
                              table.size = client'[d].size
        BY <1>2 DEF Known, TxId
    <2>1. CASE rotation.by = d
        <3>1. ~(client'[d].at \in {"plan", "write"})
            BY <1>8, <2>1
        <3>2. CASE client'[d].at = "commit" /\ client'[d].kind = "truncate" /\ x.kind = "bootstrap"
            <4>1. TxId(CommitOf(d)') = client'[d].token /\ client'[d].token = x.token
                BY <1>7, <1>9, <1>16, <2>1, <3>2 DEF TxId
            <4>2. table.tx = MaxTokens + x.token
                BY <1>3, <3>2 DEF TxId
            <4> QED BY <1>3, <1>4, <3>1, <4>1, <4>2
        <3> QED BY <1>3, <1>8, <2>1, <3>1, <3>2
    <2>2. CASE rotation.by # d
        <3>1. client'[d] = client[d] /\ CommitOf(d)' = CommitOf(d)
            BY <1>8, <1>10, <2>2
        <3>2. CASE client[d].at \in {"plan", "write"}
            BY <1>3, <1>4, <1>9, <1>17, <2>2, <3>1, <3>2 DEF Busy
        <3>3. CASE client[d].at = "commit"
            <4>1. client[d].token # x.token /\ CommitOf(d)'.token = client[d].token
                BY <1>9, <1>16, <2>2, <3>1, <3>3, Zenon DEF Busy
            <4>2. TxId(CommitOf(d)') # TxId(x)
                BY <1>4, <1>17, <3>3, <4>1, TxIdTells
            <4> QED BY <1>3, <3>1, <3>3, <4>2
        <3> QED BY <3>1, <3>2, <3>3
    <2> QED BY <2>1, <2>2
<1>19. Planned'
    <2>1. ASSUME NEW d \in Clients, client'[d].at \in {"write", "commit", "rotate"}
          PROVE  Current(CommitOf(d))'
        <3>1. CASE rotation.by # d
            <4>1. client[d].at \in Busy /\ client'[d].token = client[d].token
                BY <1>8, <1>9, <2>1, <3>1, Zenon DEF Busy
            <4>2. CommitOf(d)'.token # owner'
                BY <1>1, <1>3, <1>9, <1>16, <3>1, <4>1, Zenon
            <4> QED BY <4>2, Zenon DEF Current
        <3>2. CASE rotation.by = d
            <4>1. \/ client'[d].kind = "truncate"
                  \/ client'[d].kind = x.kind /\ client'[d].size = x.size
                BY <1>8, <2>1, <3>2
            <4>2. client'[d].kind = "bootstrap" => TxId(CommitOf(d)') = TxId(x)
                BY <1>7, <1>9, <1>16, <3>2, <4>1 DEF TxId
            <4>3. table.size \in Nat
                BY DEF Typed, Meta
            <4>4. CommitOf(d)'.kind = "write" => CommitOf(d)'.size >= table.size
                BY ONLY <1>3, <1>16, <4>1, <4>3
            <4>5. CommitOf(d)'.kind = "bootstrap" => table.tx = TxId(CommitOf(d))'
                BY <1>3, <1>16, <4>2 DEF TxId
            <4> QED BY <1>2, <4>4, <4>5, Zenon DEF Current
        <3> QED BY <3>1, <3>2
    <2>2. \A m \in late : m.op = "commit" => m.commit.token # owner
        BY <1>1, <1>3 DEF Single, x
    <2> QED BY <1>1, <2>1, <2>2, Zenon DEF Planned, Current
<1>20. Waits'
    <2>1. \A d \in Clients : client[d].at = "wait" => client'[d].at = "wait"
        BY <1>6, <1>8
    <2>2. \A u \in updates : u.by # NoClient => u.by \in Clients
        BY DEF Typed
    <2> QED BY <1>1, <2>1, <2>2 DEF Waits
<1>21. Reported'
    <2> SUFFICES ASSUME ~lost
                 PROVE  /\ stat = Created \/ True(stat.ver, stat.size)'
                        /\ \A u \in updates : True(u.ver, u.size)'
                        /\ \A d \in Clients : client'[d].at = "stat" => True(client[d].ver, client[d].size)'
                        /\ table.size >= owed'
        BY <1>1, <1>2 DEF Reported, True
    <2>1. ASSUME NEW v \in Nat, NEW s, True(v, s)
          PROVE  v <= table.ver /\ (v = table.ver => s = table.size)
        BY <1>2, <1>3, <2>1 DEF True, Meta
    <2>2. stat = Created \/ True(stat.ver, stat.size)'
        BY <1>1, <1>2, <2>1 DEF Reported, Typed, True
    <2>3. \A u \in updates : True(u.ver, u.size)'
        BY <1>2, <2>1 DEF Reported, Typed, True
    <2>4. ASSUME NEW d \in Clients, client'[d].at = "stat" PROVE True(client[d].ver, client[d].size)'
        <3>1. CASE rotation.by = d
            BY <1>2, <1>3, <1>8, <2>4, <3>1 DEF True, Meta
        <3>2. CASE rotation.by # d
            <4>1. client'[d] = client[d] /\ client[d].ver \in Nat
                BY <1>8, <3>2 DEF Typed, Work
            <4> QED BY <1>2, <2>1, <2>4, <4>1, Zenon DEF Reported, True
        <3> QED BY <3>1, <3>2
    <2>5. table.size >= owed'
        <3>1. owed \in Nat /\ rotation.old.size \in Nat /\ x.size \in Nat /\ rotation.old.size >= owed
            BY <1>2, <1>3 DEF Typed, Reported, Meta, Plans
        <3>2. owed' = CASE x.kind = "write" -> Larger(owed, x.size)
                        [] x.kind = "truncate" -> x.size
                        [] OTHER -> owed
            BY DEF Rotated, x
        <3>3. CASE x.kind = "write"
            BY <1>3, <3>1, <3>2, <3>3 DEF Larger
        <3>4. CASE x.kind = "truncate"
            BY <1>3, <3>1, <3>2, <3>4
        <3>5. CASE x.kind = "bootstrap"
            <4>1. rotation.old.size = 0
                BY <1>2, <1>3, <3>5 DEF Stored, Absent
            <4> QED BY <1>3, <3>1, <3>2, <3>5, <4>1
        <3> QED BY <1>3, <3>3, <3>4, <3>5 DEF Plans, Kinds
    <2> QED BY <2>2, <2>3, <2>4, <2>5
<1> QED BY <1>11, <1>12, <1>13, <1>14, <1>15, <1>18, <1>19, <1>20, <1>21

-----------------------------------------------------------------------------
(* Every action keeps the invariant. *)

(* What a caller asks for is work. *)
LEMMA AskedTyped ==
    ASSUME NEW m \in Asked
    PROVE  m \in Work
<1>1. ASSUME NEW r \in Sizes \X Sizes, m = [NoMutation EXCEPT !.from = r[1], !.upto = r[2]]
      PROVE  m \in Work
    <2>1. r[1] \in Nat /\ r[2] \in Nat
        BY WriteAssumption DEF Sizes
    <2> QED BY <1>1, <2>1, Zenon DEF NoMutation, Work, Steps, Kinds
<1>2. ASSUME NEW upto \in Sizes, m = [NoMutation EXCEPT !.kind = "truncate", !.upto = upto]
      PROVE  m \in Work
    <2>1. upto \in Nat
        BY WriteAssumption DEF Sizes
    <2> QED BY <1>2, <2>1, Zenon DEF NoMutation, Work, Steps, Kinds
<1> QED BY <1>1, <1>2, Zenon DEF Asked

(* A call without an answer adds at most itself to the late ones. *)
LEMMA UnansweredLate ==
    ASSUME NEW m, Unanswered(m)
    PROVE  /\ late' \subseteq late \cup {m}
           /\ UNCHANGED <<owner, tokens, table, disk, rotation, updates, stat, owed, lost>>
BY DEF Unanswered, nodeVars, mdsVars, historyVars

(* A client that waits for no answer of the MDS gives up. *)
LEMMA GiveUpStep ==
    ASSUME IInv, NEW c \in Clients, client[c].at \in {"plan", "write", "commit", "stat"}, Leave(c),
           UNCHANGED <<owner, tokens, table, disk, rotation, updates, stat, owed, lost>>,
           \A m \in late' : \/ m \in late
                            \/ /\ m \in Calls
                               /\ m.op = "commit" => client[c].at = "commit" /\ m.commit = CommitOf(c)
    PROVE  IInv'
<1>1. updates' = updates /\ stat' = stat
    OBVIOUS
<1>2. updates \subseteq [ver : Nat, size : Nat, checked : BOOLEAN, by : Clients \cup {NoClient}]
    BY DEF IInv, Typed
<1>3. \A u \in updates : u.by # NoClient => u.by # c
    BY DEF IInv, Waits
<1>4. client[c].at \in Busy \ {"rotate"} /\ client' = [client EXCEPT ![c] = Unlocking(c)]
    BY DEF Busy, Leave
<1> QED BY <1>1, <1>2, <1>3, <1>4, LeaveStep, Zenon

(* A client gets the lock, or asks for it in vain. *)
LEMMA AcquireStep ==
    ASSUME IInv, NEW c \in Clients, Acquire(c)
    PROVE  IInv'
<1>1. late \subseteq Calls /\ tokens \in Nat
    BY WriteAssumption DEF IInv, Typed
<1>2. CASE Grant /\ UNCHANGED <<table, disk, rotation, data, mdsVars, late, historyVars, restarts>>
           /\ \/ \E m \in Asked :
                    client' = [client EXCEPT ![c] = [m EXCEPT !.at = "plan", !.token = tokens + 1]]
              \/ UNCHANGED client
    <2>1. CASE UNCHANGED client
        BY <1>1, <1>2, <2>1, LockStep DEF Grant, mdsVars, historyVars
    <2>2. ASSUME NEW m \in Asked,
                 client' = [client EXCEPT ![c] = [m EXCEPT !.at = "plan", !.token = tokens + 1]]
          PROVE  IInv'
        <3> DEFINE w == [m EXCEPT !.at = "plan", !.token = tokens + 1]
        <3>a. m \in Work /\ tokens + 1 \in Nat
            BY <1>1, AskedTyped
        <3>b. w \in Work
            BY <3>a, Zenon DEF Work, Steps
        <3>1. w \in Work /\ w.at = "plan" /\ w.token = tokens + 1
            BY <3>a, <3>b DEF Work
        <3>2. client[c].at = "idle" /\ client' = [client EXCEPT ![c] = w]
            BY <2>2, Zenon DEF Acquire
        <3> HIDE DEF w
        <3>3. \E k \in Clients, z \in Work :
                  /\ client[k].at = "idle" /\ client' = [client EXCEPT ![k] = z]
                  /\ z.at = "plan" /\ z.token = tokens + 1
            BY <3>1, <3>2, Zenon
        <3> QED BY <1>1, <1>2, <3>3, LockStep, Zenon DEF Grant, mdsVars, historyVars
    <2> QED BY <1>2, <2>1, <2>2, Zenon
<1>3. CASE Unanswered([op |-> "acquire"]) /\ UNCHANGED client
    <2>1. [op |-> "acquire"] \in Calls /\ [op |-> "acquire"].op # "commit"
        BY DEF Calls
    <2> QED BY <1>1, <1>3, <2>1, UnansweredLate, LockStep
<1> QED BY <1>2, <1>3, Zenon DEF Acquire

(* A client releases its lock, once, whatever comes of it. *)
LEMMA ReleaseStep ==
    ASSUME IInv, NEW c \in Clients, Release(c)
    PROVE  IInv'
<1>1. late \subseteq Calls /\ client[c].token \in Nat
    BY DEF IInv, Typed, Work
<1>2. client[c].at = "release" /\ client' = [client EXCEPT ![c] = NoMutation]
    BY DEF Release
<1>3. CASE Free(client[c].token) /\ UNCHANGED <<mdsVars, late, historyVars, restarts>>
    BY <1>1, <1>2, <1>3, LockStep, Zenon DEF Free, mdsVars, historyVars
<1>4. CASE Unanswered([op |-> "release", token |-> client[c].token])
    <2> DEFINE m == [op |-> "release", token |-> client[c].token]
    <2>1. m \in Calls /\ m.op # "commit"
        BY <1>1 DEF Calls
    <2> HIDE DEF m
    <2>2. \A o \in late' : o \in Calls /\ (o.op = "commit" => o \in late)
        <3>1. late' \subseteq late \cup {m}
            BY <1>4, UnansweredLate, Zenon DEF m
        <3> QED BY ONLY <1>1, <2>1, <3>1
    <2> QED BY <1>2, <1>4, <2>2, UnansweredLate, LockStep, Zenon
<1> QED BY <1>3, <1>4 DEF Release

(* A mutation is planned on the table as it is, under its lock. *)
LEMMA PlanStep ==
    ASSUME IInv, NEW c \in Clients, Plan(c)
    PROVE  IInv'
<1>1. /\ client \in [Clients -> Work] /\ client[c] \in Work /\ client[c].at = "plan"
      /\ table \in Meta /\ table.ver \in Nat /\ table.size \in Nat
      /\ client[c].upto \in Nat /\ client[c].from \in Nat
    BY Zenon DEF IInv, Typed, Plan, Work, Meta
<1>2. UNCHANGED <<owner, tokens, table, disk, rotation, late, updates, stat, owed, lost>>
    BY DEF Plan, nodeVars, mdsVars, historyVars
<1>3. CASE /\ client[c].kind = "write" /\ TableFree
           /\ client' = [client EXCEPT ![c].at = "write", ![c].size = NewSize(c),
                            ![c].ver = table.ver, ![c].todo = (client[c].from + 1)..client[c].upto,
                            ![c].from = 0, ![c].upto = 0]
    <2> DEFINE w == [client[c] EXCEPT !.at = "write", !.size = NewSize(c), !.ver = table.ver,
                                      !.todo = (client[c].from + 1)..client[c].upto,
                                      !.from = 0, !.upto = 0]
    <2>1. NewSize(c) \in Nat /\ NewSize(c) >= table.size
        BY <1>1, <1>3 DEF NewSize, Larger
    <2>2. (client[c].from + 1)..client[c].upto \in SUBSET Nat
        BY <1>1
    <2>3. w \in Work
        BY <1>1, <2>1, <2>2, Zenon DEF Work, Steps
    <2>4. /\ w.at = "write" /\ w.token = client[c].token /\ w.size = NewSize(c) /\ w.kind = "write"
        BY <1>1, <1>3 DEF Work
    <2>5. client' = [client EXCEPT ![c] = w]
        BY <1>1, <1>3, Zenon
    <2> HIDE DEF w
    <2>6. Current(PlanOf(w))
        BY <1>3, <2>1, <2>3, <2>4, PlanTyped DEF Current, Committed
    <2> QED BY <1>1, <1>2, <2>3, <2>4, <2>5, <2>6, GoOnStep, Zenon
<1>4. CASE /\ client[c].kind = "truncate" /\ TableFree /\ table.ver # 0
           /\ client' = [client EXCEPT ![c].at = "commit", ![c].size = NewSize(c), ![c].ver = table.ver]
    <2> DEFINE w == [client[c] EXCEPT !.at = "commit", !.size = NewSize(c), !.ver = table.ver]
    <2>1. NewSize(c) \in Nat
        BY <1>1, <1>4 DEF NewSize
    <2>2. w \in Work
        BY <1>1, <2>1, Zenon DEF Work, Steps
    <2>3. /\ w.at = "commit" /\ w.token = client[c].token /\ w.kind = "truncate"
        BY <1>1, <1>4 DEF Work
    <2>4. client' = [client EXCEPT ![c] = w]
        BY <1>1, <1>4, Zenon
    <2> HIDE DEF w
    <2>5. Current(PlanOf(w))
        BY <2>2, <2>3, PlanTyped DEF Current
    <2>6. Committed.ver # 0 => Committed.tx # TxId(PlanOf(w))
        BY <1>1, <2>2, <2>3, PlanTyped DEF IInv, Known, TxId
    <2> QED BY <1>1, <1>2, <2>2, <2>3, <2>4, <2>5, <2>6, GoOnStep, Zenon
<1>5. ASSUME NEW hint \in Sizes, TableFree, table.ver = 0,
             client' = [client EXCEPT ![c].at = "commit", ![c].kind = "bootstrap", ![c].size = hint]
      PROVE  IInv'
    <2> DEFINE w == [client[c] EXCEPT !.at = "commit", !.kind = "bootstrap", !.size = hint]
    <2>1. hint \in Nat
        BY WriteAssumption DEF Sizes
    <2>2. w \in Work
        BY <1>1, <2>1, Zenon DEF Work, Steps, Kinds
    <2>3. /\ w.at = "commit" /\ w.token = client[c].token /\ w.kind = "bootstrap"
        BY <1>1 DEF Work
    <2>4. client' = [client EXCEPT ![c] = w]
        BY <1>1, <1>5, Zenon
    <2> HIDE DEF w
    <2>5. Committed.ver = 0
        BY <1>5 DEF Committed
    <2>6. Current(PlanOf(w))
        BY <2>2, <2>3, <2>5, PlanTyped DEF Current
    <2> QED BY <1>1, <1>2, <2>2, <2>3, <2>4, <2>5, <2>6, GoOnStep, Zenon
<1>6. CASE Leave(c)
    BY <1>1, <1>2, <1>6, GiveUpStep
<1> QED BY <1>3, <1>4, <1>5, <1>6, Zenon DEF Plan

(* Objects are written; the plan does not change. *)
LEMMA WriteObjectStep ==
    ASSUME IInv, NEW c \in Clients, WriteObject(c)
    PROVE  IInv'
<1>1. /\ client \in [Clients -> Work] /\ client[c] \in Work /\ client[c].at = "write"
      /\ client[c].token \in Nat /\ client[c].todo \subseteq Nat /\ late \subseteq Calls
    BY DEF IInv, Typed, WriteObject, Work
<1>2. Current(PlanOf(client[c]))
    BY <1>1, CommitOfPlan DEF IInv, Planned
<1>3. PICK u \in client[c].todo :
          \/ /\ \/ client' = [client EXCEPT ![c].todo = @ \ {u}]
                \/ Leave(c)
             /\ UNCHANGED <<owner, tokens, table, disk, rotation, mdsVars, late, historyVars, restarts>>
          \/ Unanswered([op |-> "write", token |-> client[c].token, unit |-> u]) /\ Leave(c)
    BY DEF WriteObject
<1>4. CASE /\ client' = [client EXCEPT ![c].todo = @ \ {u}]
           /\ UNCHANGED <<owner, tokens, table, disk, rotation, mdsVars, late, historyVars, restarts>>
    <2> DEFINE w == [client[c] EXCEPT !.todo = client[c].todo \ {u}]
    <2>1. client[c].todo \ {u} \in SUBSET Nat
        BY <1>1
    <2>2. w \in Work
        BY <1>1, <2>1 DEF Work
    <2>3. /\ w.at = "write" /\ w.token = client[c].token /\ PlanOf(w) = PlanOf(client[c])
        BY <1>1 DEF Work, PlanOf
    <2>4. client' = [client EXCEPT ![c] = w]
        BY <1>1, <1>4
    <2> HIDE DEF w
    <2> QED BY <1>1, <1>2, <1>4, <2>2, <2>3, <2>4, GoOnStep, Zenon DEF mdsVars, historyVars
<1>5. CASE /\ Leave(c)
           /\ UNCHANGED <<owner, tokens, table, disk, rotation, mdsVars, late, historyVars, restarts>>
    BY <1>1, <1>5, GiveUpStep DEF mdsVars, historyVars
<1>6. CASE Unanswered([op |-> "write", token |-> client[c].token, unit |-> u]) /\ Leave(c)
    <2> DEFINE m == [op |-> "write", token |-> client[c].token, unit |-> u]
    <2>1. m \in Calls /\ m.op # "commit"
        BY <1>1 DEF Calls
    <2> HIDE DEF m
    <2>2. \A o \in late' : o \in late \/ (o \in Calls /\ o.op # "commit")
        <3>1. late' \subseteq late \cup {m}
            BY <1>6, UnansweredLate, Zenon DEF m
        <3> QED BY ONLY <2>1, <3>1
    <2> QED BY <1>1, <1>6, <2>2, UnansweredLate, GiveUpStep
<1> QED BY <1>3, <1>4, <1>5, <1>6

(* All objects are written: what was planned is committed. *)
LEMMA WritesDoneStep ==
    ASSUME IInv, NEW c \in Clients, WritesDone(c)
    PROVE  IInv'
<1>1. /\ client \in [Clients -> Work] /\ client[c] \in Work /\ client[c].at = "write"
      /\ client[c].token \in 1..MaxTokens
    <2>1. client \in [Clients -> Work] /\ tokens \in 0..MaxTokens
        BY DEF IInv, Typed
    <2>2. client[c].at = "write"
        BY DEF WritesDone
    <2>3. client[c].token \in 1..tokens
        BY <2>2 DEF IInv, Tokened, Issued
    <2> QED BY <2>1, <2>2, <2>3, WriteAssumption
<1>2. UNCHANGED <<owner, tokens, table, disk, rotation, late, updates, stat, owed, lost>>
    BY DEF WritesDone, nodeVars, mdsVars, historyVars
<1> DEFINE w == [client[c] EXCEPT !.at = "commit"]
<1>3. w \in Work
    BY <1>1 DEF Work, Steps
<1>4. w.at = "commit" /\ w.token = client[c].token /\ PlanOf(w) = PlanOf(client[c])
    BY <1>1 DEF Work, PlanOf
<1>5. client' = [client EXCEPT ![c] = w]
    BY <1>1 DEF WritesDone, Goto
<1> HIDE DEF w
<1>6. Current(PlanOf(w))
    BY <1>1, <1>4, CommitOfPlan DEF IInv, Planned
<1>7. Committed.ver # 0 => Committed.tx # TxId(PlanOf(w))
    BY <1>1, <1>3, <1>4, PlanTyped, Zenon DEF IInv, Known, TxId
<1> QED BY <1>1, <1>2, <1>3, <1>4, <1>5, <1>6, <1>7, GoOnStep, Zenon

(* A commit is applied, recognised as a repetition, or not answered. *)
LEMMA CommitStep ==
    ASSUME IInv, NEW c \in Clients, Commit(c)
    PROVE  IInv'
<1>1. /\ client \in [Clients -> Work] /\ client[c] \in Work /\ client[c].at = "commit"
      /\ client[c].upto \in Nat /\ client[c].token \in 1..MaxTokens
      /\ table.ver \in Nat /\ MaxTokens \in Nat
    <2>1. client \in [Clients -> Work] /\ tokens \in 0..MaxTokens /\ table \in Meta
        BY DEF IInv, Typed
    <2>2. client[c].at = "commit"
        BY Zenon DEF Commit
    <2>3. client[c].token \in 1..tokens
        BY <2>2 DEF IInv, Tokened, Issued
    <2>4. client[c].token \in 1..MaxTokens
        BY <2>1, <2>3, WriteAssumption
    <2> QED BY <2>1, <2>2, <2>4, WriteAssumption DEF Work, Meta
<1>2. /\ CommitOf(c) \in Plans /\ CommitOf(c).token = client[c].token
      /\ CommitOf(c).kind = client[c].kind
    BY <1>1, CommitOfPlan, PlanTyped
<1>3. CASE /\ CommitApply(CommitOf(c), c) /\ Goto(c, "rotate")
           /\ UNCHANGED <<mdsVars, late, historyVars, restarts>>
    <2>1. PICK x \in Plans : x = CommitOf(c)
        BY <1>2
    <2> QED BY <1>1, <1>3, <2>1, ApplyStep, Zenon DEF Goto, mdsVars, historyVars
<1>4. CASE /\ TableFree /\ Repeated(CommitOf(c)) /\ CommitAnswered(c, CommitOf(c), table.ver)
           /\ UNCHANGED <<nodeVars, mdsVars, late, historyVars, restarts>>
    <2>1. /\ Committed = table /\ table.ver # 0 /\ table.tx = TxId(CommitOf(c))
          /\ table.size = client[c].size
        BY <1>1, <1>4, Zenon DEF Repeated, Committed, IInv, Known
    <2>2. UNCHANGED <<owner, tokens, table, disk, rotation, late, updates, stat, owed, lost>>
        BY <1>4 DEF nodeVars, mdsVars, historyVars
    <2>3. CASE /\ client[c].kind = "bootstrap"
               /\ client' = [client EXCEPT ![c].at = "commit", ![c].kind = "truncate",
                                           ![c].size = client[c].upto, ![c].ver = table.ver]
        <3> DEFINE w == [client[c] EXCEPT !.at = "commit", !.kind = "truncate",
                                          !.size = client[c].upto, !.ver = table.ver]
        <3>1. w \in Work
            BY <1>1, Zenon DEF Work, Steps, Kinds
        <3>2. w.at = "commit" /\ w.token = client[c].token /\ w.kind = "truncate"
            BY <1>1 DEF Work
        <3>3. client' = [client EXCEPT ![c] = w]
            BY <1>1, <2>3, Zenon
        <3> HIDE DEF w
        <3>4. Current(PlanOf(w))
            BY <3>1, <3>2, PlanTyped DEF Current
        <3>5. TxId(PlanOf(w)) = client[c].token
            BY <3>1, <3>2, PlanTyped DEF TxId
        <3>6. Committed.tx = MaxTokens + client[c].token
            BY <1>2, <2>1, <2>3 DEF TxId
        <3>7. Committed.tx # TxId(PlanOf(w))
            BY <1>1, <3>5, <3>6
        <3> QED BY <1>1, <2>2, <3>1, <3>2, <3>3, <3>4, <3>7, GoOnStep, Zenon
    <2>4. CASE client' = [client EXCEPT ![c].at = "stat", ![c].ver = table.ver]
        <3> DEFINE w == [client[c] EXCEPT !.at = "stat", !.ver = table.ver]
        <3>1. w \in Work
            BY <1>1, Zenon DEF Work, Steps
        <3>2. /\ w.at = "stat" /\ w.token = client[c].token /\ w.ver = table.ver
              /\ w.size = client[c].size
            BY <1>1 DEF Work
        <3>3. client' = [client EXCEPT ![c] = w]
            BY <1>1, <2>4, Zenon
        <3> HIDE DEF w
        <3>4. True(w.ver, w.size)
            <4>1. w.ver = Committed.ver /\ w.size = Committed.size /\ Committed.ver \in Nat
                BY <1>1, <2>1, <3>2, Zenon
            <4> QED BY ONLY <4>1 DEF True
        <3> QED BY <1>1, <2>2, <3>1, <3>2, <3>3, <3>4, GoOnStep, Zenon
    <2>5. CASE Leave(c)
        BY <1>1, <2>2, <2>5, GiveUpStep
    <2> QED BY <1>2, <1>4, <2>3, <2>4, <2>5 DEF CommitAnswered
<1>5. CASE Unanswered([op |-> "commit", commit |-> CommitOf(c)]) /\ Leave(c)
    <2> DEFINE m == [op |-> "commit", commit |-> CommitOf(c)]
    <2>1. m \in Calls /\ m.op = "commit" /\ m.commit = CommitOf(c)
        BY <1>2 DEF Calls
    <2> HIDE DEF m
    <2>2. \A o \in late' : o \in late \/ o = m
        BY <1>5, UnansweredLate DEF m
    <2> QED BY <1>1, <1>5, <2>1, <2>2, UnansweredLate, GiveUpStep
<1> QED BY <1>3, <1>4, <1>5, Zenon DEF Commit

(* What the node committed is reported to the MDS. *)
LEMMA SendStatStep ==
    ASSUME IInv, NEW c \in Clients, SendStat(c)
    PROVE  IInv'
<1>1. /\ client \in [Clients -> Work] /\ client[c] \in Work /\ client[c].at = "stat"
      /\ client[c].ver \in Nat /\ client[c].size \in Nat
    BY DEF IInv, Typed, SendStat, Work
<1>2. UNCHANGED <<owner, tokens, table, disk, rotation, late, stat, owed, lost>>
    BY DEF SendStat, nodeVars, historyVars
<1>3. CASE /\ updates' = updates \cup {[ver |-> client[c].ver, size |-> client[c].size,
                                        checked |-> FALSE, by |-> c]}
           /\ Goto(c, "wait")
    <2> DEFINE w == [client[c] EXCEPT !.at = "wait"]
    <2>1. w \in Work
        BY <1>1 DEF Work, Steps
    <2>2. w.at = "wait" /\ w.token = client[c].token
        BY <1>1 DEF Work
    <2>3. client' = [client EXCEPT ![c] = w]
        BY <1>1, <1>3 DEF Goto
    <2> HIDE DEF w
    <2>4. ~lost => True(client[c].ver, client[c].size)
        BY <1>1 DEF IInv, Reported
    <2>5. \E u \in [ver : Nat, size : Nat, checked : BOOLEAN, by : Clients \cup {NoClient}] :
              /\ updates' = updates \cup {u} /\ u.by = c
              /\ ~lost => True(u.ver, u.size)
        <3> DEFINE u == [ver |-> client[c].ver, size |-> client[c].size, checked |-> FALSE, by |-> c]
        <3>1. /\ u \in [ver : Nat, size : Nat, checked : BOOLEAN, by : Clients \cup {NoClient}]
              /\ u.by = c /\ u.ver = client[c].ver /\ u.size = client[c].size
            BY <1>1
        <3>2. updates' = updates \cup {u}
            BY <1>3
        <3> HIDE DEF u
        <3> QED BY <2>4, <3>1, <3>2
    <2> QED BY <1>1, <1>2, <2>1, <2>2, <2>3, <2>5, GoOnStep, Zenon
<1>4. CASE Leave(c) /\ UNCHANGED updates
    BY <1>1, <1>2, <1>4, GiveUpStep
<1> QED BY <1>3, <1>4, Zenon DEF SendStat

(* An UpdateInodeStat call ends, and its client, if it still waits, with it. *)
LEMMA EndStat ==
    ASSUME IInv, NEW u \in updates, updates' = updates \ {u},
           UNCHANGED <<owner, tokens, table, disk, rotation, late, owed, lost>>,
           stat' = stat \/ stat' = [ver |-> u.ver, size |-> u.size],
           IF u.by = NoClient THEN UNCHANGED client ELSE Leave(u.by)
    PROVE  IInv'
<1>1. /\ updates \subseteq [ver : Nat, size : Nat, checked : BOOLEAN, by : Clients \cup {NoClient}]
      /\ u.by \in Clients \cup {NoClient}
    BY DEF IInv, Typed
<1>2. \A v \in updates' : v \in updates /\ v # u
    OBVIOUS
<1>3. \A v, o \in updates : v.by # NoClient /\ v.by = o.by => v = o
    BY DEF IInv, Waits
<1>4. CASE u.by = NoClient
    BY <1>1, <1>2, <1>3, <1>4, MdsStep
<1>5. CASE u.by # NoClient
    <2>1. PICK c \in Clients : c = u.by
        BY <1>1, <1>5
    <2>2. client[c].at \in Busy \ {"rotate"}
        BY <1>5, <2>1 DEF IInv, Waits, Busy
    <2>3. client' = [client EXCEPT ![c] = Unlocking(c)]
        BY <1>5, <2>1 DEF Leave
    <2>4. \A v \in updates' : v.by # NoClient => v \in updates /\ v.by # c
        BY <1>2, <1>3, <1>5, <2>1
    <2>5. updates' \subseteq [ver : Nat, size : Nat, checked : BOOLEAN, by : Clients \cup {NoClient}]
        BY <1>1, <1>2
    <2> QED BY <1>2, <2>2, <2>3, <2>4, <2>5, LeaveStep, Zenon
<1> QED BY <1>4, <1>5

(* The MDS checks a report's version, or refuses the report. *)
LEMMA StatCheckStep ==
    ASSUME IInv, NEW u \in updates, StatCheck(u)
    PROVE  IInv'
<1>1. UNCHANGED <<owner, tokens, table, disk, rotation, late, stat, owed, lost>>
    BY DEF StatCheck, nodeVars, historyVars
<1>2. CASE /\ updates' = (updates \ {u}) \cup {[u EXCEPT !.checked = TRUE]}
           /\ UNCHANGED client
    <2> DEFINE w == [u EXCEPT !.checked = TRUE]
    <2>1. updates \subseteq [ver : Nat, size : Nat, checked : BOOLEAN, by : Clients \cup {NoClient}]
        BY DEF IInv, Typed
    <2>2. /\ w \in [ver : Nat, size : Nat, checked : BOOLEAN, by : Clients \cup {NoClient}]
          /\ w.ver = u.ver /\ w.size = u.size /\ w.by = u.by
        BY <2>1, Zenon
    <2>3. updates' = (updates \ {u}) \cup {w}
        BY <1>2
    <2> HIDE DEF w
    <2>4. \A v \in updates' : (v \in updates /\ v # u) \/ v = w
        BY <2>3
    <2>5. \A v, o \in updates : v.by # NoClient /\ v.by = o.by => v = o
        BY DEF IInv, Waits
    <2>6. updates' \subseteq [ver : Nat, size : Nat, checked : BOOLEAN, by : Clients \cup {NoClient}]
        BY <2>1, <2>2, <2>4
    <2>7. \A v \in updates' : \E o \in updates : v.ver = o.ver /\ v.size = o.size /\ v.by = o.by
        BY <2>2, <2>4
    <2>8. \A v, o \in updates' : v.by # NoClient /\ v.by = o.by => v = o
        BY <2>2, <2>4, <2>5
    <2> QED BY <1>1, <1>2, <2>6, <2>7, <2>8, MdsStep
<1>3. CASE /\ updates' = updates \ {u}
           /\ IF u.by = NoClient THEN UNCHANGED client ELSE Leave(u.by)
    BY <1>1, <1>3, EndStat
<1> QED BY <1>2, <1>3 DEF StatCheck

(* The MDS writes what it has checked, or fails to. *)
LEMMA StatPutStep ==
    ASSUME IInv, NEW u \in updates, StatPut(u)
    PROVE  IInv'
<1>1. UNCHANGED <<owner, tokens, table, disk, rotation, late, owed, lost>>
    BY DEF StatPut, nodeVars, historyVars
<1>2. /\ updates' = updates \ {u}
      /\ stat' = stat \/ stat' = [ver |-> u.ver, size |-> u.size]
      /\ IF u.by = NoClient THEN UNCHANGED client ELSE Leave(u.by)
    BY DEF StatPut
<1> QED BY <1>1, <1>2, EndStat

(* A client stops waiting; its report stays under way. *)
LEMMA StatTimeoutStep ==
    ASSUME IInv, NEW c \in Clients, StatTimeout(c)
    PROVE  IInv'
<1>1. /\ client[c].at = "wait" /\ client' = [client EXCEPT ![c] = Unlocking(c)]
      /\ updates' = {IF u.by = c THEN [u EXCEPT !.by = NoClient] ELSE u : u \in updates}
      /\ UNCHANGED <<owner, tokens, table, disk, rotation, late, stat, owed, lost>>
    BY DEF StatTimeout, Leave, nodeVars, historyVars
<1>2. updates \subseteq [ver : Nat, size : Nat, checked : BOOLEAN, by : Clients \cup {NoClient}]
    BY DEF IInv, Typed
<1>3. ASSUME NEW u \in updates
      PROVE  LET v == [u EXCEPT !.by = NoClient]
             IN  /\ v \in [ver : Nat, size : Nat, checked : BOOLEAN, by : Clients \cup {NoClient}]
                 /\ v.ver = u.ver /\ v.size = u.size /\ v.by = NoClient
    BY <1>2
<1>4. ASSUME NEW v \in updates'
      PROVE  /\ v \in [ver : Nat, size : Nat, checked : BOOLEAN, by : Clients \cup {NoClient}]
             /\ \E u \in updates : v.ver = u.ver /\ v.size = u.size
             /\ v.by # NoClient => v \in updates /\ v.by # c
    <2>1. PICK u \in updates : v = IF u.by = c THEN [u EXCEPT !.by = NoClient] ELSE u
        BY <1>1
    <2>2. CASE u.by = c
        <3>1. v = [u EXCEPT !.by = NoClient]
            BY <2>1, <2>2
        <3> QED BY <1>3, <3>1
    <2>3. CASE u.by # c
        BY <1>2, <2>1, <2>3
    <2> QED BY <2>2, <2>3
<1>5. client[c].at \in Busy \ {"rotate"}
    BY <1>1 DEF Busy
<1> QED BY <1>1, <1>4, <1>5, LeaveStep, Zenon

(* A late request arrives and is executed or refused. *)
LEMMA DeliverStep ==
    ASSUME IInv, NEW m \in late, Deliver(m)
    PROVE  IInv'
<1>1. /\ late' = late \ {m} /\ client' = client
      /\ UNCHANGED <<updates, stat, owed, lost>>
    BY DEF Deliver, mdsVars, historyVars
<1>2. late \subseteq Calls /\ m \in Calls
    BY DEF IInv, Typed
<1>3. \A o \in late' : o \in Calls /\ (o.op = "commit" => o \in late)
    BY <1>1, <1>2
<1>4. CASE UNCHANGED nodeVars
    BY <1>1, <1>3, <1>4, LockStep DEF nodeVars
<1>5. CASE m.op = "acquire" /\ Execute(m)
    <2>1. Grant /\ UNCHANGED <<table, disk, rotation>>
        BY <1>5 DEF Execute
    <2> QED BY <1>1, <1>3, <2>1, LockStep DEF Grant
<1>6. CASE m.op = "release" /\ Execute(m)
    <2>1. TableFree /\ owner' = 0 /\ UNCHANGED <<tokens, table, disk, rotation>>
        BY <1>6 DEF Execute, Free
    <2> QED BY <1>1, <1>3, <2>1, LockStep
<1>7. CASE m.op = "write" /\ Execute(m)
    <2>1. UNCHANGED <<owner, tokens, table, disk, rotation>>
        BY <1>7 DEF Execute
    <2> QED BY <1>1, <1>3, <2>1, LockStep
<1>8. CASE m.op = "commit" /\ Execute(m)
    <2>1. CommitApply(m.commit, NoClient)
        BY <1>8 DEF Execute
    <2>2. m.commit \in Plans
        BY <1>2, <1>8 DEF Calls
    <2>3. PICK x \in Plans : x = m.commit
        BY <2>2
    <2> QED BY <1>1, <1>8, <2>1, <2>3, ApplyStep
<1>9. m.op \in {"acquire", "release", "write", "commit"}
    BY <1>2 DEF Calls
<1> QED BY <1>4, <1>5, <1>6, <1>7, <1>8, <1>9 DEF Deliver

(* The new table cannot be put in place and is taken back. *)
LEMMA RotateFailedStep ==
    ASSUME IInv, RotateFailed
    PROVE  IInv'
<1>1. /\ ~TableFree /\ rotation' = NoRotation /\ table' = rotation.old
      /\ UNCHANGED <<owner, tokens, disk, late, updates, stat, owed, lost>>
      /\ client' = [c \in Clients |-> IF c = rotation.by THEN Unlocking(c) ELSE client[c]]
    BY DEF RotateFailed, RotateUndo, mdsVars, historyVars
<1>2. table' = Committed
    BY <1>1, Zenon DEF Committed
<1>3. \A c \in Clients : client[c].at = "rotate" <=> c = rotation.by
    BY <1>1, Zenon DEF IInv, Rotating
<1>4. client' = [c \in Clients |-> IF client[c].at = "rotate" THEN Unlocking(c) ELSE client[c]]
    BY <1>1, <1>3, Zenon
<1>5. lost \in BOOLEAN
    BY DEF IInv, Typed
<1> QED BY <1>1, <1>2, <1>4, <1>5, AbandonStep

(* The node starts again with the table it finds. *)
LEMMA NodeRestartStep ==
    ASSUME IInv, NodeRestart
    PROVE  IInv'
<1>1. /\ rotation' = NoRotation /\ table' = disk /\ owner' = 0
      /\ UNCHANGED <<tokens, disk, late, updates, stat, owed>>
      /\ client' = [c \in Clients |-> IF client[c].at = "rotate" THEN Unlocking(c) ELSE client[c]]
    BY Zenon DEF NodeRestart, mdsVars
<1>2. lost \in BOOLEAN /\ lost' = (lost \/ (Committed.ver # 0 /\ disk.ver = 0))
    BY DEF IInv, Typed, NodeRestart
<1>3. lost' \in BOOLEAN /\ (lost => lost')
    BY <1>2
<1>4. ~lost' => table' = Committed
    BY <1>1, <1>2, NoRotationTyped, Zenon DEF IInv, Stored
<1> QED BY <1>1, <1>3, <1>4, AbandonStep

-----------------------------------------------------------------------------
(* The invariant. *)

(* A new node, MDS and clients satisfy the invariant. *)
LEMMA InitHolds ==
    ASSUME Init
    PROVE  IInv
<1> USE DEF Init
<1>1. Committed = Absent /\ TableFree
    BY DEF Committed, TableFree
<1>2. \A c \in Clients : client[c] = NoMutation /\ client[c].at = "idle"
    BY NoMutationTyped
<1>3. Typed
    <2>1. stat \in [ver : Nat, size : Nat]
        BY DEF Created
    <2>2. client \in [Clients -> Work]
        BY NoMutationTyped
    <2>3. tokens \in 0..MaxTokens /\ owner \in {0, tokens} /\ owed \in Nat
        <3>1. tokens = 0 /\ owner = 0 /\ owed = 0
            OBVIOUS
        <3> QED BY ONLY <3>1, WriteAssumption
    <2>6. lost \in BOOLEAN
        <3>1. lost = FALSE
            OBVIOUS
        <3> QED BY ONLY <3>1, Zenon
    <2>4. /\ table \in Meta /\ disk \in Meta
          /\ rotation \in [by : Clients \cup {NoClient}, commit : Plans, old : Meta]
        BY NoRotationTyped
    <2>5. late \subseteq Calls
          /\ updates \subseteq [ver : Nat, size : Nat, checked : BOOLEAN, by : Clients \cup {NoClient}]
        OBVIOUS
    <2> QED BY ONLY <2>1, <2>2, <2>3, <2>4, <2>5, <2>6 DEF Typed
<1>4. Tokened /\ Single /\ Planned /\ Waits /\ Known
    BY <1>2, Zenon DEF Tokened, Single, Planned, Waits, Known, Busy
<1>5. Rotating /\ Stored
    BY <1>1, <1>2, NoRotationTyped DEF Rotating, Stored
<1>6. Reported
    <2>1. Committed.size >= owed
        <3>1. Committed.size = 0 /\ owed = 0
            BY <1>1, NoRotationTyped
        <3> QED BY ONLY <3>1
    <2> QED BY <1>2, <2>1, Zenon DEF Reported
<1> QED BY <1>3, <1>4, <1>5, <1>6 DEF IInv

(* Every step keeps the invariant. *)
LEMMA StepKeeps ==
    ASSUME IInv, [Next]_vars
    PROVE  IInv'
<1>1. CASE UNCHANGED vars
    <2>1. late \subseteq Calls
        BY DEF IInv, Typed
    <2> QED BY <1>1, <2>1, LockStep DEF vars, nodeVars, mdsVars, historyVars
<1>2. ASSUME NEW c \in Clients,
             \/ Acquire(c) \/ Plan(c) \/ WriteObject(c) \/ WritesDone(c)
             \/ Commit(c) \/ SendStat(c) \/ StatTimeout(c) \/ Release(c)
      PROVE  IInv'
    BY <1>2, AcquireStep, PlanStep, WriteObjectStep, WritesDoneStep, CommitStep, SendStatStep,
       StatTimeoutStep, ReleaseStep
<1>3. ASSUME NEW u \in updates, StatCheck(u) \/ StatPut(u)
      PROVE  IInv'
    BY <1>3, StatCheckStep, StatPutStep
<1>4. ASSUME NEW m \in late, Deliver(m)
      PROVE  IInv'
    BY <1>4, DeliverStep
<1>5. CASE Rotated \/ RotateFailed \/ NodeRestart
    BY <1>5, RotatedStep, RotateFailedStep, NodeRestartStep
<1> QED BY <1>1, <1>2, <1>3, <1>4, <1>5 DEF Next

(* The inductive invariant of FileWrite holds throughout. *)
LEMMA Invariance == Spec => []IInv
BY InitHolds, StepKeeps, PTL DEF Spec

(* No commit takes effect that was planned on an older size: the file      *)
(* covers what committed writes have reached, whatever requests arrive     *)
(* late and wherever the node dies, unless the table itself was lost.      *)
THEOREM SizeSafe == Spec => []SizeCovers
<1>1. IInv => SizeCovers
    BY DEF IInv, Reported, SizeCovers, Committed
<1> QED BY <1>1, Invariance, PTL

(* The MDS is never ahead of what the node has on disk: UpdateInodeStat    *)
(* calls report only what a finished commit answered.                      *)
THEOREM MdsSafe == Spec => []MdsNotAhead
<1>1. IInv => MdsNotAhead
    BY DEF IInv, Reported, MdsNotAhead, True
<1> QED BY <1>1, Invariance, PTL

(* The MDS at the node's version has the node's size, though its check and *)
(* its write of the inode are two steps.                                   *)
THEOREM VersionSafe == Spec => []VersionNamesSize
<1>1. IInv => VersionNamesSize
    BY DEF IInv, Reported, VersionNamesSize, True
<1> QED BY <1>1, Invariance, PTL

-----------------------------------------------------------------------------
(* Objects.  Only the newest token can hold the lock. *)
Newest ==
    /\ tokens \in Nat /\ owner \in {0, tokens}
    /\ data \in [Units -> Nat] /\ \A u \in Units : data[u] <= tokens

Onward == \A u \in Units : data'[u] >= data[u]

(* An object is written under a token that is allowed. *)
LEMMA WriteAllowed ==
    ASSUME Newest, NEW t, NEW u, Allowed(t), data' = [data EXCEPT ![u] = t],
           UNCHANGED <<owner, tokens>>
    PROVE  Newest' /\ Onward
<1>1. t = tokens /\ t \in Nat
    BY DEF Newest, Allowed
<1>2. \A v \in Units : data'[v] = data[v] \/ data'[v] = tokens
    BY <1>1 DEF Newest
<1>3. data' \in [Units -> Nat]
    BY <1>1, Zenon DEF Newest
<1> QED BY <1>1, <1>2, <1>3 DEF Newest, Onward

(* The lock is granted or freed, or nothing that matters here happens. *)
LEMMA LockMoves ==
    ASSUME Newest, UNCHANGED data,
           \/ UNCHANGED <<owner, tokens>>
           \/ owner' = 0 /\ UNCHANGED tokens
           \/ tokens' = tokens + 1 /\ owner' = tokens + 1
    PROVE  Newest' /\ Onward
BY DEF Newest, Onward

(* A request executes late. *)
LEMMA ExecuteOrdered ==
    ASSUME Newest, NEW m \in Calls, Execute(m)
    PROVE  Newest' /\ Onward
<1>1. m.op \in {"acquire", "release", "write", "commit"}
    BY DEF Calls
<1>2. CASE m.op = "acquire"
    <2>1. Grant /\ UNCHANGED data
        BY <1>2 DEF Execute
    <2> QED BY <2>1, LockMoves DEF Grant
<1>3. CASE m.op = "release"
    <2>1. owner' = 0 /\ UNCHANGED <<tokens, data>>
        BY <1>3 DEF Execute, Free
    <2> QED BY <2>1, LockMoves
<1>4. CASE m.op = "write"
    <2>1. Allowed(m.token) /\ data' = [data EXCEPT ![m.unit] = m.token] /\ UNCHANGED <<owner, tokens>>
        BY <1>4 DEF Execute
    <2> QED BY <2>1, WriteAllowed, Zenon
<1>5. CASE m.op = "commit"
    <2>1. UNCHANGED <<owner, tokens, data>>
        BY <1>5 DEF Execute, CommitApply
    <2> QED BY <2>1, LockMoves
<1> QED BY <1>1, <1>2, <1>3, <1>4, <1>5

(* Every step keeps the order of the objects' tokens. *)
LEMMA StepOrdered ==
    ASSUME Newest, late \subseteq Calls, [Next]_vars
    PROVE  Newest' /\ Onward
<1>1. CASE UNCHANGED <<owner, tokens, data>>
    BY <1>1, LockMoves
<1>2. ASSUME NEW c \in Clients, Acquire(c) PROVE Newest' /\ Onward
    <2>1. UNCHANGED data /\ (Grant \/ UNCHANGED <<owner, tokens>>)
        BY <1>2, Zenon DEF Acquire, Unanswered, nodeVars
    <2> QED BY <2>1, LockMoves DEF Grant
<1>3. ASSUME NEW c \in Clients, Release(c) PROVE Newest' /\ Onward
    <2>1. UNCHANGED data /\ UNCHANGED tokens /\ (owner' = 0 \/ UNCHANGED owner)
        BY <1>3 DEF Release, Free, Unanswered, nodeVars
    <2> QED BY <2>1, LockMoves
<1>4. ASSUME NEW c \in Clients, WriteObject(c) PROVE Newest' /\ Onward
    <2>1. PICK u \in client[c].todo :
              \/ /\ Allowed(client[c].token) /\ data' = [data EXCEPT ![u] = client[c].token]
                 /\ UNCHANGED <<owner, tokens>>
              \/ UNCHANGED <<owner, tokens, data>>
        BY <1>4 DEF WriteObject, Unanswered, nodeVars
    <2>2. CASE /\ Allowed(client[c].token) /\ data' = [data EXCEPT ![u] = client[c].token]
               /\ UNCHANGED <<owner, tokens>>
        <3>1. PICK t \in Nat : t = client[c].token
            BY <2>2 DEF Allowed, Newest
        <3> QED BY <2>2, <3>1, WriteAllowed, Zenon
    <2> QED BY <1>1, <2>1, <2>2
<1>5. ASSUME NEW c \in Clients, Plan(c) \/ WritesDone(c) \/ SendStat(c) \/ StatTimeout(c) \/ Commit(c)
      PROVE  UNCHANGED <<owner, tokens, data>>
    BY <1>5 DEF Plan, WritesDone, SendStat, StatTimeout, Commit, CommitApply, Unanswered, nodeVars
<1>6. ASSUME NEW u \in updates, StatCheck(u) \/ StatPut(u)
      PROVE  UNCHANGED <<owner, tokens, data>>
    BY <1>6 DEF StatCheck, StatPut, nodeVars
<1>7. ASSUME NEW m \in late, Deliver(m) PROVE Newest' /\ Onward
    <2>1. m \in Calls /\ (Execute(m) \/ UNCHANGED <<owner, tokens, data>>)
        BY <1>7 DEF Deliver, nodeVars
    <2> QED BY <1>1, <2>1, ExecuteOrdered
<1>8. ASSUME Rotated \/ RotateFailed PROVE UNCHANGED <<owner, tokens, data>>
    BY <1>8 DEF Rotated, RotateFailed
<1>9. ASSUME NodeRestart PROVE Newest' /\ Onward
    <2>1. owner' = 0 /\ UNCHANGED <<tokens, data>>
        BY <1>9 DEF NodeRestart
    <2> QED BY <2>1, LockMoves
<1>10. ASSUME UNCHANGED vars PROVE UNCHANGED <<owner, tokens, data>>
    BY <1>10 DEF vars, nodeVars
<1> QED BY <1>1, <1>2, <1>3, <1>4, <1>5, <1>6, <1>7, <1>8, <1>9, <1>10 DEF Next

(* Old bytes never go over newer ones: the lock admits only its holder,    *)
(* and no token is granted twice, also across restarts of the node.        *)
THEOREM OrderSafe == Spec => TokenOrder
<1>1. Init => Newest
    BY DEF Init, Newest
<1>2. IInv => late \subseteq Calls
    BY DEF IInv, Typed
<1>3. Newest /\ IInv /\ [Next]_vars => Newest' /\ Onward
    BY <1>2, StepOrdered
<1>4. Newest /\ IInv /\ [Next]_vars => [Onward]_data
    BY <1>3
<1>5. Spec => [][Onward]_data
    BY <1>1, <1>3, <1>4, Invariance, PTL DEF Spec
<1> QED BY <1>5 DEF TokenOrder, Onward

=============================================================================
