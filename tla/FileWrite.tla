----------------------------- MODULE FileWrite ------------------------------
(***************************************************************************)
(* Writes and truncations of one file by several FUSE clients, on the one   *)
(* real storage node that has it.  A client takes the node's write lock     *)
(* (FileWriteLocks), plans, writes the objects in parallel, commits the     *)
(* file's record in the node's table, tells the MDS (UpdateInodeStat) and   *)
(* releases the lock.  Replies are lost, requests run after their caller    *)
(* gave up, and the node dies, also in the middle of rewriting its table.   *)
(* A size is a number of objects.                                           *)
(***************************************************************************)
EXTENDS Naturals, FiniteSets

CONSTANTS Clients,      \* mounts; each runs one mutation of the file at a time
          NoClient,
          MaxSize,      \* bound: objects of the file
          MaxTokens,    \* bound: write locks granted
          MaxLate,      \* bound: requests that outlive their caller
          MaxRestarts   \* bound: restarts of the node

ASSUME WriteAssumption ==
    /\ NoClient \notin Clients
    /\ MaxSize \in Nat /\ MaxTokens \in Nat /\ MaxLate \in Nat /\ MaxRestarts \in Nat

VARIABLES owner,     \* node: token of the lock's holder, 0 when free
          tokens,    \* node: tokens issued; tokens never repeat
          table,     \* node: the file's record in memory
          disk,      \* node: its record in file_meta.tsv
          rotation,  \* node: the commit that is replacing file_meta.tsv
          data,      \* node, object: token of the lock it was last written under
          stat,      \* MDS: size and version in the inode
          updates,   \* MDS: UpdateInodeStat calls being executed
          late,      \* requests to the node whose caller gave up
          client,    \* client: its mutation in progress
          owed,      \* history: the size committed writes have reached
          lost,      \* history: a restart found no table
          restarts

nodeVars == <<owner, tokens, table, disk, rotation, data>>
mdsVars == <<stat, updates>>
historyVars == <<owed, lost>>
vars == <<nodeVars, mdsVars, late, client, historyVars, restarts>>

Sizes == 0..MaxSize
Tokens == 0..MaxTokens
Versions == 0..(2 * MaxTokens)
Units == 1..MaxSize
TxIds == 0..(2 * MaxTokens)

(* FileMeta with the txid of its last commit; version 0 when there is none. *)
Metas == [ver : Versions, size : Sizes, tx : TxIds]
Absent == [ver |-> 0, size |-> 0, tx |-> 0]

(* CommitFileWrite of a write, of a truncation, or of the empty record that *)
(* a truncation creates first.                                              *)
Kinds == {"write", "truncate", "bootstrap"}
Commits == [kind : Kinds, token : Tokens, size : Sizes, expected : Versions]
Rotations == [by : Clients \cup {NoClient}, commit : Commits, old : Metas]
NoRotation == [by |-> NoClient, old |-> Absent,
               commit |-> [kind |-> "write", token |-> 0, size |-> 0, expected |-> 0]]

Steps == {"idle", "plan", "write", "commit", "rotate", "stat", "wait", "release"}
Mutations == [at : Steps, kind : Kinds, from : Sizes, upto : Sizes, token : Tokens,
              size : Sizes, ver : Versions, todo : SUBSET Units]
NoMutation == [at |-> "idle", kind |-> "write", from |-> 0, upto |-> 0, token |-> 0,
               size |-> 0, ver |-> 0, todo |-> {}]

Stats == [ver : Versions, size : Sizes]
Created == [ver |-> 1, size |-> 0]   \* as MdsServiceImpl::Create leaves the inode
Updates == [ver : Versions, size : Sizes, checked : BOOLEAN, by : Clients \cup {NoClient}]

Requests == [op : {"acquire"}]
              \cup [op : {"release"}, token : Tokens]
              \cup [op : {"write"}, token : Tokens, unit : Units]
              \cup [op : {"commit"}, commit : Commits]

Init ==
    /\ owner = 0 /\ tokens = 0
    /\ table = Absent /\ disk = Absent /\ rotation = NoRotation
    /\ data = [u \in Units |-> 0]
    /\ stat = Created /\ updates = {}
    /\ late = {}
    /\ client = [c \in Clients |-> NoMutation]
    /\ owed = 0 /\ lost = FALSE
    /\ restarts = 0

Larger(a, b) == IF a > b THEN a ELSE b

-----------------------------------------------------------------------------
(* The node. *)

(* FileWriteLocks::Acquire. *)
Grant ==
    /\ owner = 0 /\ tokens < MaxTokens
    /\ tokens' = tokens + 1
    /\ owner' = tokens + 1

(* PersistFileMetaStoreLocked runs under file_meta_mu_. *)
TableFree == rotation = NoRotation

(* Fault: a released lock lets requests of earlier holders pass. *)
AllowedUnowned(t) == owner \in {0, t}

(* FileWriteLocks::Check with a required token. *)
Allowed(t) == t # 0 /\ owner = t

(* FileWriteLocks::Release, which waits for mutations that are executing. *)
Free(t) ==
    /\ Allowed(t) /\ TableFree
    /\ owner' = 0
    /\ UNCHANGED <<tokens, table, disk, rotation, data>>

(* What the table holds once the commit under way is done or undone. *)
Committed == IF TableFree THEN table ELSE rotation.old

TxId(m) == IF m.kind = "bootstrap" THEN MaxTokens + m.token ELSE m.token

(* Fault: an update keeps the version. *)
NextVersionKept(v) == IF v = 0 THEN 1 ELSE v

NextVersion(v) == v + 1

(* ApplyFileMetaInternal: the same txid again answers the record as it is. *)
Repeated(m) == table.ver # 0 /\ table.tx = TxId(m)

CommitAccepted(m) ==
    /\ Allowed(m.token)
    /\ TableFree
    /\ ~Repeated(m)
    /\ m.expected \in {0, table.ver}

(* It changes the record in memory, writes the temporary file and removes   *)
(* file_meta.tsv...                                                         *)
CommitApply(m, by) ==
    /\ CommitAccepted(m)
    /\ table' = [ver |-> NextVersion(table.ver), size |-> m.size, tx |-> TxId(m)]
    /\ disk' = Absent
    /\ rotation' = [by |-> by, commit |-> m, old |-> table]
    /\ UNCHANGED <<owner, tokens, data>>

(* ...and renames the temporary file into place. *)
RotateEnd ==
    /\ disk' = table
    /\ UNCHANGED table

(* The rename fails: the record in memory is taken back, the file is gone. *)
RotateUndo ==
    /\ table' = rotation.old
    /\ UNCHANGED disk

Goto(c, step) == client' = [client EXCEPT ![c].at = step]

(* The mutation is over, well or not; what is left is to release its lock. *)
Unlocking(c) == [NoMutation EXCEPT !.at = "release", !.token = client[c].token]
Leave(c) == client' = [client EXCEPT ![c] = Unlocking(c)]

(* The commit's reply: the client goes on (a bootstrap is followed by the   *)
(* truncation itself), or, with no answer or an error, gives up.            *)
CommitAnswered(c, m, v) ==
    \/ client' = IF m.kind = "bootstrap"
                 THEN [client EXCEPT ![c].at = "commit", ![c].kind = "truncate",
                                     ![c].size = client[c].upto, ![c].ver = v]
                 ELSE [client EXCEPT ![c].at = "stat", ![c].ver = v]
    \/ Leave(c)

Rotated ==
    /\ ~TableFree
    /\ RotateEnd
    /\ rotation' = NoRotation
    /\ owed' = CASE rotation.commit.kind = "write" -> Larger(owed, rotation.commit.size)
                 [] rotation.commit.kind = "truncate" -> rotation.commit.size
                 [] OTHER -> owed
    /\ \/ rotation.by = NoClient /\ UNCHANGED client
       \/ \E c \in Clients :
             /\ rotation.by = c
             /\ \/ CommitAnswered(c, rotation.commit, table.ver)
                \/ Goto(c, "commit")     \* the connection broke: the call is sent again
    /\ UNCHANGED <<owner, tokens, data, mdsVars, late, lost, restarts>>

RotateFailed ==
    /\ ~TableFree
    /\ RotateUndo
    /\ rotation' = NoRotation
    /\ client' = [c \in Clients |-> IF c = rotation.by THEN Unlocking(c) ELSE client[c]]
    /\ UNCHANGED <<owner, tokens, data, mdsVars, late, historyVars, restarts>>

(* The process dies and comes back: locks are gone, LoadFileMetaStoreLocked *)
(* reads what is on disk.                                                   *)
NodeRestart ==
    /\ restarts < MaxRestarts
    /\ restarts' = restarts + 1
    /\ owner' = 0
    /\ table' = disk
    /\ rotation' = NoRotation
    /\ lost' = (lost \/ (Committed.ver # 0 /\ disk.ver = 0))
    /\ client' = [c \in Clients |-> IF client[c].at = "rotate" THEN Unlocking(c) ELSE client[c]]
    /\ UNCHANGED <<tokens, disk, data, mdsVars, late, owed>>

-----------------------------------------------------------------------------
(* A request that arrives after its caller gave up. *)
Execute(m) ==
    CASE m.op = "acquire" -> Grant /\ UNCHANGED <<table, disk, rotation, data>>
      [] m.op = "release" -> Free(m.token)
      [] m.op = "write"   -> /\ Allowed(m.token)
                             /\ data' = [data EXCEPT ![m.unit] = m.token]
                             /\ UNCHANGED <<owner, tokens, table, disk, rotation>>
      [] m.op = "commit"  -> CommitApply(m.commit, NoClient)

Deliver(m) ==
    /\ m \in late
    /\ late' = late \ {m}
    /\ Execute(m) \/ UNCHANGED nodeVars
    /\ UNCHANGED <<mdsVars, client, historyVars, restarts>>

Overdue == Cardinality(late) + Cardinality({u \in updates : u.by = NoClient})

(* The call fails for the client: it never ran, or it still will. *)
Unanswered(m) ==
    /\ \/ UNCHANGED late
       \/ Overdue < MaxLate /\ late' = late \cup {m}
    /\ UNCHANGED <<nodeVars, mdsVars, historyVars, restarts>>

-----------------------------------------------------------------------------
(* FuseWriteImpl and FuseTruncate. *)

(* What a caller may ask for: a range to write, or a size to truncate to. *)
Asked ==
    {[NoMutation EXCEPT !.from = r[1], !.upto = r[2]] :
        r \in {s \in Sizes \X Sizes : s[1] < s[2]}}
    \cup {[NoMutation EXCEPT !.kind = "truncate", !.upto = upto] : upto \in Sizes}

(* WriteLock::Acquire, the first thing a mutation does that others see.  A   *)
(* lock whose token is lost stays taken.                                    *)
Acquire(c) ==
    /\ client[c].at = "idle"
    /\ \/ /\ Grant
          /\ \/ \E m \in Asked :
                   client' = [client EXCEPT ![c] = [m EXCEPT !.at = "plan", !.token = tokens + 1]]
             \/ UNCHANGED client
          /\ UNCHANGED <<table, disk, rotation, data, mdsVars, late, historyVars, restarts>>
       \/ Unanswered([op |-> "acquire"]) /\ UNCHANGED client

(* Fault: the new size is the end of the write. *)
NewSizeEnd(c) == client[c].upto

(* Fault: a write is taken for an append. *)
NewSizeAppend(c) == IF client[c].kind = "write" THEN table.size + client[c].upto
                    ELSE client[c].upto

(* A write never shrinks the file, as far as its plan knows. *)
NewSize(c) == IF client[c].kind = "write" THEN Larger(table.size, client[c].upto)
              ELSE client[c].upto

(* AllocateFileWrite, or ResolveFileRead for a truncation, which first      *)
(* creates a missing record with the size its cache remembers.              *)
Plan(c) ==
    /\ client[c].at = "plan"
    /\ \/ /\ client[c].kind = "write" /\ Allowed(client[c].token) /\ TableFree
          /\ client' = [client EXCEPT ![c].at = "write", ![c].size = NewSize(c),
                           ![c].ver = table.ver, ![c].todo = (client[c].from + 1)..client[c].upto,
                           ![c].from = 0, ![c].upto = 0]
       \/ /\ client[c].kind = "truncate" /\ TableFree /\ table.ver # 0
          /\ client' = [client EXCEPT ![c].at = "commit", ![c].size = NewSize(c),
                           ![c].ver = table.ver]
       \/ /\ client[c].kind = "truncate" /\ TableFree /\ table.ver = 0
          /\ \E hint \in Sizes :
                client' = [client EXCEPT ![c].at = "commit", ![c].kind = "bootstrap",
                                         ![c].size = hint]
       \/ Leave(c)
    /\ UNCHANGED <<nodeVars, mdsVars, late, historyVars, restarts>>

(* The slices of a write run in parallel; any of them may fail. *)
WriteObject(c) ==
    /\ client[c].at = "write"
    /\ \E u \in client[c].todo :
          \/ /\ Allowed(client[c].token)
             /\ data' = [data EXCEPT ![u] = client[c].token]
             /\ \/ client' = [client EXCEPT ![c].todo = @ \ {u}]
                \/ Leave(c)
             /\ UNCHANGED <<owner, tokens, table, disk, rotation, mdsVars, late, historyVars, restarts>>
          \/ Unanswered([op |-> "write", token |-> client[c].token, unit |-> u]) /\ Leave(c)

WritesDone(c) ==
    /\ client[c].at = "write" /\ client[c].todo = {}
    /\ Goto(c, "commit")
    /\ UNCHANGED <<nodeVars, mdsVars, late, historyVars, restarts>>

CommitOf(c) ==
    [kind |-> client[c].kind, token |-> client[c].token, expected |-> client[c].ver,
     size |-> client[c].size]

(* Fault: a commit that was not answered is taken for done. *)
CommitAssumed(c) ==
    /\ client[c].at = "commit"
    /\ \/ /\ CommitApply(CommitOf(c), c)
          /\ Goto(c, "rotate")
          /\ UNCHANGED <<mdsVars, late, historyVars, restarts>>
       \/ /\ Unanswered([op |-> "commit", commit |-> CommitOf(c)])
          /\ client' = [client EXCEPT ![c].at = "stat", ![c].ver = @ + 1]

(* CommitFileWrite. *)
Commit(c) ==
    /\ client[c].at = "commit"
    /\ \/ /\ CommitApply(CommitOf(c), c)
          /\ Goto(c, "rotate")
          /\ UNCHANGED <<mdsVars, late, historyVars, restarts>>
       \/ /\ Allowed(client[c].token) /\ TableFree /\ Repeated(CommitOf(c))
          /\ CommitAnswered(c, CommitOf(c), table.ver)
          /\ UNCHANGED <<nodeVars, mdsVars, late, historyVars, restarts>>
       \/ Unanswered([op |-> "commit", commit |-> CommitOf(c)]) /\ Leave(c)

(* UpdateInodeStat, sent with what the node committed... *)
SendStat(c) ==
    /\ client[c].at = "stat"
    /\ \/ /\ updates' = updates \cup {[ver |-> client[c].ver, size |-> client[c].size,
                                       checked |-> FALSE, by |-> c]}
          /\ Goto(c, "wait")
       \/ Leave(c) /\ UNCHANGED updates
    /\ UNCHANGED <<nodeVars, stat, late, historyVars, restarts>>

(* ...reads the inode and refuses an older version... *)
StatCheck(u) ==
    /\ u \in updates /\ ~u.checked
    /\ \/ /\ u.ver >= stat.ver
          /\ updates' = (updates \ {u}) \cup {[u EXCEPT !.checked = TRUE]}
          /\ UNCHANGED client
       \/ /\ u.ver < stat.ver
          /\ updates' = updates \ {u}
          /\ IF u.by = NoClient THEN UNCHANGED client ELSE Leave(u.by)
    /\ UNCHANGED <<nodeVars, stat, late, historyVars, restarts>>

(* ...and writes it, with no lock held in between. *)
StatPut(u) ==
    /\ u \in updates /\ u.checked
    /\ \/ stat' = [ver |-> u.ver, size |-> u.size]
       \/ UNCHANGED stat     \* PutInode failed
    /\ updates' = updates \ {u}
    /\ IF u.by = NoClient THEN UNCHANGED client ELSE Leave(u.by)
    /\ UNCHANGED <<nodeVars, late, historyVars, restarts>>

(* The client stops waiting; the write succeeds all the same. *)
StatTimeout(c) ==
    /\ client[c].at = "wait"
    /\ Overdue < MaxLate
    /\ updates' = {IF u.by = c THEN [u EXCEPT !.by = NoClient] ELSE u : u \in updates}
    /\ Leave(c)
    /\ UNCHANGED <<nodeVars, stat, late, historyVars, restarts>>

(* WriteLock::~WriteLock: tried once, whatever the outcome of the mutation. *)
Release(c) ==
    /\ client[c].at = "release"
    /\ client' = [client EXCEPT ![c] = NoMutation]
    /\ \/ /\ Free(client[c].token)
          /\ UNCHANGED <<mdsVars, late, historyVars, restarts>>
       \/ Unanswered([op |-> "release", token |-> client[c].token])

-----------------------------------------------------------------------------
Next ==
    \/ \E c \in Clients :
          \/ Acquire(c) \/ Plan(c) \/ WriteObject(c) \/ WritesDone(c)
          \/ Commit(c) \/ SendStat(c) \/ StatTimeout(c) \/ Release(c)
    \/ \E u \in updates : StatCheck(u) \/ StatPut(u)
    \/ \E m \in late : Deliver(m)
    \/ Rotated \/ RotateFailed \/ NodeRestart

Spec == Init /\ [][Next]_vars

-----------------------------------------------------------------------------
(* Types.  A commit's size stays within what the mutations asked for, and    *)
(* versions within two per lock: a truncation may create the record first.   *)
TypeOK ==
    /\ owner \in Tokens /\ tokens \in Tokens
    /\ table \in Metas /\ disk \in Metas
    /\ rotation \in Rotations
    /\ data \in [Units -> Tokens]
    /\ stat \in Stats /\ updates \subseteq Updates
    /\ late \subseteq Requests
    /\ client \in [Clients -> Mutations]
    /\ owed \in Sizes /\ lost \in BOOLEAN
    /\ restarts \in 0..MaxRestarts

(* The file is never shorter than what a committed write reached, unless a  *)
(* truncation came after it or a restart found the table removed: no commit *)
(* takes effect that was planned on an older size.                          *)
SizeCovers == TableFree /\ ~lost => table.size >= owed

(* An object only goes from the content of one lock's holder to that of a   *)
(* later one: neither a request that arrives late nor one sent before the   *)
(* node restarted puts old bytes over newer ones.                           *)
TokenOrder == [][\A u \in Units : data'[u] >= data[u]]_data

(* The MDS never records a version of the file the node has not committed   *)
(* to disk, so a restart of the node does not leave the MDS ahead of it.    *)
MdsNotAhead == lost \/ stat = Created \/ stat.ver <= Committed.ver

(* A version means one size: when the MDS has the node's version, it also   *)
(* has the node's size (the state Create leaves apart).                     *)
VersionNamesSize ==
    lost \/ stat = Created \/ (stat.ver = Committed.ver => stat.size = Committed.size)
=============================================================================
