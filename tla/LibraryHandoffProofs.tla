------------------------ MODULE LibraryHandoffProofs ------------------------
(***************************************************************************)
(* OneOpenCopy and EngineOnWholeLibrary of LibraryHandoff, for any number  *)
(* of libraries, items, drains and faults.                                 *)
(*                                                                          *)
(* A node that has saved EXPORTED or RELEASED is sealed for good.  The     *)
(* argument is that a copy of an item only comes to be by installing the   *)
(* manifest of a sealed source, and that as long as its receiver has not   *)
(* finished, the items of that manifest are at sealed nodes and at the     *)
(* receiver only.                                                          *)
(***************************************************************************)
EXTENDS LibraryHandoff, TLAPS

Whole == {m \in Manifests : m.src \in Nodes /\ m.tgt \in Nodes}
Sent == [by : Callers, node : Nodes, m : Whole, asking : BOOLEAN,
         act : {"FREEZE", "ACCEPT", "WRITE", "ACTIVATE", "COMMIT", "RELEASE"},
         file : Artifacts, off : Nat]

(* The types the argument needs; every manifest in use has both ends. *)
NodesTyped ==
    /\ rec \in [Nodes -> Records] /\ disk \in [Nodes -> Records]
    /\ \A n \in Nodes : rec[n].phase # "NONE" => rec[n].m \in Whole
    /\ \A n \in Nodes : disk[n].phase # "NONE" => disk[n].m \in Whole
    /\ engine \in [Nodes -> BOOLEAN]
    /\ lib \in [Nodes -> SUBSET Items] /\ pend \in [Nodes -> SUBSET Items]
    /\ stage \in [Nodes -> [Artifacts -> Nat]]
    /\ home \in [Items -> Nodes \cup {NoNode}]
    /\ begins \in 0..MaxBegins

CallsTyped ==
    /\ begin \in Threads /\ (begin.at = "pick" => begin.node \in Nodes /\ begin.m.src \in Nodes)
    /\ adv \in Threads /\ (adv.at # "idle" => adv.m \in Whole)
    /\ net \subseteq Sent

(* What a node's memory may say, given what it has saved. *)
Follows(r, d) ==
    CASE r.phase = "NONE" -> d.phase = "NONE"
      [] r.phase = "ACTIVE" -> d.phase = "ACTIVE"
      [] r.phase = "FREEZING" -> d.phase \in {"NONE", "ACTIVE", "FREEZING"}
      [] r.phase \in {"EXPORTED", "RELEASED"} -> r = d
      [] OTHER -> d.phase = "NONE" \/ (d.phase \in {"RECEIVING", "INSTALLING"} /\ d.m = r.m)

Sealed(n) == disk[n].phase \in {"EXPORTED", "RELEASED"}

(* m is the manifest of a sealed source. *)
Exported(m) == m.src \in Nodes /\ Sealed(m.src) /\ disk[m.src].m = m

(* A record names its own node as the end it plays, and a receiver's       *)
(* manifest was exported.                                                  *)
OwnEnd(n, r) ==
    /\ r.phase \in {"FREEZING", "EXPORTED", "RELEASED"} => r.m.src = n
    /\ r.phase \in {"RECEIVING", "INSTALLING"} => Exported(r.m) /\ r.m.tgt = n

Receipts ==
    /\ \A n \in Nodes : Follows(rec[n], disk[n])
    /\ \A n \in Nodes : OwnEnd(n, rec[n]) /\ OwnEnd(n, disk[n])

(* A receiver is only asked to take a manifest that was exported. *)
Accepts == \A q \in net : q.act = "ACCEPT" => Exported(q.m)

(* The receiver of the sealed source s may still install its manifest. *)
Pending(s) ==
    LET d == disk[disk[s].m.tgt] IN
    /\ Sealed(s)
    /\ d.phase = "NONE" \/ (d.phase \in {"RECEIVING", "INSTALLING"} /\ d.m = disk[s].m)

Libraries ==
    /\ \A s, x \in Nodes : Pending(s) /\ x # disk[s].m.tgt /\ ~Sealed(x)
                              => lib[x] \cap disk[s].m.items = {}
    /\ \A s, x \in Nodes : s # x /\ Pending(s) /\ Pending(x)
                              => disk[s].m.items \cap disk[x].m.items = {}
    /\ \A n, x \in Nodes : n # x /\ lib[n] \cap lib[x] # {} => Sealed(n) \/ Sealed(x)

(* Items wait for their first burn at one node and are nowhere else. *)
Waiting ==
    /\ \A n \in Nodes : \A i \in lib[n] : home[i] # NoNode
    /\ \A n \in Nodes : Sealed(n) => \A i \in disk[n].m.items : home[i] # NoNode
    /\ \A n \in Nodes : \A i \in pend[n] : home[i] = NoNode
    /\ \A n, x \in Nodes : n # x => pend[n] \cap pend[x] = {}

NodesInv == NodesTyped /\ Receipts /\ Libraries /\ Waiting /\ EngineOnWholeLibrary
CallsInv == CallsTyped /\ Accepts
IInv == NodesInv /\ CallsInv

-----------------------------------------------------------------------------
(* Lemmas about the records and the libraries. *)

(* Nothing unseals a node or changes its manifest. *)
SealKept ==
    \A s \in Nodes : Sealed(s) => disk'[s].phase \in {"EXPORTED", "RELEASED"} /\ disk'[s].m = disk[s].m

(* An exported manifest stays exported. *)
LEMMA ExportLasts ==
    ASSUME SealKept, NEW m, Exported(m)
    PROVE  Exported(m)'
BY DEF SealKept, Exported, Sealed

(* Records change at one node, libraries do not grow, and no source becomes *)
(* pending: the libraries stay apart.                                        *)
LEMMA LibrariesNarrow ==
    ASSUME Libraries,
           \A x \in Nodes : lib'[x] \subseteq lib[x],
           \A x \in Nodes : Sealed(x)' <=> Sealed(x),
           \A x \in Nodes : Sealed(x) => disk'[x].m = disk[x].m,
           \A x \in Nodes : Pending(x)' => Pending(x)
    PROVE  Libraries'
<1>1. \A s \in Nodes : Pending(s) => Sealed(s)
    BY DEF Pending
<1>2. ASSUME NEW s \in Nodes, NEW x \in Nodes, Pending(s)', x # disk'[s].m.tgt, ~Sealed(x)'
      PROVE  lib'[x] \cap disk'[s].m.items = {}
    <2>1. lib[x] \cap disk[s].m.items = {} /\ disk'[s].m = disk[s].m
        BY <1>1, <1>2 DEF Libraries
    <2> QED BY <2>1
<1>3. ASSUME NEW s \in Nodes, NEW x \in Nodes, s # x, Pending(s)', Pending(x)'
      PROVE  disk'[s].m.items \cap disk'[x].m.items = {}
    <2>1. disk[s].m.items \cap disk[x].m.items = {}
        BY <1>3 DEF Libraries
    <2>2. disk'[s].m = disk[s].m /\ disk'[x].m = disk[x].m
        BY <1>1, <1>3
    <2> QED BY <2>1, <2>2
<1>4. ASSUME NEW n \in Nodes, NEW x \in Nodes, n # x, lib'[n] \cap lib'[x] # {}
      PROVE  Sealed(n)' \/ Sealed(x)'
    BY <1>4 DEF Libraries
<1> HIDE DEF Sealed, Pending
<1> QED BY <1>2, <1>3, <1>4 DEF Libraries

(* A source seals itself with a manifest of what it has. *)
LEMMA LibrariesExport ==
    ASSUME NodesTyped, Libraries, NEW n \in Nodes, NEW r \in Records, ~Sealed(n),
           r.phase = "EXPORTED", r.m.items = lib[n],
           disk' = [disk EXCEPT ![n] = r], lib' = lib
    PROVE  Libraries'
<1>1. disk'[n] = r /\ \A x \in Nodes : x # n => disk'[x] = disk[x]
    BY DEF NodesTyped
<1>2. Sealed(n)' /\ \A x \in Nodes : x # n => (Sealed(x)' <=> Sealed(x))
    BY <1>1 DEF Sealed
<1>3. \A s \in Nodes : s # n /\ Pending(s)' => Pending(s) /\ disk[s].m.tgt # n
    BY <1>1, <1>2 DEF Pending, Sealed, NodesTyped, Whole
<1>4. ASSUME NEW s \in Nodes, NEW x \in Nodes, Pending(s)', x # disk'[s].m.tgt, ~Sealed(x)'
      PROVE  lib'[x] \cap disk'[s].m.items = {}
    <2>1. CASE s = n
        <3>1. x # n /\ ~Sealed(x)
            BY <1>2, <1>4
        <3>2. lib[n] \cap lib[x] = {}
            BY <3>1 DEF Libraries
        <3> QED BY <2>1, <3>2, <1>1
    <2>2. CASE s # n
        <3>1. Pending(s) /\ x # disk[s].m.tgt /\ ~Sealed(x) /\ disk'[s] = disk[s]
            BY <1>1, <1>2, <1>3, <1>4, <2>2
        <3> QED BY <3>1 DEF Libraries
    <2> QED BY <2>1, <2>2
<1>5. ASSUME NEW x \in Nodes, x # n, Pending(x)'
      PROVE  lib[n] \cap disk[x].m.items = {}
    BY <1>3, <1>5 DEF Libraries
<1>6. ASSUME NEW s \in Nodes, NEW x \in Nodes, s # x, Pending(s)', Pending(x)'
      PROVE  disk'[s].m.items \cap disk'[x].m.items = {}
    <2>1. CASE s = n
        <3>1. lib[n] \cap disk[x].m.items = {} /\ disk'[x] = disk[x]
            BY <1>1, <1>5, <1>6, <2>1
        <3> QED BY <3>1, <2>1, <1>1
    <2>2. CASE x = n
        <3>1. lib[n] \cap disk[s].m.items = {} /\ disk'[s] = disk[s]
            BY <1>1, <1>5, <1>6, <2>2
        <3> QED BY <3>1, <2>2, <1>1
    <2>3. CASE s # n /\ x # n
        <3>1. Pending(s) /\ Pending(x) /\ disk'[s] = disk[s] /\ disk'[x] = disk[x]
            BY <1>1, <1>3, <1>6, <2>3
        <3> QED BY <3>1, <1>6 DEF Libraries
    <2> QED BY <2>1, <2>2, <2>3
<1>7. ASSUME NEW y \in Nodes, NEW x \in Nodes, y # x, lib'[y] \cap lib'[x] # {}
      PROVE  Sealed(y)' \/ Sealed(x)'
    BY <1>2, <1>7 DEF Libraries
<1> HIDE DEF Sealed, Pending
<1> QED BY <1>4, <1>6, <1>7 DEF Libraries

(* A receiver installs the manifest it has reserved itself for. *)
LEMMA LibrariesInstall ==
    ASSUME NodesTyped, Libraries, NEW n \in Nodes, NEW m \in Whole, NEW r \in Records,
           Exported(m), m.tgt = n,
           disk[n].phase = "NONE" \/ (disk[n].phase \in {"RECEIVING", "INSTALLING"} /\ disk[n].m = m),
           r.phase \in {"INSTALLING", "ACTIVE"}, r.m = m,
           disk' = [disk EXCEPT ![n] = r],
           lib' = lib \/ lib' = [lib EXCEPT ![n] = m.items]
    PROVE  Libraries'
<1> DEFINE s0 == m.src
<1>1. disk'[n] = r /\ \A x \in Nodes : x # n => disk'[x] = disk[x]
    BY DEF NodesTyped
<1>2. ~Sealed(n) /\ \A x \in Nodes : Sealed(x)' <=> Sealed(x)
    BY <1>1 DEF Sealed
<1>3. s0 \in Nodes /\ Pending(s0) /\ disk[s0].m = m
    BY DEF Exported, Pending
<1>4. \A s \in Nodes : Sealed(s) => disk'[s] = disk[s] /\ disk[s].m.tgt \in Nodes
    BY <1>1, <1>2 DEF NodesTyped, Sealed, Whole
<1>5. \A s \in Nodes : Pending(s)' => Pending(s)
    <2> SUFFICES ASSUME NEW s \in Nodes, Pending(s)' PROVE Pending(s)
        OBVIOUS
    <2>1. Sealed(s) /\ disk'[s] = disk[s] /\ disk[s].m.tgt \in Nodes
        BY <1>2, <1>4 DEF Pending
    <2>2. CASE disk[s].m.tgt = n
        BY <2>1, <2>2, <1>1 DEF Pending
    <2>3. CASE disk[s].m.tgt # n
        BY <2>1, <2>3, <1>1 DEF Pending
    <2> QED BY <2>2, <2>3
<1>6. CASE lib' = lib
    <2>1. \A x \in Nodes : lib'[x] \subseteq lib[x]
        BY <1>6
    <2>2. \A x \in Nodes : Sealed(x) => disk'[x].m = disk[x].m
        BY <1>4
    <2> QED BY <2>1, <2>2, <1>2, <1>5, LibrariesNarrow
<1>7. CASE lib' = [lib EXCEPT ![n] = m.items]
    <2>1. lib'[n] = m.items /\ \A x \in Nodes : x # n => lib'[x] = lib[x]
        BY <1>7 DEF NodesTyped
    <2>2. ASSUME NEW s \in Nodes, NEW x \in Nodes, Pending(s)', x # disk'[s].m.tgt, ~Sealed(x)'
          PROVE  lib'[x] \cap disk'[s].m.items = {}
        <3>1. Pending(s) /\ disk'[s] = disk[s] /\ x # disk[s].m.tgt /\ ~Sealed(x)
            BY <1>2, <1>4, <1>5, <2>2, Zenon DEF Pending
        <3>2. CASE x # n
            BY <3>1, <3>2, <2>1 DEF Libraries
        <3>3. CASE x = n
            <4>1. s # s0
                BY <3>1, <3>3, <1>3
            <4>2. disk[s0].m.items \cap disk[s].m.items = {}
                BY <4>1, <3>1, <1>3 DEF Libraries
            <4> QED BY <4>2, <3>1, <3>3, <2>1, <1>3
        <3> QED BY <3>2, <3>3
    <2>3. ASSUME NEW s \in Nodes, NEW x \in Nodes, s # x, Pending(s)', Pending(x)'
          PROVE  disk'[s].m.items \cap disk'[x].m.items = {}
        <3>1. Pending(s) /\ Pending(x) /\ disk'[s] = disk[s] /\ disk'[x] = disk[x]
            BY <1>2, <1>4, <1>5, <2>3, Zenon DEF Pending
        <3> QED BY <3>1, <2>3 DEF Libraries
    <2>4. ASSUME NEW x \in Nodes, x # n, ~Sealed(x)
          PROVE  m.items \cap lib[x] = {}
        BY <1>3, <2>4 DEF Libraries
    <2>5. ASSUME NEW y \in Nodes, NEW x \in Nodes, y # x, lib'[y] \cap lib'[x] # {}
          PROVE  Sealed(y)' \/ Sealed(x)'
        <3>1. CASE y # n /\ x # n
            BY <3>1, <2>5, <2>1, <1>2 DEF Libraries
        <3>2. CASE y = n
            BY <3>2, <2>1, <2>4, <2>5, <1>2
        <3>3. CASE x = n
            BY <3>3, <2>1, <2>4, <2>5, <1>2
        <3> QED BY <3>1, <3>2, <3>3
    <2> HIDE DEF Sealed, Pending
    <2> QED BY <2>2, <2>3, <2>5 DEF Libraries
<1> QED BY <1>6, <1>7

(* One node's records change, in a way they may. *)
LEMMA ReceiptsAt ==
    ASSUME Receipts, SealKept, NEW n \in Nodes,
           \A x \in Nodes : x # n => rec'[x] = rec[x] /\ disk'[x] = disk[x],
           Follows(rec'[n], disk'[n]), OwnEnd(n, rec[n])', OwnEnd(n, disk[n])'
    PROVE  Receipts'
<1>1. \A x \in Nodes : Follows(rec'[x], disk'[x])
    BY DEF Receipts
<1>2. ASSUME NEW x \in Nodes, x # n
      PROVE  OwnEnd(x, rec[x])' /\ OwnEnd(x, disk[x])'
    <2>1. rec'[x] = rec[x] /\ disk'[x] = disk[x]
        BY <1>2
    <2>2. \A m : Exported(m) => Exported(m)'
        BY ExportLasts
    <2>3. OwnEnd(x, rec[x]) /\ OwnEnd(x, disk[x])
        BY DEF Receipts
    <2> QED BY <2>1, <2>2, <2>3 DEF OwnEnd
<1> QED BY <1>1, <1>2 DEF Receipts, Follows

(* No item is archived or admitted, and manifests and libraries only hold   *)
(* archived items.                                                          *)
LEMMA WaitingKept ==
    ASSUME Waiting, home' = home,
           \A x \in Nodes : pend'[x] \subseteq pend[x],
           \A x \in Nodes : \A i \in lib'[x] : home[i] # NoNode,
           \A x \in Nodes : Sealed(x)' => \A i \in disk'[x].m.items : home[i] # NoNode
    PROVE  Waiting'
<1>1. \A n, x \in Nodes : n # x => pend'[n] \cap pend'[x] = {}
    BY DEF Waiting
<1> QED BY <1>1 DEF Waiting

-----------------------------------------------------------------------------
(* What the handlers do to a node, one lemma for each kind of step.  None   *)
(* of them unseals a node.                                                  *)

(* The files of a handoff may be staged; nothing else changes. *)
LEMMA StillStep ==
    ASSUME NodesInv, UNCHANGED <<rec, disk, engine, lib, pend, home, begins>>,
           stage' \in [Nodes -> [Artifacts -> Nat]]
    PROVE  NodesInv' /\ SealKept
<1> USE DEF NodesInv
<1>1. NodesTyped' /\ SealKept
    BY DEF NodesTyped, SealKept, Sealed
<1>2. Receipts'
    BY DEF Receipts, Follows, OwnEnd, Exported, Sealed
<1>3. Libraries'
    <2>1. \A x \in Nodes : Sealed(x)' <=> Sealed(x)
        BY DEF Sealed
    <2>2. \A x \in Nodes : Pending(x)' => Pending(x)
        BY <2>1 DEF Pending
    <2> QED BY <2>1, <2>2, LibrariesNarrow
<1>4. Waiting'
    BY DEF Waiting, Sealed
<1>5. EngineOnWholeLibrary'
    BY DEF EngineOnWholeLibrary
<1> QED BY <1>1, <1>2, <1>3, <1>4, <1>5

(* A source that is not sealed fences itself, durably or not. *)
LEMMA FenceStep ==
    ASSUME NodesInv, NEW n \in Nodes, NEW r \in Records,
           r.phase = "FREEZING", r.m \in Whole, r.m.src = n,
           disk[n].phase \in {"NONE", "ACTIVE", "FREEZING"},
           rec' = [rec EXCEPT ![n] = r],
           disk' = disk \/ disk' = [disk EXCEPT ![n] = r],
           engine' = engine \/ \E b \in BOOLEAN : engine' = [engine EXCEPT ![n] = b],
           UNCHANGED <<lib, pend, stage, home, begins>>
    PROVE  NodesInv' /\ SealKept
<1> USE DEF NodesInv
<1>1. /\ rec'[n] = r /\ \A x \in Nodes : x # n => rec'[x] = rec[x] /\ disk'[x] = disk[x]
      /\ disk'[n] = disk[n] \/ disk'[n] = r
      /\ \A x \in Nodes : x # n => engine'[x] = engine[x]
    BY DEF NodesTyped
<1>2. NodesTyped'
    <2>1. rec' \in [Nodes -> Records] /\ disk' \in [Nodes -> Records]
        BY DEF NodesTyped
    <2>2. engine' \in [Nodes -> BOOLEAN]
        BY Zenon DEF NodesTyped
    <2> QED BY <1>1, <2>1, <2>2 DEF NodesTyped
<1>3. ~Sealed(n) /\ \A x \in Nodes : Sealed(x)' <=> Sealed(x)
    BY <1>1 DEF Sealed
<1>4. \A x \in Nodes : Sealed(x) => disk'[x] = disk[x]
    BY <1>1, <1>3
<1>5. SealKept
    BY <1>4 DEF SealKept, Sealed
<1>6. Receipts'
    <2>1. Follows(rec'[n], disk'[n])
        BY <1>1 DEF Follows
    <2>2. OwnEnd(n, rec[n])'
        BY <1>1 DEF OwnEnd
    <2>3. OwnEnd(n, disk[n])'
        BY <1>1 DEF OwnEnd, Receipts
    <2> QED BY <1>1, <1>5, <2>1, <2>2, <2>3, ReceiptsAt
<1>7. Libraries'
    <2>1. \A s \in Nodes : Pending(s)' => Pending(s)
        <3> SUFFICES ASSUME NEW s \in Nodes, Pending(s)' PROVE Pending(s)
            OBVIOUS
        <3>1. Sealed(s) /\ disk'[s] = disk[s] /\ disk[s].m.tgt \in Nodes
            BY <1>3, <1>4 DEF Pending, NodesTyped, Sealed, Whole
        <3>2. disk'[disk[s].m.tgt] = disk[disk[s].m.tgt] \/ disk'[disk[s].m.tgt].phase = "FREEZING"
            BY <3>1, <1>1
        <3> QED BY <3>1, <3>2 DEF Pending
    <2> QED BY <1>3, <1>4, <2>1, LibrariesNarrow
<1>8. Waiting'
    BY <1>3, <1>4, WaitingKept DEF Waiting
<1>9. EngineOnWholeLibrary'
    BY <1>1 DEF EngineOnWholeLibrary
<1> QED BY <1>2, <1>5, <1>6, <1>7, <1>8, <1>9

(* A source that is not sealed stops its engine and exports what it has. *)
LEMMA ExportStep ==
    ASSUME NodesInv, NEW n \in Nodes, NEW r \in Records,
           r.phase = "EXPORTED", r.m \in Whole, r.m.src = n, r.m.items = lib[n],
           disk[n].phase \in {"NONE", "ACTIVE", "FREEZING"},
           rec' = [rec EXCEPT ![n] = r], disk' = [disk EXCEPT ![n] = r],
           engine' = [engine EXCEPT ![n] = FALSE],
           UNCHANGED <<lib, pend, stage, home, begins>>
    PROVE  NodesInv' /\ SealKept /\ Exported(r.m)'
<1> USE DEF NodesInv
<1>1. /\ rec'[n] = r /\ disk'[n] = r
      /\ \A x \in Nodes : x # n => rec'[x] = rec[x] /\ disk'[x] = disk[x] /\ engine'[x] = engine[x]
      /\ engine'[n] = FALSE
    BY DEF NodesTyped
<1>2. NodesTyped'
    <2>1. rec' \in [Nodes -> Records] /\ disk' \in [Nodes -> Records]
        BY DEF NodesTyped
    <2>2. engine' \in [Nodes -> BOOLEAN]
        BY DEF NodesTyped
    <2> QED BY <1>1, <2>1, <2>2 DEF NodesTyped
<1>3. ~Sealed(n)
    BY DEF Sealed
<1>4. SealKept
    BY <1>1, <1>3 DEF SealKept, Sealed
<1>5. Receipts'
    <2>1. Follows(rec'[n], disk'[n])
        BY <1>1 DEF Follows
    <2>2. OwnEnd(n, rec[n])' /\ OwnEnd(n, disk[n])'
        BY <1>1 DEF OwnEnd
    <2> QED BY <1>1, <1>4, <2>1, <2>2, ReceiptsAt
<1>6. Libraries'
    BY <1>3, LibrariesExport, Zenon
<1>7. Waiting'
    <2>1. \A x \in Nodes : Sealed(x)' => \A i \in disk'[x].m.items : home[i] # NoNode
        BY <1>1 DEF Waiting, Sealed
    <2>2. \A x \in Nodes : \A i \in lib'[x] : home[i] # NoNode
        BY DEF Waiting
    <2> QED BY <2>1, <2>2, WaitingKept
<1>8. EngineOnWholeLibrary'
    BY <1>1 DEF EngineOnWholeLibrary
<1>9. Exported(r.m)'
    BY <1>1 DEF Exported, Sealed
<1> QED BY <1>2, <1>4, <1>5, <1>6, <1>7, <1>8, <1>9

(* A receiver reserves itself, or goes on, for an exported manifest: in     *)
(* memory only, or durably with its engine stopped.                         *)
LEMMA ReserveStep ==
    ASSUME NodesInv, NEW n \in Nodes, NEW r \in Records,
           r.phase \in {"RECEIVING", "INSTALLING"}, r.m \in Whole, Exported(r.m), r.m.tgt = n,
           disk[n].phase = "NONE"
               \/ (disk[n].phase \in {"RECEIVING", "INSTALLING"} /\ disk[n].m = r.m),
           rec' = [rec EXCEPT ![n] = r],
           \/ UNCHANGED <<disk, engine>>
           \/ disk' = [disk EXCEPT ![n] = r] /\ engine' = [engine EXCEPT ![n] = FALSE],
           UNCHANGED <<lib, pend, stage, home, begins>>
    PROVE  NodesInv' /\ SealKept
<1> USE DEF NodesInv
<1>1. /\ rec'[n] = r /\ \A x \in Nodes : x # n => rec'[x] = rec[x] /\ disk'[x] = disk[x]
      /\ \/ disk'[n] = disk[n] /\ engine'[n] = engine[n]
         \/ disk'[n] = r /\ engine'[n] = FALSE
      /\ \A x \in Nodes : x # n => engine'[x] = engine[x]
    BY DEF NodesTyped
<1>2. NodesTyped'
    <2>1. rec' \in [Nodes -> Records] /\ disk' \in [Nodes -> Records]
        BY DEF NodesTyped
    <2>2. engine' \in [Nodes -> BOOLEAN]
        BY Zenon DEF NodesTyped
    <2> QED BY <1>1, <2>1, <2>2, Zenon DEF NodesTyped
<1>3. ~Sealed(n) /\ \A x \in Nodes : Sealed(x)' <=> Sealed(x)
    BY <1>1 DEF Sealed
<1>4. \A x \in Nodes : Sealed(x) => disk'[x] = disk[x]
    BY <1>1, <1>3
<1>5. SealKept
    BY <1>4 DEF SealKept, Sealed
<1>6. Receipts'
    <2>1. Follows(rec'[n], disk'[n])
        BY <1>1 DEF Follows
    <2>2. Exported(r.m)'
        BY <1>5, ExportLasts
    <2>3. OwnEnd(n, rec[n])' /\ OwnEnd(n, disk[n])'
        BY <1>1, <2>2 DEF OwnEnd
    <2> QED BY <1>1, <1>5, <2>1, <2>3, ReceiptsAt
<1>7. Libraries'
    <2>1. \A s \in Nodes : Pending(s)' => Pending(s)
        <3> SUFFICES ASSUME NEW s \in Nodes, Pending(s)' PROVE Pending(s)
            OBVIOUS
        <3>1. Sealed(s) /\ disk'[s] = disk[s] /\ disk[s].m.tgt \in Nodes
            BY <1>3, <1>4 DEF Pending, NodesTyped, Sealed, Whole
        <3>2. CASE disk[s].m.tgt = n
            BY <3>1, <3>2, <1>1 DEF Pending
        <3>3. CASE disk[s].m.tgt # n
            BY <3>1, <3>3, <1>1 DEF Pending
        <3> QED BY <3>2, <3>3
    <2> QED BY <1>3, <1>4, <2>1, LibrariesNarrow
<1>8. Waiting'
    BY <1>3, <1>4, WaitingKept DEF Waiting
<1>9. EngineOnWholeLibrary'
    BY <1>1 DEF EngineOnWholeLibrary
<1> QED BY <1>2, <1>5, <1>6, <1>7, <1>8, <1>9

(* A receiver installs an exported manifest, or part of it: its engine only *)
(* runs afterwards if all of it is in place.                                *)
LEMMA InstallStep ==
    ASSUME NodesInv, NEW n \in Nodes, NEW r \in Records,
           r.phase \in {"INSTALLING", "ACTIVE"}, r.m \in Whole, Exported(r.m), r.m.tgt = n,
           disk[n].phase = "NONE"
               \/ (disk[n].phase \in {"RECEIVING", "INSTALLING"} /\ disk[n].m = r.m),
           rec' = [rec EXCEPT ![n] = r], disk' = [disk EXCEPT ![n] = r],
           \/ lib' = [lib EXCEPT ![n] = r.m.items] /\ engine' = [engine EXCEPT ![n] = TRUE]
           \/ lib' = [lib EXCEPT ![n] = r.m.items] /\ engine' = [engine EXCEPT ![n] = FALSE]
           \/ lib' = lib /\ engine' = [engine EXCEPT ![n] = FALSE],
           stage' \in [Nodes -> [Artifacts -> Nat]],
           UNCHANGED <<pend, home, begins>>
    PROVE  NodesInv' /\ SealKept
<1> USE DEF NodesInv
<1>0. r.m.items \subseteq Items
    BY DEF Whole, Manifests
<1>1. /\ rec'[n] = r /\ disk'[n] = r
      /\ \A x \in Nodes : x # n => rec'[x] = rec[x] /\ disk'[x] = disk[x] /\ engine'[x] = engine[x]
      /\ \A x \in Nodes : x # n => lib'[x] = lib[x]
      /\ engine'[n] => lib'[n] = r.m.items
      /\ lib'[n] = lib[n] \/ lib'[n] = r.m.items
    BY DEF NodesTyped
<1>2. NodesTyped'
    <2>1. rec' \in [Nodes -> Records] /\ disk' \in [Nodes -> Records]
        BY DEF NodesTyped
    <2>2. engine' \in [Nodes -> BOOLEAN] /\ lib' \in [Nodes -> SUBSET Items]
        BY <1>0, Zenon DEF NodesTyped
    <2> QED BY <1>1, <2>1, <2>2 DEF NodesTyped
<1>3. ~Sealed(n) /\ \A x \in Nodes : Sealed(x)' <=> Sealed(x)
    BY <1>1 DEF Sealed
<1>4. \A x \in Nodes : Sealed(x) => disk'[x] = disk[x]
    BY <1>1, <1>3
<1>5. SealKept
    BY <1>4 DEF SealKept, Sealed
<1>6. Receipts'
    <2>1. Follows(rec'[n], disk'[n])
        BY <1>1 DEF Follows
    <2>2. Exported(r.m)'
        BY <1>5, ExportLasts
    <2>3. OwnEnd(n, rec[n])' /\ OwnEnd(n, disk[n])'
        BY <1>1, <2>2 DEF OwnEnd
    <2> QED BY <1>1, <1>5, <2>1, <2>3, ReceiptsAt
<1>7. Libraries'
    <2>1. lib' = lib \/ lib' = [lib EXCEPT ![n] = r.m.items]
        OBVIOUS
    <2> QED BY <2>1, LibrariesInstall, Zenon
<1>8. Waiting'
    <2>1. \A i \in r.m.items : home[i] # NoNode
        BY DEF Exported, Waiting
    <2>2. \A x \in Nodes : \A i \in lib'[x] : home[i] # NoNode
        BY <1>1, <2>1 DEF Waiting
    <2>3. \A x \in Nodes : Sealed(x)' => \A i \in disk'[x].m.items : home[i] # NoNode
        BY <1>3, <1>4 DEF Waiting
    <2> QED BY <2>2, <2>3, WaitingKept
<1>9. EngineOnWholeLibrary'
    BY <1>1 DEF EngineOnWholeLibrary
<1> QED BY <1>2, <1>5, <1>6, <1>7, <1>8, <1>9

(* A sealed source empties its library. *)
LEMMA ReleaseStep ==
    ASSUME NodesInv, NEW n \in Nodes, NEW r \in Records,
           rec[n].phase = "EXPORTED", r.phase \in {"EXPORTED", "RELEASED"}, r.m = rec[n].m,
           rec' = [rec EXCEPT ![n] = r], disk' = [disk EXCEPT ![n] = r],
           lib' = [lib EXCEPT ![n] = {}],
           UNCHANGED <<engine, pend, stage, home, begins>>
    PROVE  NodesInv' /\ SealKept
<1> USE DEF NodesInv
<1>0. disk[n] = rec[n]
    BY DEF Receipts, Follows
<1>1. /\ rec'[n] = r /\ disk'[n] = r /\ lib'[n] = {}
      /\ \A x \in Nodes : x # n => rec'[x] = rec[x] /\ disk'[x] = disk[x] /\ lib'[x] = lib[x]
    BY DEF NodesTyped
<1>2. NodesTyped'
    <2>1. rec' \in [Nodes -> Records] /\ disk' \in [Nodes -> Records]
        BY DEF NodesTyped
    <2>2. lib' \in [Nodes -> SUBSET Items]
        BY DEF NodesTyped
    <2> QED BY <1>0, <1>1, <2>1, <2>2 DEF NodesTyped
<1>3. Sealed(n) /\ \A x \in Nodes : Sealed(x)' <=> Sealed(x)
    BY <1>0, <1>1 DEF Sealed
<1>4. \A x \in Nodes : disk'[x].m = disk[x].m
    BY <1>0, <1>1
<1>5. SealKept
    BY <1>3, <1>4 DEF SealKept, Sealed
<1>6. Receipts'
    <2>1. Follows(rec'[n], disk'[n])
        BY <1>1 DEF Follows
    <2>2. OwnEnd(n, rec[n])' /\ OwnEnd(n, disk[n])'
        BY <1>1, <1>0 DEF OwnEnd, Receipts
    <2> QED BY <1>1, <1>5, <2>1, <2>2, ReceiptsAt
<1>7. Libraries'
    <2>1. \A s \in Nodes : Pending(s)' => Pending(s)
        <3> SUFFICES ASSUME NEW s \in Nodes, Pending(s)' PROVE Pending(s)
            OBVIOUS
        <3>1. Sealed(s) /\ disk'[s].m = disk[s].m /\ disk[s].m.tgt \in Nodes
            BY <1>3, <1>4 DEF Pending, NodesTyped, Sealed, Whole
        <3>2. disk[s].m.tgt # n
            BY <3>1, <1>1 DEF Pending
        <3> QED BY <3>1, <3>2, <1>1 DEF Pending
    <2>2. \A x \in Nodes : lib'[x] \subseteq lib[x]
        BY <1>1
    <2> QED BY <1>3, <1>4, <2>1, <2>2, LibrariesNarrow
<1>8. Waiting'
    <2>1. \A x \in Nodes : \A i \in lib'[x] : home[i] # NoNode
        BY <1>1 DEF Waiting
    <2> QED BY <1>3, <1>4, <2>1, WaitingKept, Zenon DEF Waiting
<1>9. EngineOnWholeLibrary'
    BY <1>0, <1>1 DEF EngineOnWholeLibrary
<1> QED BY <1>2, <1>5, <1>6, <1>7, <1>8, <1>9

(* The process of a node dies and starts again from what it has saved. *)
LEMMA RestartStep ==
    ASSUME NodesInv, NEW n \in Nodes, NEW kept \in {pend[n], {}},
           rec' = [rec EXCEPT ![n] = disk[n]],
           engine' = [engine EXCEPT ![n] = RunsAtStart(disk[n])],
           pend' = [pend EXCEPT ![n] = kept],
           UNCHANGED <<disk, lib, stage, home, begins>>
    PROVE  NodesInv' /\ SealKept
<1> USE DEF NodesInv
<1>0. RunsAtStart(disk[n]) \in BOOLEAN
    BY DEF RunsAtStart
<1>1. /\ rec'[n] = disk[n] /\ engine'[n] = RunsAtStart(disk[n])
      /\ \A x \in Nodes : x # n => rec'[x] = rec[x] /\ engine'[x] = engine[x]
      /\ \A x \in Nodes : pend'[x] \subseteq pend[x]
    BY DEF NodesTyped
<1>2. NodesTyped'
    <2>1. rec' \in [Nodes -> Records] /\ pend' \in [Nodes -> SUBSET Items]
        BY DEF NodesTyped
    <2>2. engine' \in [Nodes -> BOOLEAN]
        BY <1>0 DEF NodesTyped
    <2> QED BY <1>1, <2>1, <2>2 DEF NodesTyped
<1>3. SealKept
    BY DEF SealKept, Sealed
<1>4. Receipts'
    <2>1. Follows(rec'[n], disk'[n])
        BY <1>1 DEF Follows, NodesTyped, Records, Phases
    <2>2. OwnEnd(n, rec[n])' /\ OwnEnd(n, disk[n])'
        <3>1. OwnEnd(n, disk[n])
            BY DEF Receipts
        <3>2. \A m : Exported(m)' <=> Exported(m)
            BY DEF Exported, Sealed
        <3> QED BY <1>1, <3>1, <3>2 DEF OwnEnd
    <2> QED BY <1>1, <1>3, <2>1, <2>2, ReceiptsAt
<1>5. Libraries'
    BY ZenonT(40) DEF Libraries, Pending, Sealed
<1>6. Waiting'
    <2>1. \A x \in Nodes : \A i \in lib'[x] : home[i] # NoNode
        BY DEF Waiting
    <2>2. \A x \in Nodes : Sealed(x)' => \A i \in disk'[x].m.items : home[i] # NoNode
        BY DEF Waiting, Sealed
    <2> QED BY <1>1, <2>1, <2>2, WaitingKept
<1>7. EngineOnWholeLibrary'
    BY <1>1, Zenon DEF EngineOnWholeLibrary, RunsAtStart
<1> QED BY <1>2, <1>3, <1>4, <1>5, <1>6, <1>7

(* An item is admitted at one open node, as the first to have it. *)
LEMMA AdmitStep ==
    ASSUME NodesInv, NEW n \in Nodes, NEW i \in Items, Admit(n, i)
    PROVE  NodesInv' /\ SealKept
<1> USE DEF NodesInv
<1>1. UNCHANGED <<rec, disk, engine, lib, stage, home, begins, olh, commit>>
    BY DEF Admit, mdsVars
<1>2. pend' = [pend EXCEPT ![n] = @ \cup {i}] /\ home[i] = NoNode /\ \A x \in Nodes : i \notin pend[x]
    BY DEF Admit
<1>3. pend'[n] = pend[n] \cup {i} /\ \A x \in Nodes : x # n => pend'[x] = pend[x]
    BY <1>2 DEF NodesTyped
<1>4. NodesTyped'
    BY <1>1, <1>2 DEF NodesTyped
<1>5. Receipts' /\ Libraries' /\ EngineOnWholeLibrary' /\ SealKept
    <2>1. Receipts'
        BY <1>1 DEF Receipts, Follows, OwnEnd, Exported, Sealed
    <2>2. Libraries'
        BY <1>1, ZenonT(40) DEF Libraries, Pending, Sealed
    <2>3. EngineOnWholeLibrary' /\ SealKept
        BY <1>1 DEF EngineOnWholeLibrary, SealKept, Sealed
    <2> QED BY <2>1, <2>2, <2>3
<1>6. Waiting'
    <2>1. \A x \in Nodes : \A j \in pend'[x] : home'[j] = NoNode
        BY <1>1, <1>2, <1>3 DEF Waiting
    <2>2. ASSUME NEW y \in Nodes, NEW x \in Nodes, y # x
          PROVE  pend'[y] \cap pend'[x] = {}
        <3>1. pend[y] \cap pend[x] = {} /\ i \notin pend[x] /\ i \notin pend[y]
            BY <2>2, <1>2 DEF Waiting
        <3> QED BY <3>1, <2>2, <1>3
    <2> QED BY <1>1, <2>1, <2>2 DEF Waiting, Sealed
<1> QED BY <1>4, <1>5, <1>6

(* An item is burnt where it waited: on a node that is not sealed, and as   *)
(* the first copy of the item.                                              *)
LEMMA BurnStep ==
    ASSUME NodesInv, NEW n \in Nodes, NEW i \in Items, Burn(n, i)
    PROVE  NodesInv' /\ SealKept
<1> USE DEF NodesInv
<1>1. /\ UNCHANGED <<rec, disk, engine, stage, begins>> /\ engine[n] /\ i \in pend[n]
      /\ pend' = [pend EXCEPT ![n] = @ \ {i}] /\ lib' = [lib EXCEPT ![n] = @ \cup {i}]
      /\ home' = [home EXCEPT ![i] = n]
    BY DEF Burn
<1>2. /\ lib'[n] = lib[n] \cup {i} /\ \A x \in Nodes : x # n => lib'[x] = lib[x]
      /\ pend'[n] = pend[n] \ {i} /\ \A x \in Nodes : x # n => pend'[x] = pend[x]
      /\ home'[i] = n /\ \A j \in Items : j # i => home'[j] = home[j]
    BY <1>1 DEF NodesTyped
<1>3. ~Sealed(n) /\ home[i] = NoNode /\ n # NoNode
    BY <1>1, HandoffAssumption DEF EngineOnWholeLibrary, Sealed, Waiting
<1>4. /\ \A x \in Nodes : i \notin lib[x] /\ (x # n => i \notin pend[x])
      /\ \A x \in Nodes : Sealed(x) => i \notin disk[x].m.items
    <2>1. \A x \in Nodes : i \notin lib[x]
        BY <1>3 DEF Waiting
    <2>2. \A x \in Nodes : Sealed(x) => i \notin disk[x].m.items
        BY <1>3 DEF Waiting
    <2>3. \A x \in Nodes : x # n => i \notin pend[x]
        <3> SUFFICES ASSUME NEW x \in Nodes, x # n PROVE i \notin pend[x]
            OBVIOUS
        <3>1. pend[n] \cap pend[x] = {}
            BY DEF Waiting
        <3> QED BY <3>1, <1>1
    <2> QED BY <2>1, <2>2, <2>3
<1>5. NodesTyped'
    <2>1. lib' \in [Nodes -> SUBSET Items] /\ pend' \in [Nodes -> SUBSET Items]
        BY <1>1 DEF NodesTyped
    <2>2. home' \in [Items -> Nodes \cup {NoNode}]
        BY <1>1 DEF NodesTyped
    <2> QED BY <1>1, <2>1, <2>2 DEF NodesTyped
<1>6. Receipts' /\ SealKept
    BY <1>1 DEF Receipts, Follows, OwnEnd, Exported, Sealed, SealKept
<1>7. Libraries'
    <2>1. \A x \in Nodes : (Sealed(x)' <=> Sealed(x)) /\ (Pending(x)' <=> Pending(x))
        BY <1>1 DEF Sealed, Pending
    <2>2. \A x \in Nodes : Pending(x) => Sealed(x)
        BY DEF Pending
    <2>3. ASSUME NEW s \in Nodes, NEW x \in Nodes, Pending(s), x # disk[s].m.tgt, ~Sealed(x)
          PROVE  lib'[x] \cap disk[s].m.items = {}
        <3>1. lib[x] \cap disk[s].m.items = {} /\ i \notin disk[s].m.items
            BY <1>4, <2>2, <2>3 DEF Libraries
        <3> QED BY <3>1, <1>2
    <2>4. ASSUME NEW y \in Nodes, NEW x \in Nodes, y # x, lib'[y] \cap lib'[x] # {}
          PROVE  Sealed(y) \/ Sealed(x)
        <3>1. lib[y] \cap lib[x] # {}
            BY <1>2, <1>4, <2>4
        <3> QED BY <3>1, <2>4 DEF Libraries
    <2> HIDE DEF Sealed, Pending
    <2> QED BY <1>1, <2>1, <2>3, <2>4, Zenon DEF Libraries
<1>8. Waiting'
    <2>1. \A x \in Nodes : \A j \in lib'[x] : home'[j] # NoNode
        <3> SUFFICES ASSUME NEW x \in Nodes, NEW j \in lib'[x] PROVE home'[j] # NoNode
            OBVIOUS
        <3>1. CASE j = i
            BY <3>1, <1>2, <1>3
        <3>2. CASE j # i
            BY <3>2, <1>2 DEF Waiting, NodesTyped
        <3> QED BY <3>1, <3>2
    <2>2. \A x \in Nodes : Sealed(x)' => \A j \in disk'[x].m.items : home'[j] # NoNode
        <3> SUFFICES ASSUME NEW x \in Nodes, Sealed(x), NEW j \in disk[x].m.items
                     PROVE  home'[j] # NoNode
            BY <1>1 DEF Sealed
        <3>1. j \in Items /\ j # i /\ home[j] # NoNode
            BY <1>4 DEF Waiting, NodesTyped, Sealed, Whole, Manifests
        <3> QED BY <3>1, <1>2, Zenon
    <2>3. \A x \in Nodes : \A j \in pend'[x] : home'[j] = NoNode
        <3> SUFFICES ASSUME NEW x \in Nodes, NEW j \in pend'[x] PROVE home'[j] = NoNode
            OBVIOUS
        <3>1. j \in pend[x] /\ j # i /\ j \in Items
            BY <1>2, <1>4 DEF NodesTyped
        <3> QED BY <3>1, <1>2, Zenon DEF Waiting
    <2>4. \A y, x \in Nodes : y # x => pend'[y] \cap pend'[x] = {}
        <3>1. \A x \in Nodes : pend'[x] \subseteq pend[x]
            BY <1>2
        <3>2. \A y, x \in Nodes : y # x => pend[y] \cap pend[x] = {}
            BY Zenon DEF Waiting
        <3> QED BY ONLY <3>1, <3>2
    <2> QED BY <2>1, <2>2, <2>3, <2>4 DEF Waiting
<1>9. EngineOnWholeLibrary'
    BY <1>1, <1>2 DEF EngineOnWholeLibrary
<1> QED BY <1>5, <1>6, <1>7, <1>8, <1>9

-----------------------------------------------------------------------------
(* What calls and their replies do to the scheduler and the network. *)

(* The request of each place is typed, and only "accept" asks a receiver. *)
LEMMA OutstandingTyped ==
    ASSUME NEW place, NEW m \in Whole
    PROVE  \A p \in Outstanding(place, m) :
               p \in Sent /\ (p.act = "ACCEPT" => place = "accept") /\ p.m = m
<1>1. m.src \in Nodes /\ m.tgt \in Nodes
    BY DEF Whole
<1>2. \A act \in {"FREEZE", "ACCEPT", "WRITE", "ACTIVATE", "COMMIT", "RELEASE"}, n \in Nodes :
          /\ Request("advance", act, n, m) \in Sent
          /\ Request("advance", act, n, m).act = act /\ Request("advance", act, n, m).m = m
    BY DEF Request, Sent, Callers, Artifacts
<1> HIDE DEF Request
<1> QED BY <1>1, <1>2 DEF Outstanding

(* The places Advance goes on to. *)
LEMMA AfterPlaces ==
    ASSUME NEW q \in Sent, NEW r, NEW place \in After(q.act, r)
    PROVE  /\ place \in {"idle", "accept", "copy", "activate", "commit", "release", "report"}
           /\ place = "accept" => q.act = "FREEZE" /\ r.phase = "EXPORTED"
<1>1. q.act \in {"FREEZE", "ACCEPT", "WRITE", "ACTIVATE", "COMMIT", "RELEASE"}
    BY DEF Sent
<1> QED BY <1>1 DEF After

(* The empty manifest and the idle thread are typed. *)
LEMMA IdleTyped == NoManifest \in Manifests /\ Idle \in Threads /\ Idle.at = "idle"
<1>1. 0 \in 0..MaxBegins
    BY HandoffAssumption
<1>2. NoManifest \in Manifests
    BY <1>1 DEF Manifests, NoManifest
<1> QED BY <1>2 DEF Idle, Threads

(* A reply moves its caller on; a receiver is asked only after an export. *)
LEMMA AnswerStep ==
    ASSUME CallsInv, SealKept, NEW q \in net, NEW ok \in BOOLEAN, NEW r, Answer(q, ok, r),
           ok /\ q.act = "FREEZE" =>
               r.m \in Whole /\ (r.phase = "EXPORTED" => Exported(r.m)')
    PROVE  CallsInv'
<1> USE DEF CallsInv
<1>0. q \in Sent /\ q.m \in Whole /\ q.m \in Manifests
    BY DEF CallsTyped, Sent, Whole
<1>1. \A p \in net : p.act = "ACCEPT" => Exported(p.m)'
    BY ExportLasts DEF Accepts
<1>2. CASE q.by = "advance" /\ ok
    <2>1. PICK place \in After(q.act, r) :
              LET m == IF q.act = "FREEZE" THEN r.m ELSE q.m IN
              /\ adv' = IF place = "idle" THEN Idle
                        ELSE [at |-> place, node |-> adv.node, m |-> m]
              /\ net' = (net \ {q}) \cup Outstanding(place, m)
              /\ UNCHANGED <<begin, task>>
        BY <1>2, <1>0 DEF Answer, CallsTyped
    <2> DEFINE m == IF q.act = "FREEZE" THEN r.m ELSE q.m
    <2>2. m \in Whole /\ m \in Manifests
        BY <1>0, <1>2 DEF Whole
    <2>3. /\ place \in {"idle", "accept", "copy", "activate", "commit", "release", "report"}
          /\ place = "accept" => q.act = "FREEZE" /\ r.phase = "EXPORTED"
        BY <1>0, <2>1, AfterPlaces
    <2>4. /\ adv' = IF place = "idle" THEN Idle ELSE [at |-> place, node |-> adv.node, m |-> m]
          /\ net' = (net \ {q}) \cup Outstanding(place, m) /\ begin' = begin
        BY <2>1
    <2>5. place = "accept" => Exported(m)'
        BY <1>2, <2>3
    <2> HIDE DEF m
    <2>6. \A p \in Outstanding(place, m) : p \in Sent /\ (p.act = "ACCEPT" => Exported(p.m)')
        BY <2>2, <2>5, OutstandingTyped
    <2>7. adv' \in Threads /\ (adv'.at # "idle" => adv'.m \in Whole)
        <3>1. CASE place = "idle"
            BY <3>1, <2>4, IdleTyped
        <3>2. CASE place # "idle"
            <4>1. adv.node \in Nodes \cup {NoNode}
                BY DEF CallsTyped, Threads
            <4> QED BY <3>2, <4>1, <2>2, <2>3, <2>4 DEF Threads
        <3> QED BY <3>1, <3>2
    <2>8. CallsTyped'
        BY <2>4, <2>6, <2>7 DEF CallsTyped
    <2>9. Accepts'
        BY <1>1, <2>4, <2>6 DEF Accepts
    <2> QED BY <2>8, <2>9
<1>3. CASE q.by = "advance" /\ ~ok
    <2>1. adv' = Idle /\ net' = net \ {q} /\ begin' = begin
        BY <1>3 DEF Answer, AdvanceFails
    <2> QED BY <1>1, <2>1, IdleTyped DEF CallsTyped, Accepts
<1>4. CASE q.by = "begin"
    <2>1. /\ begin' = [begin EXCEPT !.at = IF ok THEN "remove" ELSE "fenced"]
          /\ net' = net \ {q} /\ adv' = adv
        BY <1>4 DEF Answer
    <2>2. begin' \in Threads /\ begin'.at # "pick"
        BY <2>1 DEF CallsTyped, Threads
    <2> QED BY <1>1, <2>1, <2>2 DEF CallsTyped, Accepts
<1>5. CASE q.by = "nobody"
    <2>1. net' = net \ {q} /\ adv' = adv /\ begin' = begin
        BY <1>5 DEF Answer
    <2> QED BY <1>1, <2>1 DEF CallsTyped, Accepts
<1> QED BY <1>2, <1>3, <1>4, <1>5 DEF Answer

(* Requests change hands, or stop asking; none is new. *)
LEMMA SameRequests ==
    ASSUME CallsInv, SealKept, UNCHANGED <<begin, adv>>, NEW q \in net, NEW p \in Sent,
           p.act = q.act, p.m = q.m, net' = (net \ {q}) \cup {p}
    PROVE  CallsInv'
<1>1. \A o \in net : o.act = "ACCEPT" => Exported(o.m)'
    BY ExportLasts DEF Accepts, CallsInv
<1> QED BY <1>1 DEF CallsInv, CallsTyped, Accepts

-----------------------------------------------------------------------------
(* The handlers of a node. *)

(* A handler that refuses changes nothing at its node. *)
LEMMA RefuseStep ==
    ASSUME IInv, NEW q \in net, Refuse(q), UNCHANGED <<home, begins>>
    PROVE  IInv'
<1>1. NodesInv' /\ SealKept
    <2>1. UNCHANGED <<rec, disk, engine, lib, pend, stage>>
        BY DEF Refuse, nodeVars
    <2>2. stage' \in [Nodes -> [Artifacts -> Nat]]
        BY <2>1 DEF IInv, NodesInv, NodesTyped
    <2> QED BY <2>1, <2>2, StillStep DEF IInv
<1>2. CallsInv'
    BY <1>1, AnswerStep, Zenon DEF IInv, Refuse
<1> QED BY <1>1, <1>2 DEF IInv

(* The handler answers and leaves the node as it is. *)
LEMMA ReplyStep ==
    ASSUME IInv, NEW q \in net, NEW r, Answer(q, TRUE, r), UNCHANGED <<nodeVars, home, begins>>,
           q.act = "FREEZE" => r.m \in Whole /\ (r.phase = "EXPORTED" => Exported(r.m))
    PROVE  IInv'
<1>1. NodesInv' /\ SealKept
    <2>1. UNCHANGED <<rec, disk, engine, lib, pend, stage>>
        BY DEF nodeVars
    <2>2. stage' \in [Nodes -> [Artifacts -> Nat]]
        BY <2>1 DEF IInv, NodesInv, NodesTyped
    <2> QED BY <2>1, <2>2, StillStep DEF IInv
<1>2. q.act = "FREEZE" => r.m \in Whole /\ (r.phase = "EXPORTED" => Exported(r.m)')
    BY <1>1, ExportLasts
<1>3. CallsInv'
    BY <1>1, <1>2, AnswerStep, Zenon DEF IInv
<1> QED BY <1>1, <1>3 DEF IInv

(* A handler that asks the MDS keeps its request. *)
LEMMA AskStep ==
    ASSUME IInv, NEW q \in net, Ask(q), UNCHANGED <<home, begins>>
    PROVE  IInv'
<1>1. NodesInv' /\ SealKept
    <2>1. UNCHANGED <<rec, disk, engine, lib, pend, stage>>
        BY DEF Ask, nodeVars
    <2>2. stage' \in [Nodes -> [Artifacts -> Nat]]
        BY <2>1 DEF IInv, NodesInv, NodesTyped
    <2> QED BY <2>1, <2>2, StillStep DEF IInv
<1>2. q \in Sent
    BY DEF IInv, CallsInv, CallsTyped
<1>3. [q EXCEPT !.asking = TRUE] \in Sent
    BY <1>2, Zenon DEF Sent
<1>4. [q EXCEPT !.asking = TRUE].act = q.act /\ [q EXCEPT !.asking = TRUE].m = q.m
    BY <1>2 DEF Sent
<1>5. CallsInv'
    BY <1>1, <1>3, <1>4, SameRequests, Zenon DEF IInv, Ask
<1> QED BY <1>1, <1>5 DEF IInv

(* FREEZE from a record the node is not sealed by, or from its own. *)
LEMMA FreezeFromStep ==
    ASSUME IInv, NEW q \in net, NEW at, FreezeFrom(q, at), UNCHANGED <<home, begins>>,
           q.m.src = q.node, at = NoRecord \/ at = rec[q.node],
           at.phase = "NONE" => rec[q.node].phase \in {"NONE", "ACTIVE"}
    PROVE  IInv'
<1> DEFINE n == q.node
           fenced == IF at.phase = "NONE" THEN [phase |-> "FREEZING", m |-> q.m] ELSE at
           saved == IF at.phase = "NONE" THEN fenced ELSE disk[n]
           exported == [phase |-> "EXPORTED", m |-> [fenced.m EXCEPT !.items = lib[n]]]
<1>0. q \in Sent /\ n \in Nodes /\ q.m \in Whole /\ q.m \in Manifests
    BY DEF IInv, CallsInv, CallsTyped, Sent, Whole
<1>1. at \in Records
    BY <1>0, IdleTyped DEF IInv, NodesInv, NodesTyped, NoRecord, Records, Phases
<1>2. /\ fenced \in Records /\ fenced.m \in Whole
      /\ fenced.phase = "FREEZING" => fenced.m.src = n
      /\ fenced.phase = "FREEZING" => disk[n].phase \in {"NONE", "ACTIVE", "FREEZING"}
    <2>1. CASE at.phase = "NONE"
        <3>1. fenced = [phase |-> "FREEZING", m |-> q.m]
            BY <2>1
        <3>2. rec[n].phase \in {"NONE", "ACTIVE"} /\ Follows(rec[n], disk[n])
            BY <1>0, <2>1 DEF IInv, NodesInv, Receipts
        <3>3. disk[n].phase \in {"NONE", "ACTIVE", "FREEZING"}
            BY <3>2 DEF Follows
        <3>4. PICK r \in Records : r = [phase |-> "FREEZING", m |-> q.m]
            BY <1>0, Zenon DEF Records, Phases
        <3>5. r = fenced /\ r.phase = "FREEZING" /\ r.m = q.m
            BY <3>1, <3>4
        <3> HIDE DEF fenced
        <3> QED BY <1>0, <3>3, <3>5
    <2>2. CASE at.phase # "NONE"
        <3>1. fenced = at /\ at = rec[n]
            BY <2>2 DEF NoRecord
        <3>2. rec[n].m \in Whole /\ OwnEnd(n, rec[n]) /\ Follows(rec[n], disk[n])
            BY <1>0, <2>2, <3>1, Zenon DEF IInv, NodesInv, NodesTyped, Receipts
        <3> QED BY <3>1, <3>2, <1>1 DEF OwnEnd, Follows
    <2> QED BY <2>1, <2>2
<1>3. disk' = [disk EXCEPT ![n] = saved] => disk' = disk \/ disk' = [disk EXCEPT ![n] = fenced]
    BY <1>0, Zenon DEF IInv, NodesInv, NodesTyped
<1>4. exported \in Records /\ exported.m \in Whole /\ exported.m.src = fenced.m.src
          /\ exported.m.items = lib[n] /\ exported.phase = "EXPORTED"
    <2>1. lib[n] \in SUBSET Items
        BY <1>0 DEF IInv, NodesInv, NodesTyped
    <2> HIDE DEF fenced
    <2>2. [fenced.m EXCEPT !.items = lib[n]] \in Manifests
        BY <1>2, <2>1 DEF Whole, Manifests
    <2>3. /\ [fenced.m EXCEPT !.items = lib[n]].src = fenced.m.src
          /\ [fenced.m EXCEPT !.items = lib[n]].tgt = fenced.m.tgt
          /\ [fenced.m EXCEPT !.items = lib[n]].items = lib[n]
        BY <1>2 DEF Whole, Manifests
    <2> QED BY <1>2, <2>2, <2>3, Zenon DEF Records, Phases, Whole
<1>5. \/ /\ at.phase = "NONE"
         /\ rec' = [rec EXCEPT ![n] = fenced]
         /\ Answer(q, FALSE, fenced)
         /\ UNCHANGED <<disk, engine, lib, pend, snap, stage>>
      \/ /\ fenced.phase = "FREEZING"
         /\ rec' = [rec EXCEPT ![n] = fenced]
         /\ disk' = [disk EXCEPT ![n] = saved]
         /\ engine' = [engine EXCEPT ![n] = TRUE] \/ engine' = [engine EXCEPT ![n] = FALSE]
         /\ Answer(q, FALSE, fenced)
         /\ UNCHANGED <<lib, pend, stage>>
      \/ /\ fenced.phase = "FREEZING"
         /\ engine' = [engine EXCEPT ![n] = FALSE]
         /\ rec' = [rec EXCEPT ![n] = exported]
         /\ disk' = [disk EXCEPT ![n] = exported]
         /\ Answer(q, TRUE, exported)
         /\ UNCHANGED <<lib, pend, stage>>
      \/ fenced.phase # "FREEZING" /\ Answer(q, TRUE, fenced) /\ UNCHANGED nodeVars
    BY Zenon DEF FreezeFrom
<1>6. at.phase = "NONE" => fenced.phase = "FREEZING"
    OBVIOUS
<1>7. fenced.phase # "FREEZING" => fenced = rec[n]
    BY DEF NoRecord
<1> HIDE DEF n, fenced, saved, exported
<1>8. CASE /\ fenced.phase = "FREEZING"
           /\ rec' = [rec EXCEPT ![n] = fenced]
           /\ disk' = disk \/ disk' = [disk EXCEPT ![n] = fenced]
           /\ engine' = engine \/ \E b \in BOOLEAN : engine' = [engine EXCEPT ![n] = b]
           /\ Answer(q, FALSE, fenced)
           /\ UNCHANGED <<lib, pend, stage>>
    <2>1. NodesInv' /\ SealKept
        BY <1>0, <1>2, <1>8, FenceStep, Zenon DEF IInv
    <2>2. CallsInv'
        BY <1>8, <2>1, AnswerStep, Zenon DEF IInv
    <2> QED BY <2>1, <2>2 DEF IInv
<1>9. CASE /\ fenced.phase = "FREEZING"
           /\ engine' = [engine EXCEPT ![n] = FALSE]
           /\ rec' = [rec EXCEPT ![n] = exported]
           /\ disk' = [disk EXCEPT ![n] = exported]
           /\ Answer(q, TRUE, exported)
           /\ UNCHANGED <<lib, pend, stage>>
    <2>1. PICK e \in Records : e = exported
        BY <1>4
    <2>2. NodesInv' /\ SealKept /\ Exported(e.m)'
        BY <1>0, <1>2, <1>4, <1>9, <2>1, ExportStep, Zenon DEF IInv
    <2>3. CallsInv'
        BY <1>4, <1>9, <2>1, <2>2, AnswerStep, Zenon DEF IInv
    <2> QED BY <2>2, <2>3 DEF IInv
<1>10. CASE fenced.phase # "FREEZING" /\ Answer(q, TRUE, fenced) /\ UNCHANGED nodeVars
    <2>1. fenced.phase = "EXPORTED" => Exported(fenced.m)
        <3>1. Follows(rec[n], disk[n]) /\ OwnEnd(n, rec[n])
            BY <1>0 DEF IInv, NodesInv, Receipts
        <3> QED BY <3>1, <1>0, <1>7, <1>10 DEF Follows, OwnEnd, Exported, Sealed
    <2> QED BY <1>2, <1>10, <2>1, ReplyStep, Zenon
<1> QED BY <1>3, <1>5, <1>6, <1>8, <1>9, <1>10, Zenon

(* HANDOFF_FREEZE in all its cases. *)
LEMMA FreezeStep ==
    ASSUME IInv, NEW q \in net, Freeze(q), UNCHANGED <<home, begins>>
    PROVE  IInv'
<1>1. CASE Refuse(q)
    BY <1>1, RefuseStep
<1>2. CASE Ask(q)
    BY <1>2, AskStep
<1>3. CASE q.m.src = q.node /\ rec[q.node].phase = "ACTIVE" /\ FreezeFrom(q, NoRecord)
    BY <1>3, FreezeFromStep
<1>4. CASE q.m.src = q.node /\ FreezeFrom(q, rec[q.node])
    BY <1>4, FreezeFromStep
<1> QED BY <1>1, <1>2, <1>3, <1>4, Zenon DEF Freeze

(* HANDOFF_ACCEPT in all its cases. *)
LEMMA AcceptStep ==
    ASSUME IInv, NEW q \in net, Accept(q), UNCHANGED <<home, begins>>
    PROVE  IInv'
<1> DEFINE n == q.node
           mine == [phase |-> "RECEIVING", m |-> q.m]
<1>0. q \in Sent /\ n \in Nodes /\ q.m \in Whole /\ q.m \in Manifests
    BY DEF IInv, CallsInv, CallsTyped, Sent, Whole
<1>1. q.act = "ACCEPT" /\ Exported(q.m)
    BY Zenon DEF Accept, IInv, CallsInv, Accepts
<1>2. CASE Refuse(q)
    BY <1>2, RefuseStep
<1>3. CASE Answer(q, TRUE, rec[n]) /\ UNCHANGED nodeVars
    BY <1>1, <1>3, ReplyStep, Zenon
<1>4. CASE /\ q.m.tgt = n /\ rec[n].phase = "NONE"
           /\ rec' = [rec EXCEPT ![n] = mine]
           /\ \/ /\ disk' = [disk EXCEPT ![n] = mine]
                 /\ engine' = [engine EXCEPT ![n] = FALSE]
                 /\ Answer(q, TRUE, mine)
              \/ /\ Answer(q, FALSE, mine)
                 /\ UNCHANGED <<disk, engine>>
           /\ UNCHANGED <<lib, pend, snap, stage>>
    <2>1. mine \in Records /\ mine.phase = "RECEIVING" /\ mine.m = q.m
        BY <1>0 DEF Records, Phases
    <2>2. disk[n].phase = "NONE"
        BY <1>0, <1>4 DEF IInv, NodesInv, Receipts, Follows
    <2> HIDE DEF mine, n
    <2>3. NodesInv' /\ SealKept
        BY <1>0, <1>1, <1>4, <2>1, <2>2, ReserveStep, Zenon DEF IInv
    <2>4. CallsInv'
        BY <1>1, <1>4, <2>3, AnswerStep, Zenon DEF IInv
    <2> QED BY <2>3, <2>4 DEF IInv
<1> QED BY <1>2, <1>3, <1>4, Zenon DEF Accept

(* HANDOFF_WRITE only stages bytes. *)
LEMMA WriteStep ==
    ASSUME IInv, NEW q \in net, Write(q), UNCHANGED <<home, begins>>
    PROVE  IInv'
<1> DEFINE n == q.node
<1>0. q \in Sent /\ n \in Nodes /\ q.file \in Artifacts
    BY DEF IInv, CallsInv, CallsTyped, Sent
<1>1. CASE Refuse(q)
    BY <1>1, RefuseStep
<1>2. CASE /\ stage' = [stage EXCEPT ![n][q.file] = IF q.off = @ THEN @ + 1 ELSE @]
           /\ Answer(q, TRUE, rec[n])
           /\ UNCHANGED <<rec, disk, engine, lib, pend, snap>>
    <2>1. stage' \in [Nodes -> [Artifacts -> Nat]]
        <3>1. stage \in [Nodes -> [Artifacts -> Nat]] /\ stage[n][q.file] \in Nat
            BY <1>0 DEF IInv, NodesInv, NodesTyped
        <3>2. (IF q.off = stage[n][q.file] THEN stage[n][q.file] + 1 ELSE stage[n][q.file]) \in Nat
            BY <3>1
        <3> QED BY <1>2, <3>1, <3>2, Zenon
    <2>2. NodesInv' /\ SealKept
        BY <1>2, <2>1, StillStep DEF IInv
    <2>3. q.act # "FREEZE"
        BY DEF Write
    <2>4. CallsInv'
        BY <1>2, <2>2, <2>3, AnswerStep, Zenon DEF IInv
    <2> QED BY <2>2, <2>4 DEF IInv
<1> QED BY <1>1, <1>2, Zenon DEF Write

(* What an installation leaves, however far it gets. *)
LEMMA InstalledFiles ==
    ASSUME NodesTyped, NEW n \in Nodes, NEW k \in 0..5, Installed(n, k)
    PROVE  /\ stage' \in [Nodes -> [Artifacts -> Nat]]
           /\ lib' = lib \/ lib' = [lib EXCEPT ![n] = rec[n].m.items]
           /\ k = 5 => lib' = [lib EXCEPT ![n] = rec[n].m.items]
<1>1. stage[n] \in [Artifacts -> Nat]
    BY DEF NodesTyped
<1>2. [f \in Artifacts |->
          IF f = "disc" THEN IF k < 1 THEN stage[n][f] ELSE 0
          ELSE CASE k < 2 -> stage[n][f] [] k = 2 -> 0 [] k = 3 -> 1 [] k > 3 -> 2]
          \in [Artifacts -> Nat]
    BY <1>1
<1>3. stage' \in [Nodes -> [Artifacts -> Nat]]
    BY <1>2 DEF Installed, NodesTyped
<1>4. lib' = IF k < 1 THEN lib ELSE [lib EXCEPT ![n] = rec[n].m.items]
    BY DEF Installed
<1> QED BY <1>3, <1>4

(* HANDOFF_ACTIVATE, finished, failed or interrupted at any step. *)
LEMMA ActivateStep ==
    ASSUME IInv, NEW q \in net, Activate(q), UNCHANGED <<home, begins>>
    PROVE  IInv'
<1> DEFINE n == q.node
           phase(p) == [phase |-> p, m |-> q.m]
           due == /\ q.m.tgt = n /\ rec[n].m = q.m
                  /\ rec[n].phase \in {"RECEIVING", "INSTALLING"}
<1>0. q \in Sent /\ n \in Nodes /\ q.m \in Whole /\ q.m \in Manifests /\ q.act = "ACTIVATE"
    BY Zenon DEF Activate, IInv, CallsInv, CallsTyped, Sent, Whole
<1>1. CASE Refuse(q)
    BY <1>1, RefuseStep
<1>2. CASE Answer(q, TRUE, rec[n]) /\ UNCHANGED nodeVars
    BY <1>0, <1>2, ReplyStep, Zenon
<1>3. ASSUME due
      PROVE  /\ Exported(q.m)
             /\ disk[n].phase = "NONE"
                    \/ (disk[n].phase \in {"RECEIVING", "INSTALLING"} /\ disk[n].m = q.m)
    <2>1. OwnEnd(n, rec[n]) /\ Follows(rec[n], disk[n])
        BY <1>0 DEF IInv, NodesInv, Receipts
    <2> QED BY <1>3, <2>1 DEF OwnEnd, Follows
<1>4. \A p \in {"INSTALLING", "ACTIVE"} :
          phase(p) \in Records /\ phase(p).phase = p /\ phase(p).m = q.m
    BY <1>0 DEF Records, Phases
<1>5. RunsAtStart(phase("INSTALLING")) = FALSE
    BY DEF RunsAtStart
<1>6. \/ Refuse(q)
      \/ Answer(q, TRUE, rec[n]) /\ UNCHANGED nodeVars
      \/ /\ due
         /\ rec' = [rec EXCEPT ![n] = phase("INSTALLING")]
         /\ Answer(q, FALSE, phase("INSTALLING"))
         /\ UNCHANGED <<disk, engine, lib, pend, snap, stage>>
      \/ /\ due /\ UNCHANGED pend
         /\ \E p \in {"INSTALLING", "ACTIVE"} :
               rec' = [rec EXCEPT ![n] = phase(p)] /\ disk' = [disk EXCEPT ![n] = phase(p)]
         /\ engine' = [engine EXCEPT ![n] = TRUE]
         /\ Installed(n, 5)
         /\ \E ok \in BOOLEAN, r \in {phase("ACTIVE"), phase("INSTALLING")} : Answer(q, ok, r)
      \/ /\ due /\ UNCHANGED pend
         /\ \E k \in 0..5 : Installed(n, k)
         /\ rec' = [rec EXCEPT ![n] = phase("INSTALLING")]
         /\ disk' = [disk EXCEPT ![n] = phase("INSTALLING")]
         /\ engine' = [engine EXCEPT ![n] = RunsAtStart(phase("INSTALLING"))]
         /\ Answer(q, FALSE, NoRecord)
    BY Zenon DEF Activate
<1>7. NodesTyped
    BY DEF IInv, NodesInv
<1> HIDE DEF n, phase
<1>8. CASE /\ due
           /\ rec' = [rec EXCEPT ![n] = phase("INSTALLING")]
           /\ Answer(q, FALSE, phase("INSTALLING"))
           /\ UNCHANGED <<disk, engine, lib, pend, snap, stage>>
    <2>1. NodesInv' /\ SealKept
        BY <1>0, <1>3, <1>4, <1>8, ReserveStep, Zenon DEF IInv
    <2>2. CallsInv'
        BY <1>8, <2>1, AnswerStep, Zenon DEF IInv
    <2> QED BY <2>1, <2>2 DEF IInv
<1>9. CASE /\ due /\ UNCHANGED pend
           /\ \E p \in {"INSTALLING", "ACTIVE"} :
                 rec' = [rec EXCEPT ![n] = phase(p)] /\ disk' = [disk EXCEPT ![n] = phase(p)]
           /\ engine' = [engine EXCEPT ![n] = TRUE]
           /\ Installed(n, 5)
           /\ \E ok \in BOOLEAN, r \in {phase("ACTIVE"), phase("INSTALLING")} : Answer(q, ok, r)
    <2>1. PICK p \in {"INSTALLING", "ACTIVE"} :
              rec' = [rec EXCEPT ![n] = phase(p)] /\ disk' = [disk EXCEPT ![n] = phase(p)]
        BY <1>9, Zenon
    <2>2. /\ stage' \in [Nodes -> [Artifacts -> Nat]]
          /\ lib' = [lib EXCEPT ![n] = rec[n].m.items]
        BY <1>0, <1>7, <1>9, InstalledFiles
    <2>3. PICK r \in Records : r = phase(p)
        BY <1>4
    <2>4. /\ r.phase \in {"INSTALLING", "ACTIVE"} /\ r.m \in Whole /\ Exported(r.m) /\ r.m.tgt = n
          /\ disk[n].phase = "NONE"
                 \/ (disk[n].phase \in {"RECEIVING", "INSTALLING"} /\ disk[n].m = r.m)
        BY <1>0, <1>3, <1>4, <1>9, <2>3, Zenon
    <2>5. /\ rec' = [rec EXCEPT ![n] = r] /\ disk' = [disk EXCEPT ![n] = r]
          /\ lib' = [lib EXCEPT ![n] = r.m.items] /\ engine' = [engine EXCEPT ![n] = TRUE]
          /\ UNCHANGED <<pend, home, begins>>
        BY <1>4, <1>9, <2>1, <2>2, <2>3, Zenon
    <2>6. NodesInv' /\ SealKept
        BY <1>0, <2>2, <2>4, <2>5, InstallStep, Zenon DEF IInv
    <2>7. CallsInv'
        BY <1>0, <1>9, <2>6, AnswerStep, Zenon DEF IInv
    <2> QED BY <2>6, <2>7 DEF IInv
<1>10. CASE /\ due /\ UNCHANGED pend
            /\ \E k \in 0..5 : Installed(n, k)
            /\ rec' = [rec EXCEPT ![n] = phase("INSTALLING")]
            /\ disk' = [disk EXCEPT ![n] = phase("INSTALLING")]
            /\ engine' = [engine EXCEPT ![n] = RunsAtStart(phase("INSTALLING"))]
            /\ Answer(q, FALSE, NoRecord)
    <2>1. /\ stage' \in [Nodes -> [Artifacts -> Nat]]
          /\ lib' = lib \/ lib' = [lib EXCEPT ![n] = rec[n].m.items]
        BY <1>0, <1>7, <1>10, InstalledFiles, Zenon
    <2>2. lib' = lib \/ lib' = [lib EXCEPT ![n] = phase("INSTALLING").m.items]
        BY <1>4, <1>10, <2>1
    <2>3. engine' = [engine EXCEPT ![n] = FALSE]
        BY <1>5, <1>10, Zenon
    <2>4. PICK r \in Records : r = phase("INSTALLING")
        BY <1>4
    <2>5. /\ r.phase \in {"INSTALLING", "ACTIVE"} /\ r.m \in Whole /\ Exported(r.m) /\ r.m.tgt = n
          /\ disk[n].phase = "NONE"
                 \/ (disk[n].phase \in {"RECEIVING", "INSTALLING"} /\ disk[n].m = r.m)
        BY <1>0, <1>3, <1>4, <1>10, <2>4, Zenon
    <2>6. /\ rec' = [rec EXCEPT ![n] = r] /\ disk' = [disk EXCEPT ![n] = r]
          /\ lib' = lib \/ lib' = [lib EXCEPT ![n] = r.m.items]
          /\ UNCHANGED <<pend, home, begins>>
        BY <1>10, <2>2, <2>4, Zenon
    <2>7. NodesInv' /\ SealKept
        BY <1>0, <2>1, <2>3, <2>5, <2>6, InstallStep, Zenon DEF IInv
    <2>8. CallsInv'
        BY <1>10, <2>7, AnswerStep, Zenon DEF IInv
    <2> QED BY <2>7, <2>8 DEF IInv
<1> QED BY <1>1, <1>2, <1>6, <1>8, <1>9, <1>10, Zenon

(* HANDOFF_RELEASE in all its cases. *)
LEMMA ReleaseHandlerStep ==
    ASSUME IInv, NEW q \in net, Release(q), UNCHANGED <<home, begins>>
    PROVE  IInv'
<1> DEFINE n == q.node
           released == [phase |-> "RELEASED", m |-> q.m]
<1>0. q \in Sent /\ n \in Nodes /\ q.m \in Whole /\ q.m \in Manifests /\ q.act = "RELEASE"
    BY Zenon DEF Release, IInv, CallsInv, CallsTyped, Sent, Whole
<1>1. CASE Refuse(q)
    BY <1>1, RefuseStep
<1>2. CASE Answer(q, TRUE, rec[n]) /\ UNCHANGED nodeVars
    BY <1>0, <1>2, ReplyStep, Zenon
<1>3. CASE Ask(q)
    BY <1>3, AskStep
<1>4. CASE /\ rec[n].m = q.m /\ rec[n].phase = "EXPORTED"
           /\ lib' = [lib EXCEPT ![n] = {}]
           /\ \/ /\ rec' = [rec EXCEPT ![n] = released]
                 /\ disk' = [disk EXCEPT ![n] = released]
                 /\ Answer(q, TRUE, released)
              \/ /\ Answer(q, FALSE, rec[n])
                 /\ UNCHANGED <<rec, disk>>
           /\ UNCHANGED <<engine, pend, stage>>
    <2>1. released \in Records /\ released.phase = "RELEASED" /\ released.m = q.m
        BY <1>0 DEF Records, Phases
    <2>2. rec[n] \in Records /\ disk[n] = rec[n]
        BY <1>0, <1>4 DEF IInv, NodesInv, NodesTyped, Receipts, Follows
    <2>3. UNCHANGED <<rec, disk>> =>
              rec' = [rec EXCEPT ![n] = rec[n]] /\ disk' = [disk EXCEPT ![n] = rec[n]]
        BY <1>0, <2>2, Zenon DEF IInv, NodesInv, NodesTyped
    <2> HIDE DEF n, released
    <2>4. PICK r \in Records : /\ r.phase \in {"EXPORTED", "RELEASED"} /\ r.m = q.m
                               /\ rec' = [rec EXCEPT ![n] = r] /\ disk' = [disk EXCEPT ![n] = r]
        BY <1>4, <2>1, <2>2, <2>3, Zenon
    <2>5. NodesInv' /\ SealKept
        BY <1>0, <1>4, <2>4, ReleaseStep, Zenon DEF IInv
    <2>6. CallsInv'
        BY <1>0, <1>4, <2>5, AnswerStep, Zenon DEF IInv
    <2> QED BY <2>5, <2>6 DEF IInv
<1> QED BY <1>1, <1>2, <1>3, <1>4, Zenon DEF Release

(* Every handler of a node. *)
LEMMA HandleStep ==
    ASSUME IInv, Handle
    PROVE  IInv'
<1>1. UNCHANGED <<home, begins>>
    BY DEF Handle, mdsVars
<1> QED BY <1>1, FreezeStep, AcceptStep, WriteStep, ActivateStep, ReleaseHandlerStep DEF Handle

-----------------------------------------------------------------------------
(* Restarts of nodes, the MDS and the scheduler. *)

(* A step outside the nodes leaves what is known of them. *)
LEMMA QuietStep ==
    ASSUME IInv, UNCHANGED <<nodeVars, home>>, begins' \in 0..MaxBegins
    PROVE  NodesInv' /\ SealKept /\ \A p \in net : p.act = "ACCEPT" => Exported(p.m)'
<1>1. UNCHANGED <<rec, disk, engine, lib, pend, stage, home>>
    BY DEF nodeVars
<1>2. NodesTyped'
    BY <1>1 DEF IInv, NodesInv, NodesTyped
<1>3. Receipts'
    BY <1>1 DEF IInv, NodesInv, Receipts, Follows, OwnEnd, Exported, Sealed
<1>4. Libraries'
    BY <1>1, Zenon DEF IInv, NodesInv, Libraries, Pending, Sealed
<1>5. Waiting' /\ EngineOnWholeLibrary'
    BY <1>1, Zenon DEF IInv, NodesInv, Waiting, Sealed, EngineOnWholeLibrary
<1>6. SealKept
    BY <1>1 DEF SealKept, Sealed
<1>7. \A p \in net : p.act = "ACCEPT" => Exported(p.m)'
    BY <1>6, ExportLasts DEF IInv, CallsInv, Accepts
<1> QED BY <1>2, <1>3, <1>4, <1>5, <1>6, <1>7 DEF NodesInv

(* A node restarts, with or without a handler that was waiting. *)
LEMMA NodeRestartStep ==
    ASSUME IInv, NEW n \in Nodes, NodeRestart(n)
    PROVE  IInv'
<1>1. NodesInv' /\ SealKept
    <2>1. /\ rec' = [rec EXCEPT ![n] = disk[n]]
          /\ engine' = [engine EXCEPT ![n] = RunsAtStart(disk[n])]
          /\ UNCHANGED <<disk, lib, stage, home, begins>>
        BY DEF NodeRestart, mdsVars
    <2>2. PICK kept \in {pend[n], {}} : pend' = [pend EXCEPT ![n] = kept]
        BY Zenon DEF NodeRestart
    <2> QED BY <2>1, <2>2, RestartStep, Zenon DEF IInv
<1>2. CASE UNCHANGED <<net, begin, adv, task>>
    <2>1. \A p \in net : p.act = "ACCEPT" => Exported(p.m)'
        BY <1>1, ExportLasts DEF IInv, CallsInv, Accepts
    <2> QED BY <1>1, <1>2, <2>1 DEF IInv, CallsInv, CallsTyped, Accepts
<1>3. CASE \E q \in net : Answer(q, FALSE, NoRecord)
    <2>1. CallsInv'
        BY <1>1, <1>3, AnswerStep, Zenon DEF IInv
    <2> QED BY <1>1, <2>1 DEF IInv
<1> QED BY <1>2, <1>3, Zenon DEF NodeRestart

(* Every step of a commit, and its failures. *)
LEMMA MdsStep ==
    ASSUME IInv, Mds \/ MdsFails
    PROVE  IInv'
<1>1. UNCHANGED <<nodeVars, home, begins>>
    BY DEF Mds, MdsFails
<1>2. NodesInv' /\ SealKept /\ \A p \in net : p.act = "ACCEPT" => Exported(p.m)'
    BY <1>1, QuietStep DEF IInv, NodesInv, NodesTyped
<1>3. PICK q \in net : \/ CommitBegin(q) \/ CommitSource(q) \/ CommitTarget(q)
                       \/ CommitWrite(q) \/ CommitFails(q)
    BY DEF Mds, MdsFails
<1>4. q.act = "COMMIT"
    BY <1>3, Zenon DEF CommitBegin, CommitSource, CommitTarget, CommitReceipt, CommitWrite, CommitFails
<1>5. ASSUME NEW ok \in BOOLEAN, Answer(q, ok, NoRecord)
      PROVE  CallsInv'
    BY <1>2, <1>4, <1>5, AnswerStep DEF IInv
<1>6. CASE UNCHANGED <<net, begin, adv>>
    BY <1>2, <1>6 DEF IInv, CallsInv, CallsTyped, Accepts
<1>7. CASE net' = (net \ {q}) \cup {[q EXCEPT !.asking = TRUE]} /\ UNCHANGED <<begin, adv>>
    <2>1. q \in Sent
        BY DEF IInv, CallsInv, CallsTyped
    <2>2. [q EXCEPT !.asking = TRUE] \in Sent
        BY <2>1, Zenon DEF Sent
    <2>3. [q EXCEPT !.asking = TRUE].act = q.act /\ [q EXCEPT !.asking = TRUE].m = q.m
        BY <2>1 DEF Sent
    <2>4. CallsInv'
        BY <1>2, <1>7, <2>2, <2>3, SameRequests, Zenon DEF IInv
    <2> QED BY <1>2, <2>4 DEF IInv
<1>8. CASE CommitBegin(q)
    <2>1. (olh[q.m.src] = q.m) \in BOOLEAN
        OBVIOUS
    <2>2. \/ Answer(q, olh[q.m.src] = q.m, NoRecord)
          \/ net' = (net \ {q}) \cup {[q EXCEPT !.asking = TRUE]} /\ UNCHANGED <<begin, adv>>
        BY <1>8 DEF CommitBegin
    <2>3. CASE Answer(q, olh[q.m.src] = q.m, NoRecord)
        <3>1. PICK ok \in BOOLEAN : ok = (olh[q.m.src] = q.m)
            BY <2>1, Zenon
        <3>2. Answer(q, ok, NoRecord)
            BY <2>3, <3>1
        <3> QED BY <1>2, <1>5, <3>2 DEF IInv
    <2> QED BY <1>7, <2>2, <2>3
<1>9. CASE CommitSource(q) \/ CommitTarget(q)
    <2>1. UNCHANGED <<net, begin, adv>> \/ Answer(q, FALSE, NoRecord)
        BY <1>9, Zenon DEF CommitSource, CommitTarget, CommitReceipt, CommitRefuse
    <2> QED BY <1>2, <1>5, <1>6, <2>1, Zenon DEF IInv
<1>10. CASE CommitWrite(q) \/ CommitFails(q)
    <2>1. Answer(q, TRUE, NoRecord) \/ Answer(q, FALSE, NoRecord)
        BY <1>10, Zenon DEF CommitWrite, CommitFails, CommitRefuse
    <2> QED BY <1>2, <1>5, <2>1, Zenon DEF IInv
<1> QED BY <1>3, <1>8, <1>9, <1>10

(* The request Begin sends is typed and asks no receiver. *)
LEMMA FreezeRequest ==
    ASSUME NEW n \in Nodes, NEW m \in Whole
    PROVE  Request("begin", "FREEZE", n, m) \in Sent /\ Request("begin", "FREEZE", n, m).act # "ACCEPT"
BY DEF Request, Sent, Callers, Artifacts

(* Every step of Begin. *)
LEMMA BeginStep ==
    ASSUME IInv, Begin
    PROVE  IInv'
<1>1. UNCHANGED <<nodeVars, home, adv>> /\ begins' \in 0..MaxBegins
    <2>1. UNCHANGED <<nodeVars, home, adv>>
        BY Zenon DEF Begin, BeginQuery, BeginPick, BeginFenced, BeginRemove, mdsVars
    <2>2. begins' = begins \/ (begins < MaxBegins /\ begins' = begins + 1)
        BY Zenon DEF Begin, BeginQuery, BeginPick, BeginFenced, BeginRemove
    <2>3. begins \in 0..MaxBegins
        BY DEF IInv, NodesInv, NodesTyped
    <2>4. begins' \in 0..MaxBegins
        BY <2>2, <2>3, HandoffAssumption
    <2> QED BY <2>1, <2>4
<1>2. NodesInv' /\ SealKept /\ \A p \in net : p.act = "ACCEPT" => Exported(p.m)'
    BY <1>1, QuietStep
<1>3. begin \in Threads
    BY DEF IInv, CallsInv, CallsTyped
<1>4. SUFFICES /\ begin' \in Threads
               /\ begin'.at = "pick" => begin'.node \in Nodes /\ begin'.m.src \in Nodes
               /\ \A p \in net' : p \in net \/ (p \in Sent /\ p.act # "ACCEPT")
    BY <1>1, <1>2 DEF IInv, CallsInv, CallsTyped, Accepts
<1>5. ASSUME NEW s \in Nodes, BeginQuery(s)
      PROVE  /\ begin' \in Threads
             /\ begin'.at = "pick" => begin'.node \in Nodes /\ begin'.m.src \in Nodes
             /\ \A p \in net' : p \in net \/ (p \in Sent /\ p.act # "ACCEPT")
    <2> DEFINE fresh == rec[s].phase = "NONE" \/ (rec[s].phase = "ACTIVE" /\ rec[s].m.tgt = s)
               m == [NoManifest EXCEPT !.op = begins + 1, !.src = s]
    <2>1. /\ begin' = [at |-> IF fresh THEN "pick" ELSE "freeze", node |-> s,
                       m |-> IF fresh THEN m ELSE rec[s].m]
          /\ net' = IF fresh THEN net ELSE net \cup {Request("begin", "FREEZE", s, rec[s].m)}
          /\ begins' = begins + 1
        BY <1>5 DEF BeginQuery
    <2>2. m \in Manifests /\ m.src = s
        BY <1>1, <2>1, Zenon DEF Manifests, NoManifest
    <2>3. ~fresh => rec[s].m \in Whole /\ rec[s].m \in Manifests
        BY Zenon DEF IInv, NodesInv, NodesTyped, Whole
    <2> HIDE DEF fresh, m
    <2>4. CASE fresh
        <3>1. begin' = [at |-> "pick", node |-> s, m |-> m] /\ net' = net
            BY <2>1, <2>4
        <3> QED BY <3>1, <2>2 DEF Threads
    <2>5. CASE ~fresh
        <3>1. /\ begin' = [at |-> "freeze", node |-> s, m |-> rec[s].m]
              /\ net' = net \cup {Request("begin", "FREEZE", s, rec[s].m)}
            BY <2>1, <2>5
        <3>2. begin' \in Threads /\ begin'.at # "pick"
            BY <3>1, <2>3, <2>5 DEF Threads
        <3> QED BY <3>1, <3>2, <2>3, <2>5, FreezeRequest, Zenon
    <2> QED BY <2>4, <2>5
<1>6. CASE BeginPick
    <2>1. CASE begin' = Idle /\ net' = net
        BY <2>1, IdleTyped
    <2>2. ASSUME NEW t \in Nodes,
                 begin' = [begin EXCEPT !.at = "freeze", !.m = [begin.m EXCEPT !.tgt = t]],
                 net' = net \cup {Request("begin", "FREEZE", begin.node, [begin.m EXCEPT !.tgt = t])}
          PROVE  /\ begin' \in Threads
                 /\ begin'.at = "pick" => begin'.node \in Nodes /\ begin'.m.src \in Nodes
                 /\ \A p \in net' : p \in net \/ (p \in Sent /\ p.act # "ACCEPT")
        <3>1. begin.node \in Nodes /\ begin.m.src \in Nodes /\ begin.m \in Manifests
            BY <1>3, <1>6, Zenon DEF BeginPick, IInv, CallsInv, CallsTyped, Threads
        <3>2. [begin.m EXCEPT !.tgt = t] \in Manifests /\ [begin.m EXCEPT !.tgt = t] \in Whole
            BY <3>1 DEF Manifests, Whole
        <3>3. begin' \in Threads /\ begin'.at # "pick"
            BY <1>3, <2>2, <3>2, Zenon DEF Threads
        <3> QED BY <2>2, <3>1, <3>2, <3>3, FreezeRequest
    <2> QED BY <1>6, <2>1, <2>2, Zenon DEF BeginPick
<1>7. CASE BeginFenced
    <2>1. (begin' = [begin EXCEPT !.at = "remove"] \/ begin' = Idle) /\ net' = net
        BY <1>7 DEF BeginFenced
    <2> QED BY <1>3, <2>1, IdleTyped DEF Threads
<1>8. CASE BeginRemove
    <2>1. begin' = Idle /\ net' = net
        BY <1>8 DEF BeginRemove
    <2> QED BY <2>1, IdleTyped
<1> QED BY <1>5, <1>6, <1>7, <1>8 DEF Begin

(* Every step of Advance; it asks a receiver only for an exported source. *)
LEMMA AdvanceStep ==
    ASSUME IInv, Advance
    PROVE  IInv'
<1>1. UNCHANGED <<nodeVars, home, begin, begins>>
    BY Zenon DEF Advance, AdvanceQuery, AdvanceCopy, AdvanceReport, mdsVars
<1>2. NodesInv' /\ SealKept /\ \A p \in net : p.act = "ACCEPT" => Exported(p.m)'
    BY <1>1, QuietStep, Zenon DEF IInv, NodesInv, NodesTyped
<1>3. adv \in Threads
    BY DEF IInv, CallsInv, CallsTyped
<1>4. SUFFICES /\ adv' \in Threads /\ (adv'.at # "idle" => adv'.m \in Whole)
               /\ \A p \in net' : p \in net \/ (p \in Sent /\ (p.act = "ACCEPT" => Exported(p.m)'))
    BY <1>1, <1>2, Zenon DEF IInv, CallsInv, CallsTyped, Accepts
<1>5. ASSUME NEW s \in Nodes, AdvanceQuery(s)
      PROVE  /\ adv' \in Threads /\ (adv'.at # "idle" => adv'.m \in Whole)
             /\ \A p \in net' : p \in net \/ (p \in Sent /\ (p.act = "ACCEPT" => Exported(p.m)'))
    <2>1. CASE adv' = Idle /\ net' = net
        BY <2>1, IdleTyped
    <2>2. ASSUME NEW place \in {"freeze", "accept", "report"},
                 place = "accept" => rec[s].phase = "EXPORTED",
                 rec[s].phase # "NONE",
                 adv' = [at |-> place, node |-> s, m |-> rec[s].m],
                 net' = net \cup Outstanding(place, rec[s].m)
          PROVE  /\ adv' \in Threads /\ (adv'.at # "idle" => adv'.m \in Whole)
                 /\ \A p \in net' : p \in net \/ (p \in Sent /\ (p.act = "ACCEPT" => Exported(p.m)'))
        <3>1. PICK m \in Whole : m = rec[s].m
            BY <2>2 DEF IInv, NodesInv, NodesTyped
        <3>2. adv' \in Threads /\ adv'.m \in Whole
            BY <2>2, <3>1 DEF Threads, Whole
        <3>3. place = "accept" => Exported(m)'
            <4>1. rec[s].phase = "EXPORTED" => Exported(rec[s].m)
                BY DEF IInv, NodesInv, Receipts, Follows, OwnEnd, Exported, Sealed
            <4> QED BY <1>2, <2>2, <3>1, <4>1, ExportLasts, Zenon
        <3>4. \A p \in Outstanding(place, m) : p \in Sent /\ (p.act = "ACCEPT" => Exported(p.m)')
            BY <3>3, OutstandingTyped
        <3> QED BY <2>2, <3>1, <3>2, <3>4
    <2>3. CASE rec[s].phase = "FREEZING"
        BY <1>5, <2>2, <2>3 DEF AdvanceQuery
    <2>4. CASE rec[s].phase = "EXPORTED"
        BY <1>5, <2>2, <2>4 DEF AdvanceQuery
    <2>5. CASE rec[s].phase = "RELEASED"
        BY <1>5, <2>2, <2>5 DEF AdvanceQuery
    <2>6. CASE rec[s].phase \notin {"FREEZING", "EXPORTED", "RELEASED"}
        BY <1>5, <2>1, <2>6 DEF AdvanceQuery
    <2> QED BY <2>3, <2>4, <2>5, <2>6
<1>6. CASE AdvanceCopy
    <2> DEFINE t == adv.m.tgt
               have(f) == IF rec[t].phase = "RECEIVING" THEN stage[t][f] ELSE 0
               missing == {i \in 1..2 : have(Order[i]) < Size(Order[i])}
               least == CHOOSE i \in missing : \A j \in missing : i <= j
    <2>1. adv.m \in Whole /\ t \in Nodes
        BY <1>6, Zenon DEF AdvanceCopy, IInv, CallsInv, CallsTyped, Whole
    <2>2. CASE adv' = [adv EXCEPT !.at = "activate"] /\ net' = net \cup Outstanding("activate", adv.m)
        <3>1. adv' \in Threads /\ adv'.m = adv.m
            BY <1>3, <2>2 DEF Threads
        <3>2. \A p \in Outstanding("activate", adv.m) : p \in Sent /\ p.act # "ACCEPT"
            BY <2>1, OutstandingTyped
        <3> QED BY <2>1, <2>2, <3>1, <3>2
    <2>3. CASE adv' = Idle /\ net' = net
        BY <2>3, IdleTyped
    <2>4. CASE /\ missing # {}
               /\ adv' = [adv EXCEPT !.at = "wait"]
               /\ net' = net \cup {[Request("advance", "WRITE", t, adv.m)
                                    EXCEPT !.file = Order[least], !.off = have(Order[least])]}
        <3>1. adv' \in Threads /\ adv'.m = adv.m
            BY <1>3, <2>4, Zenon DEF Threads
        <3>2. least \in 1..2
            <4>1. missing \subseteq 1..2
                OBVIOUS
            <4> HIDE DEF missing
            <4>2. \E i \in missing : \A j \in missing : i <= j
                <5>1. CASE 1 \in missing
                    BY <4>1, <5>1
                <5>2. CASE 1 \notin missing
                    <6>1. \A j \in missing : j = 2
                        BY <4>1, <5>2
                    <6>2. PICK i \in missing : TRUE
                        BY <2>4, Zenon
                    <6>3. i = 2 /\ 2 <= 2
                        BY <6>1, <6>2
                    <6> QED BY <6>1, <6>2, <6>3
                <5> QED BY <5>1, <5>2
            <4>3. least \in missing
                BY <4>2
            <4> HIDE DEF least
            <4> QED BY <4>1, <4>3
        <3> HIDE DEF least, missing
        <3>3. Order[least] \in Artifacts
            BY <3>2 DEF Order, Artifacts
        <3>4. have(Order[least]) \in Nat
            BY <2>1, <3>3, Zenon DEF IInv, NodesInv, NodesTyped
        <3> HIDE DEF have, t
        <3>5. /\ Request("advance", "WRITE", t, adv.m) \in Sent
              /\ Request("advance", "WRITE", t, adv.m).act = "WRITE"
            BY <2>1 DEF Request, Sent, Callers, Artifacts
        <3> HIDE DEF Request
        <3>6. \A p \in net' : p \in net \/ (p \in Sent /\ p.act = "WRITE")
            <4>1. PICK w \in Sent : w = Request("advance", "WRITE", t, adv.m)
                BY <3>5
            <4>2. PICK f \in Artifacts : f = Order[least]
                BY <3>3
            <4>3. PICK o \in Nat : o = have(Order[least])
                BY <3>4
            <4>4. net' = net \cup {[w EXCEPT !.file = f, !.off = o]}
                BY <2>4, <4>1, <4>2, <4>3
            <4>5. [w EXCEPT !.file = f, !.off = o] \in Sent
                      /\ [w EXCEPT !.file = f, !.off = o].act = "WRITE"
                <5>1. w.act = "WRITE"
                    BY <3>5, <4>1
                <5> QED BY <5>1, Zenon DEF Sent
            <4> QED BY <4>4, <4>5, Zenon
        <3> QED BY <2>1, <3>1, <3>6
    <2> QED BY <1>6, <2>2, <2>3, <2>4, Zenon DEF AdvanceCopy, AdvanceFails
<1>7. CASE AdvanceReport
    <2>1. adv' = Idle /\ net' = net
        BY <1>7 DEF AdvanceReport
    <2> QED BY <2>1, IdleTyped
<1> QED BY <1>5, <1>6, <1>7 DEF Advance

(* Requests the scheduler no longer waits for. *)
LEMMA Abandoned ==
    ASSUME NEW q \in Sent
    PROVE  /\ [q EXCEPT !.by = "nobody"] \in Sent
           /\ [q EXCEPT !.by = "nobody"].act = q.act /\ [q EXCEPT !.by = "nobody"].m = q.m
BY DEF Sent, Callers

(* A call that its caller gives up. *)
LEMMA GiveUpStep ==
    ASSUME IInv, NEW q \in net, GiveUp(q)
    PROVE  IInv'
<1>1. UNCHANGED <<nodeVars, home, begins>>
    BY DEF GiveUp, mdsVars
<1>2. NodesInv' /\ SealKept /\ \A p \in net : p.act = "ACCEPT" => Exported(p.m)'
    BY <1>1, QuietStep DEF IInv, NodesInv, NodesTyped
<1>3. q \in Sent /\ begin \in Threads
    BY DEF IInv, CallsInv, CallsTyped
<1>4. \/ adv' = Idle /\ begin' = begin
      \/ adv' = adv /\ begin' = [begin EXCEPT !.at = "fenced"]
    BY DEF GiveUp, AdvanceFails
<1>5. net' = net \ {q} \/ net' = (net \ {q}) \cup {[q EXCEPT !.by = "nobody"]}
    BY DEF GiveUp
<1>6. \A p \in net' : p \in Sent /\ (p.act = "ACCEPT" => Exported(p.m)')
    BY <1>2, <1>3, <1>5, Abandoned, Zenon DEF IInv, CallsInv, CallsTyped
<1>7. /\ begin' \in Threads
      /\ begin'.at = "pick" => begin'.node \in Nodes /\ begin'.m.src \in Nodes
    BY <1>3, <1>4 DEF Threads, IInv, CallsInv, CallsTyped
<1>8. adv' \in Threads /\ (adv'.at # "idle" => adv'.m \in Whole)
    BY <1>4, IdleTyped DEF IInv, CallsInv, CallsTyped
<1> QED BY <1>2, <1>6, <1>7, <1>8 DEF IInv, CallsInv, CallsTyped, Accepts

(* The scheduler restarts and its requests go on without it. *)
LEMMA SchedulerRestartStep ==
    ASSUME IInv, SchedulerRestart
    PROVE  IInv'
<1>1. UNCHANGED <<nodeVars, home, begins>>
    BY DEF SchedulerRestart, mdsVars
<1>2. NodesInv' /\ SealKept /\ \A p \in net : p.act = "ACCEPT" => Exported(p.m)'
    BY <1>1, QuietStep, Zenon DEF IInv, NodesInv, NodesTyped
<1>3. begin' = Idle /\ adv' = Idle /\ net' = {[q EXCEPT !.by = "nobody"] : q \in net}
    BY DEF SchedulerRestart
<1>4. ASSUME NEW p \in net'
      PROVE  p \in Sent /\ (p.act = "ACCEPT" => Exported(p.m)')
    <2>1. PICK q \in net : p = [q EXCEPT !.by = "nobody"]
        BY <1>3, <1>4
    <2>2. q \in Sent
        BY DEF IInv, CallsInv, CallsTyped
    <2>3. p \in Sent /\ p.act = q.act /\ p.m = q.m
        BY <2>1, <2>2, Abandoned
    <2> QED BY <1>2, <2>3
<1> QED BY <1>2, <1>3, <1>4, IdleTyped DEF IInv, CallsInv, CallsTyped, Accepts

-----------------------------------------------------------------------------
(* The invariant holds at the start. *)
LEMMA InitHolds == Init => IInv
<1> SUFFICES ASSUME Init PROVE IInv
    OBVIOUS
<1>0. NoRecord \in Records /\ NoRecord.phase = "NONE" /\ 0 \in 0..MaxBegins
    BY IdleTyped, HandoffAssumption DEF NoRecord, Records, Phases
<1>1. \A n \in Nodes : rec[n] = NoRecord /\ disk[n] = NoRecord
    BY DEF Init
<1>2. NodesTyped
    <2>1. rec \in [Nodes -> Records] /\ disk \in [Nodes -> Records]
        BY <1>0 DEF Init
    <2>2. engine \in [Nodes -> BOOLEAN] /\ pend \in [Nodes -> SUBSET Items]
        BY DEF Init
    <2>3. lib \in [Nodes -> SUBSET Items] /\ home \in [Items -> Nodes \cup {NoNode}]
        BY HandoffAssumption DEF Init
    <2>4. stage \in [Nodes -> [Artifacts -> Nat]]
        BY DEF Init, NoFiles
    <2>5. begins \in 0..MaxBegins
        BY <1>0 DEF Init
    <2> QED BY <1>0, <1>1, <2>1, <2>2, <2>3, <2>4, <2>5 DEF NodesTyped
<1>3. \A n \in Nodes : ~Sealed(n)
    BY <1>0, <1>1 DEF Sealed
<1>4. Receipts
    BY <1>0, <1>1 DEF Receipts, Follows, OwnEnd
<1>5. Libraries
    <2>1. \A n, x \in Nodes : n # x => lib[n] \cap lib[x] = {}
        BY DEF Init
    <2>2. \A s \in Nodes : ~Pending(s)
        BY <1>3 DEF Pending
    <2> QED BY <2>1, <2>2 DEF Libraries
<1>6. Waiting
    BY <1>3, HandoffAssumption, Zenon DEF Waiting, Init
<1>7. EngineOnWholeLibrary
    BY <1>0, <1>1, Zenon DEF EngineOnWholeLibrary
<1>8. CallsInv
    BY IdleTyped, Zenon DEF CallsInv, CallsTyped, Accepts, Init
<1> QED BY <1>2, <1>4, <1>5, <1>6, <1>7, <1>8 DEF IInv, NodesInv

(* The invariant is inductive: every handler, commit step, scheduler step,  *)
(* fault and restart keeps it.                                              *)
LEMMA StepKeeps == IInv /\ [Next]_vars => IInv'
<1> SUFFICES ASSUME IInv, [Next]_vars PROVE IInv'
    OBVIOUS
<1>0. begins \in 0..MaxBegins
    BY DEF IInv, NodesInv, NodesTyped
<1>1. CASE UNCHANGED <<nodeVars, home, begins, begin, adv, net>>
    <2>1. NodesInv' /\ \A p \in net : p.act = "ACCEPT" => Exported(p.m)'
        BY <1>0, <1>1, QuietStep
    <2> QED BY <1>1, <2>1 DEF IInv, CallsInv, CallsTyped, Accepts
<1>2. ASSUME NEW n \in Nodes, NEW i \in Items, Admit(n, i) \/ Burn(n, i)
      PROVE  IInv'
    <2>1. NodesInv' /\ SealKept
        BY <1>2, AdmitStep, BurnStep DEF IInv
    <2>2. \A p \in net : p.act = "ACCEPT" => Exported(p.m)'
        BY <2>1, ExportLasts DEF IInv, CallsInv, Accepts
    <2>3. UNCHANGED <<begin, adv, net>>
        BY <1>2, Zenon DEF Admit, Burn, schedVars
    <2> QED BY <2>1, <2>2, <2>3 DEF IInv, CallsInv, CallsTyped, Accepts
<1>3. ASSUME NEW n \in Nodes, ReportInventory(n)
      PROVE  IInv'
    BY <1>1, <1>3, Zenon DEF ReportInventory, mdsVars
<1>4. CASE UNCHANGED vars
    BY <1>1, <1>4 DEF vars, mdsVars, schedVars
<1> QED BY <1>2, <1>3, <1>4, NodeRestartStep, HandleStep, MdsStep, BeginStep, AdvanceStep,
           SchedulerRestartStep, GiveUpStep DEF Next

(* For any libraries, drains and faults: no node runs an engine over a      *)
(* library that has left it, or over one it has received only in part.      *)
THEOREM EngineSafe == Spec => []EngineOnWholeLibrary
<1>1. IInv => EngineOnWholeLibrary
    BY DEF IInv, NodesInv
<1> QED BY <1>1, InitHolds, StepKeeps, PTL DEF Spec

(* For any libraries, drains and faults: of two nodes with a copy of the    *)
(* same item, one has its admission closed, in memory and on disk.          *)
THEOREM CopiesSafe == Spec => []OneOpenCopy
<1>1. IInv => OneOpenCopy
    <2> SUFFICES ASSUME IInv, NEW n \in Nodes, NEW x \in Nodes,
                        NEW r \in {rec[n], disk[n]}, NEW u \in {rec[x], disk[x]},
                        n # x, lib[n] \cap lib[x] # {}
                 PROVE  Blocks(r) \/ Blocks(u)
        BY Zenon DEF OneOpenCopy
    <2>1. Sealed(n) \/ Sealed(x)
        BY DEF IInv, NodesInv, Libraries
    <2>2. ASSUME NEW y \in Nodes, Sealed(y)
          PROVE  Blocks(rec[y]) /\ Blocks(disk[y])
        <3>1. Follows(rec[y], disk[y]) /\ rec[y] \in Records
            BY DEF IInv, NodesInv, Receipts, NodesTyped
        <3> QED BY <2>2, <3>1 DEF Follows, Sealed, Blocks, Records, Phases
    <2> QED BY <2>1, <2>2
<1> QED BY <1>1, InitHolds, StepKeeps, PTL DEF Spec
=============================================================================
