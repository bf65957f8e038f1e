----------------------------- MODULE IdpLayout -----------------------------
(***************************************************************************)
(* The description behind IdpProvision: IDPparser (rpiidp/src/parser.cpp)  *)
(* walks the provisioning map with PartitionNavigator (nav.cpp), numbers   *)
(* what it finds, IDPdevice (device.cpp) checks that it fits the disk, and *)
(* RPIparted (rpiparted.cpp) appends one table entry for each root         *)
(* partition and one for each child of a partitioned LUKS container.       *)
(*                                                                         *)
(* A JSON value is an object [t |-> "obj", keys, o], with its member names *)
(* in jsoncpp's order, an array [t |-> "arr", a] or a scalar               *)
(* [t |-> "val", v].  A fault in a field is an unusable scalar.  Sizes are *)
(* in units of a fraction of the partition alignment.                      *)
(***************************************************************************)
EXTENDS Integers, SequencesExt

CONSTANTS
  Descs,       \* description by name: [ig, pmap, system, storage,
               \* size, label, align, map, images]
  Nodes,       \* the JSON values they are made of
  DiskSizes,   \* capacities of the storage device
  LuksHeader,  \* what a LUKS2 header takes: 16 MiB
  BackupTable  \* what the second GPT takes at the end of a disk

ASSUME IdpLayoutAssumption ==
  /\ DiskSizes \subseteq Nat /\ LuksHeader \in Nat \ {0} /\ BackupTable \in Nat
  /\ \A d \in DOMAIN Descs :
       /\ Descs[d].align \in Nat \ {0} /\ BackupTable <= Descs[d].align
       /\ \A x \in DOMAIN Descs[d].images : Descs[d].images[x].size \in Nat

\* Descriptions are JSON; partitions are listed in arrays and slots in objects.
ASSUME NodesAssumption ==
  /\ \A d \in DOMAIN Descs : Descs[d].map \in Nodes
  /\ \A n \in Nodes :
       \/ n.t = "val"
       \/ n.t = "arr" /\ n.a \in Seq(Nodes)
       \/ /\ n.t = "obj" /\ n.keys \in Seq(DOMAIN n.o)
          /\ \A k \in DOMAIN n.o : /\ n.o[k] \in Nodes
                                   /\ k = "partitions" => n.o[k].t = "arr"
                                   /\ k = "slots" => n.o[k].t = "obj"

VARIABLES
  ilPc,     \* what the device is doing with the description
  desc,     \* the name of the description
  capacity, \* of the storage device
  nav,      \* PartitionNavigator::nav_stack_
  found,    \* IDPparser::partitions_
  entries,  \* the partition table being built
  inner,    \* by container: the table inside it
  ilAt      \* the partition being created

ilVars == <<ilPc, desc, capacity, nav, found, entries, inner, ilAt>>

D == Descs[desc]
IsMember(n, k) == n.t = "obj" /\ k \in DOMAIN n.o
Members(n) ==
  CASE n.t = "obj" -> n.keys
    [] n.t = "arr" -> [k \in DOMAIN n.a |-> k]
    [] OTHER -> <<>>
MemberAt(n, key) == IF n.t = "obj" THEN n.o[key] ELSE n.a[key]
RoundUp(n, a) == ((n + a - 1) \div a) * a

LayoutInit ==
  /\ ilPc = "idle" /\ desc \in DOMAIN Descs /\ capacity \in DiskSizes
  /\ nav = <<>> /\ found = <<>> /\ entries = <<>> /\ inner = <<>> /\ ilAt = 0
----------------------------------------------------------------------------
\* checkIGCompat: the generator's version and the blocks a description must have.
CheckIG(d) == d.ig = 2 /\ d.label \in {"dos", "gpt"}

\* parseIGv2 up to the provisioning map: storage type and image attributes.
CheckStorage(d) == d.storage \in {"sd", "emmc", "nvme"} /\ d.size > 0

\* checkPMAPCompat, parsePMAPv1 and PartitionNavigator::create.
CheckPMAP(d) == d.pmap = 1 /\ d.system \in {"flat", "slotted"}

Frame(node, slot) == [node |-> node, childIdx |-> 0, slotKey |-> slot]

\* oem idpinit: loadData up to the walk.
LoadData ==
  /\ ilPc = "idle"
  /\ IF CheckIG(D) /\ CheckStorage(D) /\ CheckPMAP(D)
     THEN nav' = <<Frame(D.map, "")>> /\ ilPc' = "get"
     ELSE ilPc' = "refused" /\ UNCHANGED nav
  /\ UNCHANGED <<desc, capacity, found, entries, inner, ilAt>>
----------------------------------------------------------------------------
\* What getPartitions finds: a partition or container, or an error.  inside: its
\* parent is the container found before it.
ExpandOf(n) == IF IsMember(n, "expand-to-fit") THEN n.o["expand-to-fit"].v ELSE "false"
NavError == [image |-> "", etype |-> "none", inside |-> FALSE, expand |-> "", bad |-> TRUE]

validateRegularPartition(p) == IsMember(p, "image") /\ ExpandOf(p) \in {"true", "false"}

processRegularPartitions(ps, inside) ==
  [k \in DOMAIN ps.a |->
     IF validateRegularPartition(ps.a[k])
     THEN [image |-> ps.a[k].o["image"].v, etype |-> "none", inside |-> inside,
           expand |-> ExpandOf(ps.a[k]), bad |-> FALSE]
     ELSE NavError]

validateLUKS(e) ==
  /\ IsMember(e, "luks2") /\ e.o["luks2"].v \in {"raw", "partitioned"}
  /\ ExpandOf(e) \in {"true", "false"}

createEncryptedPartition(e) ==
  [image |-> "", etype |-> e.o["luks2"].v, inside |-> FALSE, expand |-> ExpandOf(e), bad |-> FALSE]

\* What Member(s) finds in each slot, in the order of the slots' names.
EachSlot(slots, Member(_)) ==
  LET names == Members(slots) IN FlattenSeq([k \in DOMAIN names |-> Member(slots.o[names[k]])])

PartitionsOf(n, inside) ==
  IF IsMember(n, "partitions") THEN processRegularPartitions(n.o["partitions"], inside) ELSE <<>>

\* An encrypted node inside one of its own slots is passed over.
processEncryptedNode(e) ==
  IF ~validateLUKS(e) \/ ~(IsMember(e, "slots") \/ IsMember(e, "partitions")) THEN <<NavError>>
  ELSE <<createEncryptedPartition(e)>>
       \o (IF IsMember(e, "slots") THEN EachSlot(e.o["slots"], LAMBDA s : PartitionsOf(s, TRUE)) ELSE <<>>)
       \o PartitionsOf(e, TRUE)

EncryptedOf(n) == IF IsMember(n, "encrypted") THEN processEncryptedNode(n.o["encrypted"]) ELSE <<>>

processSlots(slots) == EachSlot(slots, LAMBDA s : PartitionsOf(s, FALSE) \o EncryptedOf(s))

\* Some node on the way down was entered as the member "encrypted".
UnderEncrypted == \E k \in 1 .. Len(nav) - 1 :
  nav[k].node.t = "obj" /\ nav[k].childIdx > 0 /\ Members(nav[k].node)[nav[k].childIdx] = "encrypted"

InSlot == \E k \in DOMAIN nav : nav[k].slotKey # ""

\* Mutant of PartitionsHere: what a slot holds is found again inside it.
PartitionsHereAgain ==
  LET n == Last(nav).node
  IN IF n.t # "obj" THEN <<>>
     ELSE (IF UnderEncrypted THEN <<>>
           ELSE PartitionsOf(n, FALSE) \o IF IsMember(n, "slots") THEN processSlots(n.o["slots"]) ELSE <<>>)
          \o EncryptedOf(n)

\* getPartitions: what the top frame contributes.
PartitionsHere ==
  LET n == Last(nav).node
  IN IF n.t # "obj" \/ InSlot THEN <<>>
     ELSE (IF UnderEncrypted THEN <<>>
           ELSE PartitionsOf(n, FALSE) \o IF IsMember(n, "slots") THEN processSlots(n.o["slots"]) ELSE <<>>)
          \o EncryptedOf(n)
----------------------------------------------------------------------------
\* parseIGv2's callback: the image must exist and be in the partition table, and
\* an MBR disk is held to four partitions of any kind.
Fillable(item, order) ==
  /\ item.etype = "none" => item.image \in DOMAIN D.images /\ D.images[item.image].listed
  /\ D.label = "dos" => order <= 4

\* Indexes start at 1 here; parent is 0 for a root.
ParentOf(items, k, base) ==
  IF ~items[k].inside THEN 0
  ELSE base + CHOOSE c \in 1 .. k - 1 :
         items[c].etype # "none" /\ \A j \in c + 1 .. k - 1 : items[j].etype = "none"

Filled(items, k) ==
  LET size == IF items[k].etype = "none" THEN D.images[items[k].image].size ELSE 0
  IN [image |-> items[k].image, etype |-> items[k].etype, expand |-> items[k].expand = "true",
      parent |-> ParentOf(items, k, Len(found)), size |-> size, aligned |-> RoundUp(size, D.align), num |-> 0]

\* foreachPartitionImpl, up to its loop.
GetPartitions ==
  /\ ilPc = "get"
  /\ LET items == PartitionsHere
     IN IF \E k \in DOMAIN items : items[k].bad \/ ~Fillable(items[k], Len(found) + k)
        THEN ilPc' = "refused" /\ UNCHANGED found
        ELSE /\ found' = found \o [k \in DOMAIN items |-> Filled(items, k)]
             /\ ilPc' = "step"
  /\ UNCHANGED <<desc, capacity, nav, entries, inner, ilAt>>

\* The child stepIn would enter next; a scalar ends the loop.
CanStepIn ==
  LET f == Last(nav) keys == Members(f.node)
  IN f.childIdx < Len(keys) /\ MemberAt(f.node, keys[f.childIdx + 1]).t # "val"

StepInFrom(f, keys) ==
  LET key == keys[f.childIdx + 1]
      up == nav[Len(nav) - 1]
      isSlot == Len(nav) >= 2 /\ f.node.t = "obj" /\ up.node.t = "obj"
                /\ Members(up.node)[up.childIdx] = "slots"
  IN Append(Front(nav), [f EXCEPT !.childIdx = @ + 1])
     \o <<Frame(MemberAt(f.node, key), IF isSlot THEN key ELSE f.slotKey)>>

\* Mutant of StepIn: the loop's position is not kept.
StepInAgain ==
  /\ ilPc = "step" /\ CanStepIn
  /\ nav' = [StepInFrom(Last(nav), Members(Last(nav).node)) EXCEPT ![Len(nav)].childIdx = Last(nav).childIdx]
  /\ ilPc' = "get"
  /\ UNCHANGED <<desc, capacity, found, entries, inner, ilAt>>

StepIn ==
  /\ ilPc = "step" /\ CanStepIn
  /\ nav' = StepInFrom(Last(nav), Members(Last(nav).node))
  /\ ilPc' = "get"
  /\ UNCHANGED <<desc, capacity, found, entries, inner, ilAt>>

StepOut ==
  /\ ilPc = "step" /\ ~CanStepIn
  /\ nav' = Front(nav) /\ ilPc' = IF Len(nav) = 1 THEN "number" ELSE "step"
  /\ UNCHANGED <<desc, capacity, found, entries, inner, ilAt>>
----------------------------------------------------------------------------
\* Mutant of walkTree: the partitions of the disk are numbered by their index.
walkTreeByIndex ==
  [i \in DOMAIN found |->
     [found[i] EXCEPT !.num = IF found[i].parent = 0 THEN i
                              ELSE Cardinality({j \in 1 .. i : found[j].parent = found[i].parent})]]

walkTree ==
  [i \in DOMAIN found |->
     [found[i] EXCEPT !.num = Cardinality({j \in 1 .. i : found[j].parent = found[i].parent})]]

Number ==
  /\ ilPc = "number"
  /\ found' = walkTree
  /\ ilPc' = IF found = <<>> THEN "refused" ELSE "check"
  /\ UNCHANGED <<desc, capacity, nav, entries, inner, ilAt>>

\* The running total of sizes, and that of the partitions below c, or of the
\* disk's own for 0.
Totals(sizes) ==
  LET total[i \in 0 .. Len(sizes)] == IF i = 0 THEN 0 ELSE total[i - 1] + sizes[i] IN total
SizesBelow(c, Size(_)) == [i \in DOMAIN found |-> IF found[i].parent = c THEN Size(i) ELSE 0]
SizeSum(c, Size(_)) == Totals(SizesBelow(c, Size))[Len(found)]

\* IDPpartition::getSize(aligned) and IDPluks::headerSize.
getSize(i) ==
  LET p == found[i] own(c) == found[c].aligned
  IN IF p.etype = "none" THEN p.aligned
     ELSE RoundUp(LuksHeader, D.align) + (IF p.etype = "partitioned" THEN 2 * D.align ELSE 0)
          + SizeSum(i, own)

\* Mutant of computeImageStorageSize: no room for the second table of a GPT disk.
computeImageStorageSizeOne == SizeSum(0, getSize) + D.align

computeImageStorageSize ==
  SizeSum(0, getSize) + (IF D.label = "gpt" THEN 2 ELSE 1) * D.align

\* canProvision: validateDeviceStorage.
CanProvision ==
  /\ ilPc = "check"
  /\ ilPc' = IF computeImageStorageSize <= capacity THEN "append" ELSE "refused"
  /\ ilAt' = 1 /\ inner' = [i \in DOMAIN found |-> <<>>]
  /\ UNCHANGED <<desc, capacity, nav, found, entries>>
----------------------------------------------------------------------------
\* appendPartition on a disk of room units: after the last entry, rounded up to
\* the grain, or for size 0 all that is left.
NextStart(tab) == IF tab = <<>> THEN D.align ELSE Last(tab).start + Last(tab).len
LenOf(tab, room, size) == IF size = 0 THEN room - NextStart(tab) ELSE RoundUp(size, D.align)
Fits(tab, room, size, primaries) ==
  /\ LenOf(tab, room, size) > 0 /\ NextStart(tab) + LenOf(tab, room, size) <= room
  /\ Len(tab) < primaries
Entry(tab, room, size, i) == [start |-> NextStart(tab), len |-> LenOf(tab, room, size), of |-> i]

Room == IF D.label = "gpt" THEN capacity - BackupTable ELSE capacity
LenAt(c) == entries[found[c].num].len

\* oem idpwrite: WritePhysicalPartitions, one root partition at a time.
AppendRoot ==
  /\ ilPc = "append" /\ ilAt \in DOMAIN found
  /\ LET size == IF found[ilAt].expand THEN 0 ELSE getSize(ilAt)
     IN IF found[ilAt].parent # 0 THEN UNCHANGED <<entries, ilPc>>
        ELSE IF Fits(entries, Room, size, IF D.label = "dos" THEN 4 ELSE 128)
             THEN entries' = Append(entries, Entry(entries, Room, size, ilAt)) /\ UNCHANGED ilPc
             ELSE ilPc' = "failed" /\ UNCHANGED entries
  /\ ilAt' = ilAt + 1
  /\ UNCHANGED <<desc, capacity, nav, found, inner>>

Commit ==
  /\ ilPc = "append" /\ ilAt \notin DOMAIN found
  /\ ilPc' = "crypt" /\ ilAt' = 1
  /\ UNCHANGED <<desc, capacity, nav, found, entries, inner>>

\* InitCryptPartitions: the children of a partitioned container, with their
\* unaligned sizes, in a GPT on the opened container.
AppendChild ==
  /\ ilPc = "crypt" /\ ilAt \in DOMAIN found
  /\ LET c == found[ilAt].parent
         size == IF found[ilAt].expand THEN 0 ELSE found[ilAt].size
         room == LenAt(c) - LuksHeader - BackupTable
     IN IF c = 0 \/ (c # 0 /\ found[c].etype # "partitioned") THEN UNCHANGED <<inner, ilPc>>
        ELSE IF Fits(inner[c], room, size, 128)
             THEN inner' = [inner EXCEPT ![c] = Append(@, Entry(@, room, size, ilAt))] /\ UNCHANGED ilPc
             ELSE ilPc' = "failed" /\ UNCHANGED inner
  /\ ilAt' = ilAt + 1
  /\ UNCHANGED <<desc, capacity, nav, found, entries>>

Provisioned ==
  /\ ilPc = "crypt" /\ ilAt \notin DOMAIN found
  /\ ilPc' = "done"
  /\ UNCHANGED <<desc, capacity, nav, found, entries, inner, ilAt>>

\* Another idpinit: a new IDPdevice, which remembers nothing.
NextDescription(d) ==
  /\ ilPc \in {"refused", "failed", "done"}
  /\ ilPc' = "idle" /\ desc' = d
  /\ nav' = <<>> /\ found' = <<>> /\ entries' = <<>> /\ inner' = <<>> /\ ilAt' = 0
  /\ UNCHANGED capacity

LayoutStep ==
  \/ LoadData \/ GetPartitions \/ StepIn \/ StepOut \/ Number \/ CanProvision
  \/ AppendRoot \/ Commit \/ AppendChild \/ Provisioned

LayoutNext == LayoutStep \/ \E d \in DOMAIN Descs : NextDescription(d)

\* The session's thread goes on with a description it has begun.
LayoutFairness == WF_ilVars(LayoutStep)
LayoutSpec == LayoutInit /\ [][LayoutNext]_ilVars /\ LayoutFairness
----------------------------------------------------------------------------
Taken == ilPc \in {"append", "crypt", "done", "failed"}
ImageParts == {i \in DOMAIN found : found[i].etype = "none"}

\* What the description names, read off the map: <<image, encrypted>> with how
\* often, in entries, their slots, their encrypted nodes and the slots of those.
NamedAt(n, encrypted) ==
  LET ps == IF IsMember(n, "partitions") THEN n.o["partitions"].a ELSE <<>>
  IN [k \in DOMAIN ps |-> <<ps[k].o["image"].v, encrypted>>]
SlotNodes(n) ==
  IF IsMember(n, "slots") THEN [k \in DOMAIN Members(n.o["slots"]) |-> n.o["slots"].o[Members(n.o["slots"])[k]]]
  ELSE <<>>
CryptNodes(n) == IF IsMember(n, "encrypted") THEN <<n.o["encrypted"]>> ELSE <<>>
Each(nodes, Of(_)) == FlattenSeq([k \in DOMAIN nodes |-> Of(nodes[k])])
NamedTimes(x) ==
  LET open == D.map.a \o Each(D.map.a, SlotNodes)
      crypts == Each(open, CryptNodes)
      sealed == crypts \o Each(crypts, SlotNodes)
      all == Each(open, LAMBDA n : NamedAt(n, FALSE)) \o Each(sealed, LAMBDA n : NamedAt(n, TRUE))
  IN Cardinality({k \in DOMAIN all : all[k] = x})

\* Every image the description names is provisioned as often as it is named,
\* inside a container exactly when the description puts it there: the walk, which
\* meets slots and containers both from above and from inside, neither loses nor
\* repeats any.
AcceptedIsComplete ==
  Taken => \A name \in DOMAIN D.images, e \in BOOLEAN :
    NamedTimes(<<name, e>>) = Cardinality({i \in ImageParts : found[i].image = name /\ (found[i].parent # 0) = e})

\* A description in which the names that the walk looks for are where it looks:
\* slots and a container in an entry of the map, slots in a container, and nowhere
\* else but in a slot; leaves is what the entries hold besides.  The parser takes
\* any JSON: it checks no schema.
Unmarked(n) == \A k \in {"partitions", "slots", "encrypted"} : ~IsMember(n, k)
Within(n) == {MemberAt(n, Members(n)[k]) : k \in DOMAIN Members(n)}
SlotTable(t) == t.t = "obj" /\ Unmarked(t) /\ ~IsMember(t, "")
Holds(n, leaves, Marked) ==
  /\ n.t = "obj" /\ \A k \in DOMAIN n.o \ Marked : n.o[k] \in leaves
  /\ IsMember(n, "slots") => SlotTable(n.o["slots"])
Container(e, leaves) == Holds(e, leaves, {"slots"}) /\ ~IsMember(e, "encrypted")
MapEntry(n, leaves) ==
  Holds(n, leaves, {"slots", "encrypted"}) /\ (IsMember(n, "encrypted") => Container(n.o["encrypted"], leaves))
WellShaped(leaves) ==
  /\ \A n \in leaves : Unmarked(n) /\ Within(n) \subseteq leaves
  /\ \A d \in DOMAIN Descs :
       Descs[d].map.t = "arr" /\ \A k \in DOMAIN Descs[d].map.a : MapEntry(Descs[d].map.a[k], leaves)

\* What the parser hands to IDPdevice is what provisioning relies on (the
\* assumption of IdpProvision): parents come first, are containers, and only
\* images have them.
ParsedIsProvisionable ==
  Taken => \A i \in DOMAIN found :
    /\ found[i].parent < i
    /\ found[i].parent # 0 => found[i].etype = "none" /\ found[found[i].parent].etype # "none"

\* The list of partitions that parser and navigator hand to IDPdevice is whole
\* and in the order that provisioning relies on.
HandedOver == AcceptedIsComplete /\ ParsedIsProvisionable

\* The device name that idpgetblk computes from num is that of the table entry
\* made for the partition, on the disk and inside a partitioned container.
DeviceIsOwn ==
  ilPc = "done" => \A i \in DOMAIN found :
    LET c == found[i].parent
        own(tab) == found[i].num \in DOMAIN tab /\ tab[found[i].num].of = i
    IN IF c = 0 THEN own(entries) ELSE found[c].etype = "partitioned" => own(inner[c])

\* Each image fits the partition made for it.
RoomForImage ==
  ilPc = "done" => \A i \in ImageParts :
    LET c == found[i].parent
    IN found[i].size <= CASE c = 0 -> entries[found[i].num].len
                          [] c # 0 /\ found[c].etype = "partitioned" -> inner[c][found[i].num].len
                          [] OTHER -> LenAt(c) - LuksHeader

\* The device that idpgetblk names for an image is the image's own, and takes it.
DevicesFit == DeviceIsOwn /\ RoomForImage

\* idpinit's check is enough: unless a partition that takes all the room is
\* followed by another, idpwrite never runs out of it.  Nothing in the check
\* rejects an image of no size, which asks for all the room there is
\* (rpiparted.cpp:225), or more partitions than a GPT has entries for.
CheckedIsWritable ==
  ilPc = "failed" =>
    \/ \E i, j \in DOMAIN found : i < j /\ found[i].expand /\ found[i].parent = found[j].parent
    \/ \E i \in ImageParts : found[i].size = 0
    \/ Len(found) > 128

\* Every description is answered: the walk ends.
DescriptionAnswered == ilPc # "idle" ~> ilPc \in {"refused", "failed", "done"}
============================================================================
