------------------------- MODULE IdpProvisionProofs -------------------------
(***************************************************************************)
(* IdpProvision, for every set of descriptions: no mapping is left from an *)
(* earlier provisioning, a provisioned disk is the one that was described, *)
(* and the walk over idpgetblk names every image.                          *)
(***************************************************************************)
EXTENDS IdpProvision, WellFoundedInduction, TLAPS

\* Where idpwrite has got to: from the commit on the table is the description's,
\* from the re-read on the kernel has it too; devices are only set after that,
\* and a container is open while its children are looked for.
WriteProgress ==
  /\ state = "Ready" \/ pc \in {"ptable", "reread", "probe"} => blk = {}
  /\ pc \in {"reread", "probe", "luks", "parted", "children"} => table = parts
  /\ pc \in {"probe", "luks", "parted", "children"} => kview = parts
  /\ cur = 0 <=> pc \notin {"luks", "parted", "children"}
  /\ pc \in {"parted", "children"} => cur \in mapped

\* Every child that has a device is in an open container, with its node.
ChildrenReal ==
  pc \in {"luks", "parted", "children"} \/ state = "Partitioned" =>
    \A i \in blk \ Roots :
      /\ parts[i].parent \in mapped
      /\ parts[parts[i].parent].etype = "partitioned" => i \in nodes

\* What the walk has named is what lies behind its cookie.
WalkProgress ==
  /\ state \in {"Ready", "Writing"} => cookie = 1 /\ offered = {}
  /\ state = "Partitioned" => offered = {i \in Images \cap blk : i < cookie}
  /\ (/\ state = "Partitioned" /\ Images \subseteq blk
      /\ reply.cmd = "idpgetblk" /\ reply.info = 0) => \A i \in Images : i < cookie

IdpInv ==
  /\ TypeOK
  /\ FreshMappings
  /\ WriteProgress
  /\ ChildrenReal
  /\ state = "Partitioned" => table = parts /\ kview = parts
  /\ WalkProgress
----------------------------------------------------------------------------
\* A description is a sequence of partitions.
LEMMA LayoutFacts ==
  ASSUME NEW l \in Layouts \cup {None}
  PROVE  /\ l \in Seq(Partitions) /\ DOMAIN l = 1 .. Len(l) /\ Len(l) \in Nat
         /\ \A i \in DOMAIN l : l[i] \in Partitions /\ l[i].parent \in Nat
<1>1. l \in Seq(Partitions)
  <2>1. CASE l \in Layouts
    BY <2>1, LayoutsAssumption
  <2>2. CASE l = <<>>
    BY <2>2
  <2> QED BY <2>1, <2>2 DEF None
<1>2. DOMAIN l = 1 .. Len(l) /\ Len(l) \in Nat
  BY <1>1
<1>3. \A i \in DOMAIN l : l[i] \in Partitions
  BY <1>1, <1>2
<1> QED BY <1>1, <1>2, <1>3 DEF Partitions

\* No description is the null value.
LEMMA NoneIsNoLayout == None \notin Layouts
BY LayoutsAssumption DEF None

\* The descriptions' own sets of partitions.
LEMMA SetsOfParts ==
  ASSUME TypeOK
  PROVE  /\ Indexes \subseteq Nat \ {0}
         /\ Roots \subseteq Indexes /\ Containers \subseteq Indexes /\ Images \subseteq Indexes
         /\ \A c : Children(c) \subseteq Indexes
BY LayoutFacts DEF TypeOK, Indexes, Roots, Containers, Images, Children

\* The smallest of some indexes.
LEMMA LeastIndex ==
  ASSUME NEW S, S \subseteq Nat, S # {}
  PROVE  LET m == CHOOSE m \in S : \A n \in S : m <= n
         IN  m \in S /\ \A n \in S : m <= n
<1> DEFINE R == OpToRel(<, Nat)
<1>1. IsWellFoundedOn(R, Nat)
  BY NatLessThanWellFounded
<1>2. \A x, y \in Nat : y < x => <<y, x>> \in R
  BY DEF OpToRel
<1> HIDE DEF R
<1>3. PICK m \in S : \A n \in S : ~(<<n, m>> \in R)
  BY <1>1, WFMin
<1>4. \A n \in S : ~(n < m)
  BY <1>2, <1>3
<1>5. \A n \in S : m <= n
  BY <1>4
<1> QED BY <1>5

\* What is read off the list of partitions changes only with it.
LEMMA SameParts ==
  ASSUME parts' = parts
  PROVE  /\ Indexes' = Indexes /\ Roots' = Roots /\ Containers' = Containers /\ Images' = Images
         /\ \A c : Children(c)' = Children(c)
BY DEF Indexes, Roots, Containers, Images, Children
----------------------------------------------------------------------------
\* IdpInv holds before any description is staged.
LEMMA IdpInvInit == Init => IdpInv
<1> SUFFICES ASSUME Init PROVE IdpInv
  OBVIOUS
<1>1. TypeOK
  BY DEF Init, TypeOK, States, Indexes, Containers, None
<1>2. FreshMappings /\ WriteProgress /\ ChildrenReal /\ WalkProgress
  BY DEF Init, FreshMappings, WriteProgress, ChildrenReal, WalkProgress
<1> QED BY <1>1, <1>2 DEF IdpInv, Init

\* What other sessions do: they open, close, hold and release what is there.
LEMMA OthersKeep ==
  ASSUME IdpInv, UNCHANGED <<staged, state, parts, blk, cookie, pc, cur, table, kview, mapped,
                             nodes, offered, reply>>,
         flashing' \in Nat, held' \subseteq mapped
  PROVE  IdpInv'
<1>1. TypeOK'
  BY SameParts DEF IdpInv, TypeOK
<1>2. FreshMappings' /\ WriteProgress'
  BY DEF IdpInv, FreshMappings, WriteProgress
<1>3. ChildrenReal' /\ WalkProgress'
  BY SameParts DEF IdpInv, ChildrenReal, WalkProgress
<1> QED BY <1>1, <1>2, <1>3 DEF IdpInv

\* What other sessions do keeps IdpInv.
LEMMA OthersStep ==
  ASSUME IdpInv,
         \/ \E i \in DOMAIN kview : FlashStart(i)
         \/ FlashEnd
         \/ \E c \in mapped : Hold(c) \/ Release(c)
         \/ UNCHANGED vars
  PROVE  IdpInv'
<1>0. held \subseteq mapped /\ flashing \in Nat
  BY DEF IdpInv, TypeOK
<1>1. CASE \E i \in DOMAIN kview : FlashStart(i)
  <2>1. DOMAIN kview \subseteq Nat
    BY LayoutFacts DEF IdpInv, TypeOK
  <2> QED BY <1>0, <1>1, <2>1, OthersKeep DEF FlashStart, disk
<1>2. CASE FlashEnd
  BY <1>0, <1>2, OthersKeep DEF FlashEnd, disk
<1>3. CASE \E c \in mapped : Hold(c) \/ Release(c)
  BY <1>0, <1>3, OthersKeep DEF Hold, Release
<1>4. CASE UNCHANGED vars
  BY <1>0, <1>4, OthersKeep DEF vars, disk
<1> QED BY <1>1, <1>2, <1>3, <1>4

\* Staging a description keeps IdpInv.
LEMMA StageKeeps ==
  ASSUME IdpInv, NEW l \in Layouts, Stage(l)
  PROVE  IdpInv'
<1>1. /\ UNCHANGED <<state, parts, blk, cookie, pc, cur, table, kview, mapped, nodes, held,
                     flashing, offered>>
      /\ staged' = l /\ reply' = [cmd |-> "download", status |-> "OKAY", info |-> 0]
  BY DEF Stage, Reply, disk
<1>2. TypeOK'
  BY <1>1, SameParts DEF IdpInv, TypeOK
<1>3. FreshMappings' /\ WriteProgress'
  BY <1>1 DEF IdpInv, FreshMappings, WriteProgress
<1>4. ChildrenReal' /\ WalkProgress'
  BY <1>1, SameParts DEF IdpInv, ChildrenReal, WalkProgress
<1> QED BY <1>1, <1>2, <1>3, <1>4 DEF IdpInv

\* oem idpinit keeps IdpInv.
LEMMA IdpInitKeeps ==
  ASSUME IdpInv, IdpInit
  PROVE  IdpInv'
<1> DEFINE ready == ~InUse
<1>0. /\ pc = "idle" /\ UNCHANGED <<staged, pc, cur, flashing>> /\ cur = 0 /\ pc' = "idle"
      /\ \/ reply' = [cmd |-> "idpinit", status |-> "FAIL", info |-> 0] /\ Rejected(ready)
         \/ /\ staged # None /\ state = "None" /\ ready
            /\ reply' = [cmd |-> "idpinit", status |-> "OKAY", info |-> 0] /\ Accepted
  BY DEF IdpInit, IdpInitIf, ValidateDeviceReadiness, Reply, IdpInv, WriteProgress
<1>1. CASE Rejected(ready) /\ reply' = [cmd |-> "idpinit", status |-> "FAIL", info |-> 0]
  <2>1. /\ UNCHANGED <<state, parts, blk, cookie, offered, table, mapped, nodes, held>>
        /\ kview' \in {kview, table}
    BY <1>1 DEF Rejected
  <2>2. TypeOK'
    BY <1>0, <1>1, <2>1, SameParts DEF IdpInv, TypeOK
  <2>3. FreshMappings' /\ WriteProgress'
    BY <1>0, <2>1 DEF IdpInv, FreshMappings, WriteProgress
  <2>4. ChildrenReal' /\ WalkProgress'
    BY <1>0, <1>1, <2>1, SameParts DEF IdpInv, ChildrenReal, WalkProgress
  <2> QED BY <2>1, <2>2, <2>3, <2>4 DEF IdpInv
<1>2. CASE /\ staged # None /\ state = "None" /\ ready /\ Accepted
           /\ reply' = [cmd |-> "idpinit", status |-> "OKAY", info |-> 0]
  <2>1. /\ state' = "Ready" /\ parts' = staged /\ blk' = {} /\ cookie' = 1 /\ offered' = {}
        /\ kview' = table /\ UNCHANGED <<table, mapped, nodes, held>>
    BY <1>2 DEF Accepted
  <2>2. mapped = {}
    BY <1>2 DEF InUse
  <2>3. TypeOK'
    BY <1>0, <1>2, <2>1, NoneIsNoLayout DEF IdpInv, TypeOK, States
  <2>4. FreshMappings' /\ WriteProgress' /\ ChildrenReal' /\ WalkProgress'
    BY <1>0, <2>1, <2>2 DEF FreshMappings, WriteProgress, ChildrenReal, WalkProgress
  <2> QED BY <2>1, <2>3, <2>4 DEF IdpInv
<1> QED BY <1>0, <1>1, <1>2

\* idpdone, and a host that goes away: the description is dropped.
LEMMA DropKeeps ==
  ASSUME IdpInv, pc = "idle", state' = "None", parts' = None, blk' = {},
         UNCHANGED <<cookie, pc, cur, table, kview, held, flashing, offered>>,
         staged' \in {staged, None}, mapped' \subseteq mapped, held \subseteq mapped',
         nodes' \subseteq nodes, NEW c, NEW r \in {"none", "OKAY"},
         reply' = [cmd |-> c, status |-> r, info |-> 0]
  PROVE  IdpInv'
<1>1. TypeOK'
  BY DEF IdpInv, WriteProgress, TypeOK, States
<1>2. FreshMappings' /\ WriteProgress' /\ ChildrenReal' /\ WalkProgress'
  BY DEF IdpInv, FreshMappings, WriteProgress, ChildrenReal, WalkProgress
<1> QED BY <1>1, <1>2 DEF IdpInv

\* oem idpdone keeps IdpInv.
LEMMA IdpDoneKeeps ==
  ASSUME IdpInv, IdpDone
  PROVE  IdpInv'
<1>1. held \subseteq mapped
  BY DEF IdpInv, TypeOK
<1>2. /\ pc = "idle" /\ state' = "None" /\ parts' = None /\ blk' = {}
      /\ UNCHANGED <<staged, cookie, pc, cur, table, kview, held, flashing, offered>>
      /\ reply' = [cmd |-> "idpdone", status |-> "OKAY", info |-> 0]
  BY DEF IdpDone, DoneClosing, Reply
<1>3. mapped' \in {mapped, mapped \cap held}
  BY DEF IdpDone, DoneClosing
<1>4. nodes' \subseteq nodes
  BY DEF IdpDone, DoneClosing
<1>5. mapped' \subseteq mapped /\ held \subseteq mapped'
  BY <1>1, <1>3
<1> QED BY <1>2, <1>4, <1>5, DropKeeps

\* A new connection keeps IdpInv.
LEMMA ReconnectKeeps ==
  ASSUME IdpInv, Reconnect
  PROVE  IdpInv'
<1>1. held \subseteq mapped
  BY DEF IdpInv, TypeOK
<1> QED BY <1>1, DropKeeps DEF Reconnect, disk

\* The start of oem idpwrite keeps IdpInv.
LEMMA IdpWriteKeeps ==
  ASSUME IdpInv, IdpWrite
  PROVE  IdpInv'
<1>1. /\ UNCHANGED <<staged, parts, blk, cookie, cur, table, kview, mapped, nodes, held,
                     flashing, offered>>
      /\ pc = "idle"
      /\ \/ /\ state # "Ready" /\ UNCHANGED <<state, pc>>
            /\ reply' = [cmd |-> "idpwrite", status |-> "FAIL", info |-> 0]
         \/ state = "Ready" /\ state' = "Writing" /\ pc' = "ptable" /\ UNCHANGED reply
  BY DEF IdpWrite, Reply, disk
<1>2. TypeOK'
  BY <1>1, SameParts DEF IdpInv, TypeOK, States
<1>3. FreshMappings' /\ WriteProgress'
  BY <1>1 DEF IdpInv, FreshMappings, WriteProgress
<1>4. ChildrenReal' /\ WalkProgress'
  BY <1>1, SameParts DEF IdpInv, ChildrenReal, WalkProgress
<1> QED BY <1>1, <1>2, <1>3, <1>4 DEF IdpInv

\* oem idpgetblk keeps IdpInv: its cookie stops at the least index left.
LEMMA IdpGetBlkKeeps ==
  ASSUME IdpInv, IdpGetBlk
  PROVE  IdpInv'
<1>1. /\ pc = "idle"
      /\ UNCHANGED <<staged, state, parts, blk, pc, cur, table, kview, mapped, nodes, held,
                     flashing>>
  BY DEF IdpGetBlk, GetBlkFrom, disk
<1>2. FreshMappings' /\ WriteProgress'
  BY <1>1 DEF IdpInv, FreshMappings, WriteProgress
<1>3. ChildrenReal'
  BY <1>1, SameParts DEF IdpInv, ChildrenReal
<1>4. ASSUME cookie' \in Nat \ {0}, offered' \subseteq Nat, reply'.status \in {"none", "OKAY", "FAIL"},
             reply'.info \in Nat
      PROVE  TypeOK'
  BY <1>1, <1>4, SameParts DEF IdpInv, TypeOK
<1>5. CASE state # "Partitioned"
  <2>1. UNCHANGED <<cookie, offered>> /\ reply' = [cmd |-> "idpgetblk", status |-> "FAIL", info |-> 0]
    BY <1>5 DEF IdpGetBlk, GetBlkFrom, Reply
  <2>2. TypeOK'
    BY <1>4, <2>1 DEF IdpInv, TypeOK
  <2>3. WalkProgress'
    BY <1>1, <1>5, <2>1 DEF IdpInv, WalkProgress
  <2> QED BY <1>1, <1>2, <1>3, <2>2, <2>3 DEF IdpInv
<1>6. CASE state = "Partitioned"
  <2> DEFINE rest == {i \in Images : i >= cookie}
             i == CHOOSE m \in rest : \A n \in rest : m <= n
  <2>0. /\ Images \subseteq Nat \ {0} /\ cookie \in Nat \ {0} /\ offered \subseteq Nat
        /\ parts \in Layouts \cup {None}
        /\ offered = {j \in Images \cap blk : j < cookie} /\ Images \subseteq Indexes
    BY <1>6, SetsOfParts DEF IdpInv, TypeOK, WalkProgress
  <2>1. CASE rest = {}
    <3>1. /\ cookie' = Len(parts) + 1 /\ offered' = offered
          /\ reply' = [cmd |-> "idpgetblk", status |-> "OKAY", info |-> 0]
      BY <1>6, <2>1 DEF IdpGetBlk, GetBlkFrom, Reply
    <3>2. Len(parts) \in Nat /\ Indexes = 1 .. Len(parts)
      BY <2>0, LayoutFacts DEF Indexes
    <3>3. \A j \in Images : j < cookie /\ j < cookie'
      BY <2>0, <2>1, <3>1, <3>2
    <3>4. TypeOK'
      BY <1>4, <2>0, <3>1, <3>2
    <3>5. offered' = {j \in Images' \cap blk' : j < cookie'}
      BY <1>1, <2>0, <3>1, <3>3, SameParts
    <3>6. WalkProgress'
      BY <1>1, <1>6, <3>3, <3>5, SameParts DEF WalkProgress
    <3> QED BY <1>1, <1>2, <1>3, <3>4, <3>6 DEF IdpInv
  <2>2. CASE rest # {}
    <3>1. /\ cookie' = i + 1
          /\ reply' = [cmd |-> "idpgetblk", status |-> "OKAY", info |-> IF i \in blk THEN i ELSE 0]
          /\ offered' = IF i \in blk THEN offered \cup {i} ELSE offered
      BY <1>6, <2>2 DEF IdpGetBlk, GetBlkFrom, Reply
    <3>2. i \in rest /\ \A n \in rest : i <= n
      BY <2>0, <2>2, LeastIndex
    <3>3. i \in Images /\ i >= cookie /\ i \in Nat \ {0}
      BY <2>0, <3>2
    <3>4. \A j \in Images : j < i + 1 <=> j < cookie \/ j = i
      BY <2>0, <3>2, <3>3
    <3> HIDE DEF i, rest
    <3>5. TypeOK'
      BY <1>4, <2>0, <3>1, <3>3
    <3>6. offered' = {j \in Images' \cap blk' : j < cookie'}
      BY <1>1, <2>0, <3>1, <3>3, <3>4, SameParts
    <3>7. Images \subseteq blk => reply'.info # 0
      BY <3>1, <3>3
    <3>8. WalkProgress'
      BY <1>1, <1>6, <3>6, <3>7, SameParts DEF WalkProgress
    <3> QED BY <1>1, <1>2, <1>3, <3>5, <3>8 DEF IdpInv
  <2> QED BY <2>1, <2>2
<1> QED BY <1>5, <1>6
----------------------------------------------------------------------------
\* A failed idpwrite: the state is Error, whatever was done to the disk.
LEMMA WriteFailsKeeps ==
  ASSUME IdpInv, WriteFails, UNCHANGED <<staged, parts, cookie, mapped, nodes, held, flashing, offered>>,
         blk' \subseteq Indexes, state = "Writing",
         table' \in Layouts \cup {None}, kview' \in Layouts \cup {None}
  PROVE  IdpInv'
<1>1. /\ state' = "Error" /\ pc' = "idle" /\ cur' = 0
      /\ reply' = [cmd |-> "idpwrite", status |-> "FAIL", info |-> 0]
  BY DEF WriteFails, Reply
<1>2. TypeOK'
  BY <1>1, SameParts DEF IdpInv, TypeOK, States
<1>3. FreshMappings' /\ WriteProgress' /\ ChildrenReal' /\ WalkProgress'
  BY <1>1 DEF FreshMappings, WriteProgress, ChildrenReal, WalkProgress
<1> QED BY <1>1, <1>2, <1>3 DEF IdpInv

\* The steps before the containers.
LEMMA TableKeeps ==
  ASSUME IdpInv, WritePhysicalPartitions \/ RereadTable
  PROVE  IdpInv'
<1>0. /\ UNCHANGED <<staged, parts, blk, cookie, mapped, nodes, held, flashing, offered>>
      /\ state = "Writing" /\ blk \subseteq Indexes
  BY DEF WritePhysicalPartitions, RereadTable, IdpInv, TypeOK
<1>1. CASE WriteFails
  <2>1. table' \in Layouts \cup {None} /\ kview' \in Layouts \cup {None}
    BY <1>0, <1>1 DEF WritePhysicalPartitions, RereadTable, IdpInv, TypeOK
  <2> QED BY <1>0, <1>1, <2>1, WriteFailsKeeps
<1>2. CASE ~WriteFails
  <2>1. /\ UNCHANGED <<state, cur, reply>>
        /\ \/ pc = "ptable" /\ table' = parts /\ pc' = "reread" /\ UNCHANGED kview
           \/ pc = "reread" /\ kview' = table /\ pc' = "probe" /\ UNCHANGED table
    BY <1>2 DEF WritePhysicalPartitions, RereadTable
  <2>2. TypeOK'
    BY <1>0, <2>1, SameParts DEF IdpInv, TypeOK
  <2>3. FreshMappings' /\ WriteProgress'
    BY <1>0, <2>1 DEF IdpInv, FreshMappings, WriteProgress
  <2>4. ChildrenReal' /\ WalkProgress'
    BY <1>0, <2>1 DEF IdpInv, ChildrenReal, WalkProgress
  <2> QED BY <1>0, <2>1, <2>2, <2>3, <2>4 DEF IdpInv
<1> QED BY <1>1, <1>2

\* InitCryptPartitions goes on to the next container or has done the last one,
\* with every child that has a device in an open container.
LEMMA NextContainerKeeps ==
  ASSUME IdpInv, NextContainer, state = "Writing",
         UNCHANGED <<staged, parts, cookie, table, kview, nodes, held, flashing, offered>>,
         table = parts, kview = parts, blk' \subseteq Indexes,
         mapped \subseteq mapped', mapped' \subseteq Nat,
         \A i \in blk' \ Roots :
            /\ parts[i].parent \in mapped'
            /\ parts[parts[i].parent].etype = "partitioned" => i \in nodes
  PROVE  IdpInv'
<1> DEFINE rest == {c \in Containers : c > cur}
<1>1. Containers \subseteq Nat \ {0} /\ held \subseteq mapped
  BY SetsOfParts DEF IdpInv, TypeOK
<1>2. \/ /\ state' = "Partitioned" /\ pc' = "idle" /\ cur' = 0
         /\ reply' = [cmd |-> "idpwrite", status |-> "OKAY", info |-> 0]
      \/ UNCHANGED <<state, reply>> /\ pc' = "luks" /\ cur' \in Containers
  <2>1. CASE rest = {}
    BY <2>1 DEF NextContainer, WriteSucceeds, Reply
  <2>2. CASE rest # {}
    <3>1. /\ UNCHANGED <<state, reply>> /\ pc' = "luks"
          /\ cur' = CHOOSE c \in rest : \A d \in rest : c <= d
      BY <2>2 DEF NextContainer
    <3>2. cur' \in rest
      BY <1>1, <2>2, <3>1, LeastIndex
    <3> QED BY <3>1, <3>2
  <2> QED BY <2>1, <2>2
<1>3. TypeOK'
  BY <1>1, <1>2, SameParts DEF IdpInv, TypeOK, States
<1>4. FreshMappings' /\ WriteProgress'
  BY <1>1, <1>2 DEF FreshMappings, WriteProgress
<1>5. ChildrenReal'
  BY SameParts DEF ChildrenReal
<1>6. WalkProgress'
  <2>1. cookie = 1 /\ offered = {} /\ Images \subseteq Nat \ {0}
    BY SetsOfParts DEF IdpInv, WalkProgress
  <2>2. {i \in Images' \cap blk' : i < cookie'} = {}
    <3>1. \A i \in Images : ~(i < cookie)
      BY <2>1
    <3> QED BY <3>1, SameParts
  <2> QED BY <1>2, <2>1, <2>2 DEF WalkProgress
<1> QED BY <1>3, <1>4, <1>5, <1>6 DEF IdpInv

\* Looking for the devices of the root partitions keeps IdpInv.
LEMMA ProbeRootsKeeps ==
  ASSUME IdpInv, ProbeRoots
  PROVE  IdpInv'
<1>1. /\ UNCHANGED <<staged, parts, cookie, table, kview, mapped, nodes, held, flashing, offered>>
      /\ state = "Writing" /\ table = parts /\ kview = parts /\ mapped \subseteq Nat
      /\ parts \in Layouts \cup {None}
  BY DEF ProbeRoots, disk, IdpInv, TypeOK, WriteProgress
<1>2. Roots \subseteq Indexes
  BY SetsOfParts DEF IdpInv
<1>3. CASE blk' = Roots /\ NextContainer
  BY <1>1, <1>2, <1>3, NextContainerKeeps
<1>4. CASE blk' \subseteq Roots /\ WriteFails
  BY <1>1, <1>2, <1>4, WriteFailsKeeps
<1> QED BY <1>3, <1>4 DEF ProbeRoots

\* Formatting and opening a container keeps IdpInv.
LEMMA CreateOpenLuksKeeps ==
  ASSUME IdpInv, CreateOpenLuks
  PROVE  IdpInv'
<1>1. /\ UNCHANGED <<staged, parts, blk, cookie, table, kview, nodes, held, flashing, offered>>
      /\ pc = "luks" /\ state = "Writing" /\ table = parts /\ kview = parts
      /\ cur \in Containers /\ blk \subseteq Indexes /\ mapped \subseteq Nat
      /\ held \subseteq mapped /\ parts \in Layouts \cup {None}
  BY DEF CreateOpenLuks, IdpInv, TypeOK, WriteProgress
<1>2. cur \in Nat \ {0}
  BY <1>1, SetsOfParts DEF IdpInv
<1>3. CASE WriteFails /\ UNCHANGED mapped
  BY <1>1, <1>3, WriteFailsKeeps
<1>4. CASE /\ mapped' = mapped \cup {cur}
           /\ \/ NextContainer
              \/ pc' \in {"parted", "children"} /\ UNCHANGED <<state, cur, reply>>
  <2>1. \A i \in blk' \ Roots :
          /\ parts[i].parent \in mapped'
          /\ parts[parts[i].parent].etype = "partitioned" => i \in nodes
    BY <1>1, <1>4 DEF IdpInv, ChildrenReal
  <2>2. CASE NextContainer
    BY <1>1, <1>2, <1>4, <2>1, <2>2, NextContainerKeeps
  <2>3. CASE pc' \in {"parted", "children"} /\ UNCHANGED <<state, cur, reply>>
    <3>1. TypeOK'
      BY <1>1, <1>2, <1>4, <2>3, SameParts DEF IdpInv, TypeOK
    <3>2. FreshMappings' /\ WriteProgress'
      BY <1>1, <1>2, <1>4, <2>3 DEF FreshMappings, WriteProgress
    <3>3. ChildrenReal'
      BY <1>1, <2>1, SameParts DEF ChildrenReal
    <3>4. WalkProgress'
      BY <1>1, <2>3 DEF IdpInv, WalkProgress
    <3> QED BY <1>1, <2>3, <3>1, <3>2, <3>3, <3>4 DEF IdpInv
  <2> QED BY <1>4, <2>2, <2>3
<1> QED BY <1>3, <1>4 DEF CreateOpenLuks

\* Writing a table inside a container keeps IdpInv.
LEMMA PartitionLuksKeeps ==
  ASSUME IdpInv, PartitionLuks
  PROVE  IdpInv'
<1>1. /\ UNCHANGED <<staged, parts, blk, cookie, table, kview, mapped, held, flashing, offered>>
      /\ pc = "parted" /\ state = "Writing" /\ table = parts /\ kview = parts
      /\ cur \in mapped /\ cur # 0 /\ nodes \subseteq Nat /\ cookie = 1 /\ offered = {}
  BY DEF PartitionLuks, IdpInv, TypeOK, WriteProgress, WalkProgress
<1>2. Children(cur) \subseteq Nat /\ Images \subseteq Nat \ {0}
  BY SetsOfParts DEF IdpInv
<1>3. \A i \in blk \ Roots :
        /\ parts[i].parent \in mapped
        /\ parts[parts[i].parent].etype = "partitioned" => i \in nodes
  BY <1>1 DEF IdpInv, ChildrenReal
<1>4. CASE WriteSucceeds /\ UNCHANGED nodes
  <2>1. /\ state' = "Partitioned" /\ pc' = "idle" /\ cur' = 0
        /\ reply' = [cmd |-> "idpwrite", status |-> "OKAY", info |-> 0]
    BY <1>4 DEF WriteSucceeds, Reply
  <2>2. TypeOK'
    BY <1>1, <1>4, <2>1, SameParts DEF IdpInv, TypeOK, States
  <2>3. FreshMappings' /\ WriteProgress'
    BY <2>1 DEF FreshMappings, WriteProgress
  <2>4. ChildrenReal'
    BY <1>1, <1>3, <1>4, SameParts DEF ChildrenReal
  <2>5. {i \in Images' \cap blk' : i < cookie'} = {}
    <3>1. \A i \in Images : ~(i < cookie)
      BY <1>1, <1>2
    <3> QED BY <1>1, <3>1, SameParts
  <2>6. WalkProgress'
    BY <1>1, <2>1, <2>5 DEF WalkProgress
  <2> QED BY <1>1, <2>2, <2>3, <2>4, <2>6 DEF IdpInv
<1>5. CASE /\ nodes' \in {nodes \cup n : n \in SUBSET Children(cur)}
           /\ pc' = "children" /\ UNCHANGED <<state, cur, reply>>
  <2>1. nodes \subseteq nodes' /\ nodes' \subseteq Nat
    BY <1>1, <1>2, <1>5
  <2>2. TypeOK'
    BY <1>1, <1>5, <2>1, SameParts DEF IdpInv, TypeOK
  <2>3. FreshMappings' /\ WriteProgress'
    BY <1>1, <1>5 DEF FreshMappings, WriteProgress
  <2>4. ChildrenReal'
    BY <1>1, <1>3, <2>1, SameParts DEF ChildrenReal
  <2>5. WalkProgress'
    BY <1>1, <1>5 DEF WalkProgress
  <2> QED BY <1>1, <1>5, <2>2, <2>3, <2>4, <2>5 DEF IdpInv
<1> QED BY <1>4, <1>5 DEF PartitionLuks

\* Looking for the devices of the children keeps IdpInv.
LEMMA ProbeChildrenKeeps ==
  ASSUME IdpInv, ProbeChildren
  PROVE  IdpInv'
<1>1. /\ UNCHANGED <<staged, parts, cookie, table, kview, mapped, nodes, held, flashing, offered>>
      /\ pc = "children" /\ state = "Writing" /\ table = parts /\ kview = parts
      /\ cur \in mapped /\ blk \subseteq Indexes /\ mapped \subseteq Nat
      /\ parts \in Layouts \cup {None}
  BY DEF ProbeChildren, disk, IdpInv, TypeOK, WriteProgress
<1>2. Children(cur) \subseteq Indexes
  BY SetsOfParts DEF IdpInv
<1>3. CASE /\ parts[cur].etype = "partitioned" => Children(cur) \subseteq nodes
           /\ blk' = blk \cup Children(cur) /\ NextContainer
  <2>1. \A i \in blk \ Roots :
          /\ parts[i].parent \in mapped
          /\ parts[parts[i].parent].etype = "partitioned" => i \in nodes
    BY <1>1 DEF IdpInv, ChildrenReal
  <2>2. \A i \in Children(cur) : parts[i].parent = cur
    BY DEF Children
  <2>3. \A i \in blk' \ Roots :
          /\ parts[i].parent \in mapped
          /\ parts[parts[i].parent].etype = "partitioned" => i \in nodes
    BY <1>1, <1>3, <2>1, <2>2
  <2> QED BY <1>1, <1>2, <1>3, <2>3, NextContainerKeeps
<1>4. CASE WriteFails /\ blk' \subseteq blk \cup Children(cur)
  BY <1>1, <1>2, <1>4, WriteFailsKeeps
<1> QED BY <1>3, <1>4 DEF ProbeChildren

\* Every step keeps IdpInv.
LEMMA IdpInvStep == IdpInv /\ [Next]_vars => IdpInv'
BY StageKeeps, IdpInitKeeps, IdpWriteKeeps, TableKeeps, ProbeRootsKeeps, CreateOpenLuksKeeps,
   PartitionLuksKeeps, ProbeChildrenKeeps, IdpGetBlkKeeps, IdpDoneKeeps, ReconnectKeeps,
   OthersStep DEF Next

\* IdpInv is an invariant of IdpProvision.
LEMMA IdpInvHolds == Spec => []IdpInv
BY IdpInvInit, IdpInvStep, PTL DEF Spec

\* Every variable of the provisioning keeps its type.
THEOREM ProvisionTypes == Spec => []TypeOK
<1>1. IdpInv => TypeOK
  BY DEF IdpInv
<1> QED BY IdpInvHolds, <1>1, PTL

\* Mappings of an earlier provisioning are never taken for the new one's: from
\* idpinit to the first container none is active.
THEOREM MappingsAlwaysFresh == Spec => []FreshMappings
<1>1. IdpInv => FreshMappings
  BY DEF IdpInv
<1> QED BY IdpInvHolds, <1>1, PTL

\* A provisioned disk is the one described, in the kernel's view too, and every
\* device that idpgetblk can name is there.
THEOREM PartitionedAlwaysReal == Spec => []PartitionedIsReal
<1>1. IdpInv => PartitionedIsReal
  BY DEF IdpInv, ChildrenReal, PartitionedIsReal
<1> QED BY IdpInvHolds, <1>1, PTL

\* When the host's walk over idpgetblk ends, every image has been named, provided
\* idpwrite gave each its device.
THEOREM WalkAlwaysComplete == Spec => []WalkComplete
<1>1. IdpInv => WalkComplete
  <2> SUFFICES ASSUME IdpInv, state = "Partitioned", Images \subseteq blk,
                      reply.cmd = "idpgetblk", reply.info = 0
               PROVE  offered = Images
    BY DEF WalkComplete
  <2>1. \A i \in Images : i < cookie
    BY DEF IdpInv, WalkProgress
  <2>2. offered = {i \in Images \cap blk : i < cookie}
    BY DEF IdpInv, WalkProgress
  <2> QED BY <2>1, <2>2
<1> QED BY IdpInvHolds, <1>1, PTL

\* idpdone leaves open only what another session holds, in whatever state the
\* provisioning was.
THEOREM DoneAlwaysCloses == Spec => DoneClosesAll
<1>1. ASSUME [Next]_vars, state # "None", state' = "None", reply'.cmd = "idpdone"
      PROVE  mapped' \subseteq held
  <2>1. CASE IdpDone
    BY <1>1, <2>1 DEF IdpDone, DoneClosing
  <2>2. CASE Reconnect
    BY <1>1, <2>2 DEF Reconnect
  <2>3. CASE IdpInit \/ IdpWrite \/ IdpGetBlk \/ \E l \in Layouts : Stage(l)
    BY <1>1, <2>3 DEF IdpInit, IdpInitIf, Rejected, Accepted, IdpWrite, IdpGetBlk, GetBlkFrom, Stage
  <2>4. CASE WritePhysicalPartitions \/ RereadTable
    BY <1>1, <2>4 DEF WritePhysicalPartitions, RereadTable, WriteFails
  <2>5. CASE ProbeRoots \/ CreateOpenLuks \/ PartitionLuks \/ ProbeChildren
    BY <1>1, <2>5 DEF ProbeRoots, CreateOpenLuks, PartitionLuks, ProbeChildren, NextContainer,
                      WriteFails, WriteSucceeds
  <2>6. CASE \/ \E i \in DOMAIN kview : FlashStart(i)
             \/ FlashEnd
             \/ \E c \in mapped : Hold(c) \/ Release(c)
             \/ UNCHANGED vars
    BY <1>1, <2>6 DEF FlashStart, FlashEnd, Hold, Release, vars
  <2> QED BY <1>1, <2>1, <2>2, <2>3, <2>4, <2>5, <2>6 DEF Next
<1>2. [Next]_vars => [(reply'.cmd = "idpdone" /\ state # "None" /\ state' = "None")
                        => mapped' \subseteq held]_vars
  BY <1>1
<1> QED BY <1>2, PTL DEF Spec, DoneClosesAll
============================================================================
