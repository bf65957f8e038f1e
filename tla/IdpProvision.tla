---------------------------- MODULE IdpProvision ----------------------------
(***************************************************************************)
(* Image Description Provisioning: oem idpinit, idpwrite, idpgetblk and    *)
(* idpdone (fastboot/device/commands.cpp) over IDPdevice and               *)
(* IDPdeviceWriter (rpiidp/src/device.cpp), run by the control session     *)
(* while a TCP worker may be flashing a partition of the same disk.        *)
(*                                                                         *)
(* A description is the sequence partitions_ that the parser produces:     *)
(* root partitions, LUKS containers and the children of containers.  Each  *)
(* blocking call of idpwrite is a step, so that the other session's steps  *)
(* fall between them; the other commands are one step each.                *)
(***************************************************************************)
EXTENDS Naturals, Sequences, FiniteSets

CONSTANT Layouts   \* the descriptions hosts stage

\* parent is the index of the container a child lives in, 0 for a root.
Partitions == [kind : {"image", "container"}, parent : Nat,
               etype : {"none", "raw", "partitioned"}]

ASSUME LayoutsAssumption ==
  \A l \in Layouts :
    /\ l \in Seq(Partitions) /\ l # <<>>
    /\ \A i \in 1..Len(l) :
         /\ l[i].parent < i
         /\ l[i].parent # 0 => l[i].kind = "image" /\ l[l[i].parent].kind = "container"
         /\ l[i].kind = "container" <=> l[i].etype # "none"

None == <<>>   \* no description; a partition table that is not ours

VARIABLES
  staged,   \* the description in download_data()
  state,    \* IDPdevice::state_, or "None" when device->idp is null
  parts,    \* IDPdevice::partitions_
  blk,      \* indexes of the partitions whose blkdev is set
  cookie,   \* IDPcookie::index, counted from 1
  pc,       \* where idpwrite is
  cur,      \* the container InitCryptPartitions is working on
  table,    \* the partition table on the disk
  kview,    \* the partition table the kernel works from
  mapped,   \* containers with an active dm-crypt mapping
  nodes,    \* children that kpartx made a device-mapper node for
  held,     \* mappings that another session has open or mounted
  flashing, \* the root partition a TCP worker has open with O_EXCL, or 0
  offered,  \* what idpgetblk has named since idpinit
  reply     \* the last reply: command, status and the partition in its INFO

disk == <<table, kview, mapped, nodes, held>>
vars == <<staged, state, parts, blk, cookie, pc, cur, disk, flashing, offered,
          reply>>

Indexes == DOMAIN parts
Roots == {i \in Indexes : parts[i].parent = 0}
Containers == {i \in Indexes : parts[i].kind = "container"}
Images == Indexes \ Containers
Children(c) == {i \in Indexes : parts[i].parent = c}

\* Anything that makes BLKRRPART fail with EBUSY.
InUse == flashing # 0 \/ mapped # {}

Reply(c, s, info) == reply' = [cmd |-> c, status |-> s, info |-> info]
----------------------------------------------------------------------------
Init ==
  /\ staged = None /\ state = "None" /\ parts = None /\ blk = {} /\ cookie = 1
  /\ pc = "idle" /\ cur = 0
  /\ table \in Layouts \cup {None} /\ kview = table   \* from an earlier run
  /\ mapped = {} /\ nodes = {} /\ held = {}
  /\ flashing = 0 /\ offered = {}
  /\ reply = [cmd |-> "none", status |-> "none", info |-> 0]

Stage(l) ==
  /\ pc = "idle"
  /\ staged' = l
  /\ Reply("download", "OKAY", 0)
  /\ UNCHANGED <<state, parts, blk, cookie, pc, cur, disk, flashing, offered>>

\* validateDeviceReadiness: the disk is there and BLKRRPART succeeds on it.
ValidateDeviceReadiness == ~InUse

\* A check fails and idp is reset; those after the probe come too late to leave
\* the kernel's table alone.
Rejected(ready) ==
  /\ kview' \in IF ready THEN {kview, table} ELSE {kview}
  /\ UNCHANGED <<state, parts, blk, cookie, offered, table, mapped, nodes, held>>

\* Initialise and canProvision succeed: idp is made, and its cookie.
Accepted ==
  /\ state' = "Ready"
  /\ parts' = staged
  /\ blk' = {} /\ cookie' = 1 /\ offered' = {}
  /\ kview' = table
  /\ UNCHANGED <<table, mapped, nodes, held>>

IdpInitIf(ready) ==
  /\ pc = "idle"
  /\ \/ Reply("idpinit", "FAIL", 0) /\ Rejected(ready)
     \/ /\ staged # None /\ state = "None" /\ ready
        /\ Reply("idpinit", "OKAY", 0)
        /\ Accepted
  /\ UNCHANGED <<staged, pc, cur, flashing>>

\* Mutant of IdpInit: validateDeviceReadiness does not try BLKRRPART.
IdpInitUnprobed == IdpInitIf(TRUE)

\* oem idpinit fails with nothing staged, when idp exists, when the description,
\* the device class, the capacity or firmware crypto is not right, and when
\* validateDeviceReadiness finds the disk in use.  That probe is a re-read.
IdpInit == IdpInitIf(ValidateDeviceReadiness)

\* oem idpwrite: startProvision is refused in every state but Ready.
IdpWrite ==
  /\ pc = "idle"
  /\ \/ /\ state # "Ready"
        /\ Reply("idpwrite", "FAIL", 0)
        /\ UNCHANGED <<state, pc>>
     \/ /\ state = "Ready"
        /\ state' = "Writing" /\ pc' = "ptable"
        /\ UNCHANGED reply
  /\ UNCHANGED <<staged, parts, blk, cookie, cur, disk, flashing, offered>>

WriteFails ==
  /\ state' = "Error" /\ pc' = "idle" /\ cur' = 0
  /\ Reply("idpwrite", "FAIL", 0)

WriteSucceeds ==
  /\ state' = "Partitioned" /\ pc' = "idle" /\ cur' = 0
  /\ Reply("idpwrite", "OKAY", 0)

\* Go to the next container, in the order of partitions_.
NextContainer ==
  LET rest == {c \in Containers : c > cur}
  IN  IF rest = {} THEN WriteSucceeds
      ELSE /\ cur' = CHOOSE c \in rest : \A d \in rest : c <= d
           /\ pc' = "luks"
           /\ UNCHANGED <<state, reply>>

\* WritePhysicalPartitions: everything up to commit() works in memory; a
\* commit that fails may have spoilt the old table.
WritePhysicalPartitions ==
  /\ pc = "ptable"
  /\ \/ /\ table' = parts
        /\ pc' = "reread"
        /\ UNCHANGED <<state, cur, reply>>
     \/ /\ table' \in {table, None}
        /\ WriteFails
  /\ UNCHANGED <<staged, parts, blk, cookie, kview, mapped, nodes, held, flashing,
                 offered>>

\* Mutant of RereadTable: a time-out is not an error.
RereadTableLenient ==
  /\ pc = "reread"
  /\ kview' = IF InUse THEN kview ELSE table
  /\ pc' = "probe"
  /\ UNCHANGED <<staged, state, parts, blk, cookie, cur, table, mapped, nodes,
                 held, flashing, offered, reply>>

\* rereadPartitionTable: EBUSY is retried until the disk is free or time is up.
RereadTable ==
  /\ pc = "reread"
  /\ \/ /\ ~InUse
        /\ kview' = table
        /\ pc' = "probe"
        /\ UNCHANGED <<state, cur, reply>>
     \/ WriteFails /\ UNCHANGED kview
  /\ UNCHANGED <<staged, parts, blk, cookie, table, mapped, nodes, held, flashing,
                 offered>>

\* setPartBlockDev for every root, stopping at one that does not appear.
ProbeRoots ==
  /\ pc = "probe"
  /\ \/ /\ blk' = Roots
        /\ NextContainer
     \/ /\ \E n \in Roots : blk' = {i \in Roots : i < n}
        /\ WriteFails
  /\ UNCHANGED <<staged, parts, cookie, disk, flashing, offered>>

\* LUKS Create and Open; a container somebody has open cannot be formatted.
CreateOpenLuks ==
  /\ pc = "luks"
  /\ \/ /\ flashing # cur
        /\ mapped' = mapped \cup {cur}
        /\ IF Children(cur) = {} THEN NextContainer
           ELSE /\ pc' = IF parts[cur].etype = "partitioned" THEN "parted" ELSE "children"
                /\ UNCHANGED <<state, cur, reply>>
     \/ WriteFails /\ UNCHANGED mapped
  /\ UNCHANGED <<staged, parts, blk, cookie, table, kview, nodes, held, flashing,
                 offered>>

\* The table inside a partitioned container.  `bool ret` in this block hides
\* the function's: a failure of openDevice or createPartitionTable breaks out
\* of the loop over containers with the outer ret still true.  After a failed
\* appendPartition nothing is committed; the results of commit() and of kpartx
\* are not looked at, so any of the nodes may be missing.
PartitionLuks ==
  /\ pc = "parted"
  /\ \/ WriteSucceeds /\ UNCHANGED nodes
     \/ /\ nodes' \in {nodes \cup n : n \in SUBSET Children(cur)}
        /\ pc' = "children"
        /\ UNCHANGED <<state, cur, reply>>
  /\ UNCHANGED <<staged, parts, blk, cookie, table, kview, mapped, held, flashing,
                 offered>>

\* setPartBlockDev for every child, stopping at one that does not appear.
ProbeChildren ==
  /\ pc = "children"
  /\ \/ /\ parts[cur].etype = "partitioned" => Children(cur) \subseteq nodes
        /\ blk' = blk \cup Children(cur)
        /\ NextContainer
     \/ /\ \E n \in Children(cur) : blk' = blk \cup {i \in Children(cur) : i < n}
        /\ WriteFails
  /\ UNCHANGED <<staged, parts, cookie, disk, flashing, offered>>

GetBlkFrom(next) ==
  /\ pc = "idle"
  /\ \/ /\ state # "Partitioned"
        /\ Reply("idpgetblk", "FAIL", 0)
        /\ UNCHANGED <<cookie, offered>>
     \/ /\ state = "Partitioned"
        /\ LET rest == {i \in Images : i >= cookie}
               i == CHOOSE m \in rest : \A n \in rest : m <= n
           IN  IF rest = {} THEN
                 /\ cookie' = Len(parts) + 1
                 /\ Reply("idpgetblk", "OKAY", 0)
                 /\ UNCHANGED offered
               ELSE
                 /\ cookie' = i + next
                 /\ Reply("idpgetblk", "OKAY", IF i \in blk THEN i ELSE 0)
                 /\ offered' = IF i \in blk THEN offered \cup {i} ELSE offered
  /\ UNCHANGED <<staged, state, parts, blk, pc, cur, disk, flashing>>

\* Mutant of IdpGetBlk: the cookie moves on once too often.
IdpGetBlkSkips == GetBlkFrom(2)

\* oem idpgetblk: getNextBlockDevice skips containers and names the next
\* partition; "done" without INFO when there is none, or it has no device.
IdpGetBlk == GetBlkFrom(1)

\* crypt_deactivate fails on a mapping that is open; what Close() returns is
\* not looked at.
DoneClosing(closes) ==
  /\ pc = "idle"
  /\ Reply("idpdone", "OKAY", 0)
  /\ \/ (state = "None" \/ ~closes) /\ UNCHANGED <<mapped, nodes>>
     \/ /\ state # "None" /\ closes
        /\ mapped' = mapped \cap held
        /\ nodes' \in SUBSET {i \in nodes : parts[i].parent \in held}
  /\ state' = "None" /\ parts' = None /\ blk' = {}
  /\ UNCHANGED <<staged, cookie, pc, cur, table, kview, held, flashing, offered>>

\* Mutant of IdpDone: only a provisioning that succeeded is tidied up.
IdpDoneTidy == DoneClosing(state = "Partitioned")

\* oem idpdone: endProvision closes every container, whatever the state, and
\* reports success; idp is destroyed.
IdpDone == DoneClosing(TRUE)

\* The host goes away and comes back: the FastbootDevice and its idp are
\* destroyed.  ~IDPdevice closes nothing.
Reconnect ==
  /\ pc = "idle"
  /\ staged' = None /\ state' = "None" /\ parts' = None /\ blk' = {}
  /\ reply' = [cmd |-> "none", status |-> "none", info |-> 0]
  /\ UNCHANGED <<cookie, pc, cur, disk, flashing, offered>>

\* A TCP worker's Flash() opens and closes a root partition the kernel knows.
FlashStart(i) ==
  /\ flashing = 0 /\ i \notin mapped
  /\ i \in DOMAIN kview /\ kview[i].parent = 0
  /\ flashing' = i
  /\ UNCHANGED <<staged, state, parts, blk, cookie, pc, cur, disk, offered, reply>>

FlashEnd ==
  /\ flashing # 0
  /\ flashing' = 0
  /\ UNCHANGED <<staged, state, parts, blk, cookie, pc, cur, disk, offered, reply>>

\* Another session flashes or mounts what is inside a container.
Hold(c) ==
  /\ c \in mapped \ held
  /\ held' = held \cup {c}
  /\ UNCHANGED <<staged, state, parts, blk, cookie, pc, cur, table, kview,
                 mapped, nodes, flashing, offered, reply>>

Release(c) ==
  /\ c \in held
  /\ held' = held \ {c}
  /\ UNCHANGED <<staged, state, parts, blk, cookie, pc, cur, table, kview,
                 mapped, nodes, flashing, offered, reply>>

Next ==
  \/ \E l \in Layouts : Stage(l)
  \/ IdpInit \/ IdpWrite \/ WritePhysicalPartitions \/ RereadTable \/ ProbeRoots
  \/ CreateOpenLuks \/ PartitionLuks \/ ProbeChildren
  \/ IdpGetBlk \/ IdpDone \/ Reconnect
  \/ \E i \in DOMAIN kview : FlashStart(i)
  \/ FlashEnd
  \/ \E c \in mapped : Hold(c) \/ Release(c)

Spec == Init /\ [][Next]_vars
----------------------------------------------------------------------------
States == {"None", "Ready", "Writing", "Partitioned", "Error"}

\* Every variable has its type.
TypeOK ==
  /\ staged \in Layouts \cup {None}
  /\ state \in States
  /\ parts \in Layouts \cup {None} /\ (parts = None <=> state = "None")
  /\ blk \subseteq Indexes
  /\ cookie \in Nat \ {0}
  /\ pc \in {"idle", "ptable", "reread", "probe", "luks", "parted", "children"}
  /\ pc # "idle" <=> state = "Writing"
  /\ cur \in Containers \cup {0}
  /\ table \in Layouts \cup {None} /\ kview \in Layouts \cup {None}
  /\ mapped \subseteq Nat /\ held \subseteq mapped /\ nodes \subseteq Nat /\ offered \subseteq Nat
  /\ flashing \in Nat
  /\ reply.status \in {"none", "OKAY", "FAIL"} /\ reply.info \in Nat

\* From idpinit until idpwrite reaches its containers no dm-crypt mapping is
\* active: mappings left by a session that vanished after idpwrite are never
\* taken for the new provisioning's, because the readiness probe refuses the
\* disk while they last.
FreshMappings ==
  (state = "Ready" \/ pc \in {"ptable", "reread", "probe"}) => mapped = {}

\* While provisioned, the kernel works from the table that idpwrite wrote, and
\* every device idpgetblk would name exists: its root partition, or the mapping
\* (and the kpartx node) of its container.
PartitionedIsReal ==
  state = "Partitioned" =>
    /\ table = parts /\ kview = parts
    /\ \A i \in blk \ Roots :
         /\ parts[i].parent \in mapped
         /\ parts[parts[i].parent].etype = "partitioned" => i \in nodes

\* The host's loop over idpgetblk ends, at a reply without INFO, only when every
\* partition with an image has been named, if idpwrite gave every one a device.
WalkComplete ==
  (/\ state = "Partitioned" /\ Images \subseteq blk
   /\ reply.cmd = "idpgetblk" /\ reply.info = 0) => offered = Images

\* idpdone leaves no container open but those another session has open, after a
\* provisioning that failed half-way too (CloseCryptPartitions runs in every
\* state).
DoneClosesAll ==
  [][(reply'.cmd = "idpdone" /\ state # "None" /\ state' = "None") => mapped' \subseteq held]_vars

\* README.md:119 - idpwrite creates all partitions: when it has succeeded every
\* partition with an image has a device.
WriteCreatesAll == state = "Partitioned" => Images \subseteq blk
============================================================================
