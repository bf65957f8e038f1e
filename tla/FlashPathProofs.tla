-------------------------- MODULE FlashPathProofs --------------------------
(***************************************************************************)
(* Proofs about FlashPath for any sessions, partitions and images: type    *)
(* correctness, the exclusion of writers by O_EXCL, the safety of mounted  *)
(* filesystems; and, where sessions use partitions only (or, for what was  *)
(* flashed, keep to the alignment), that a flashed image and the hashes of *)
(* a verity tree are of what the device holds.                             *)
(***************************************************************************)
EXTENDS FlashPath, TLAPS

\* veritysetup works on partitions, and has hashed the first part at "hash2".
VerityInv ==
  \A t \in Threads : pc[t] \in VerityLabels =>
    /\ target[t] \in Parts
    /\ pc[t] = "hash2" => \E v \in Values : seen[t] = <<v>>

TypeInv == TypeOK /\ VerityInv

\* Constants are where the code has them.
LEMMA Constants ==
  /\ Control \in Threads /\ NoThread \notin Threads
  /\ Disk \in Devices /\ NoDev \notin Devices /\ Parts \subseteq Devices
  /\ Targets \subseteq Devices
  /\ <<Disk, 1>> \in Blocks
  /\ \A p \in Parts : <<p, 1>> \in Blocks /\ <<p, 2>> \in Blocks
  /\ MaxImages \in Nat /\ 0 \in Values
BY ThreadsAssumption, DevicesAssumption, ImagesAssumption
   DEF Threads, Devices, Blocks, Values

\* A write of an image leaves well-typed content.
LEMMA WriteType ==
  ASSUME content \in [Blocks -> Values], NEW b, NEW v \in Values
  PROVE  Write(b, v) \in [Blocks -> Values]
BY SMTT(40) DEF Write

\* A session that is in a handler works on a device.
LEMMA TargetType ==
  ASSUME TypeOK, NEW t \in Threads, pc[t] # "idle"
  PROVE  target[t] \in Devices
BY SMTT(40) DEF TypeOK

\* Every action keeps TypeInv.
LEMMA TypeStep == TypeInv /\ [Next]_vars => TypeInv'
<1> SUFFICES ASSUME TypeInv, [Next]_vars PROVE TypeInv'
  OBVIOUS
<1> USE Constants DEF TypeInv, TypeOK, VerityInv, FlashLabels, VerityLabels,
        Goto, Fail, Reply, Silent, NoReply
<1>1. ASSUME NEW t \in Threads, Download(t) PROVE TypeInv'
  BY <1>1, SMTT(40) DEF Download, Values
<1>2. ASSUME NEW t \in Threads, NEW d \in Targets, FlashCommand(t, d) PROVE TypeInv'
  BY <1>2 DEF FlashCommand
<1>3. ASSUME NEW t \in Threads, FlashAcquire(t) PROVE TypeInv'
  BY <1>3 DEF FlashAcquire, Acquire
<1>4. ASSUME NEW t \in Threads, FlashOpen(t) PROVE TypeInv'
  BY <1>4, SMTT(40) DEF FlashOpen
<1>5. ASSUME NEW t \in Threads, FlashConsume(t) PROVE TypeInv'
  BY <1>5, SMTT(40) DEF FlashConsume, NoImage
<1>6. ASSUME NEW t \in Threads, FlashBody(t) PROVE TypeInv'
  <2>1. content' \in [Blocks -> Values]
    BY <1>6, WriteType DEF FlashBody
  <2> QED BY <1>6, <2>1, SMTT(40) DEF FlashBody
<1>7. ASSUME NEW t \in Threads, FlashReset(t) PROVE TypeInv'
  BY <1>7 DEF FlashReset
<1>8. ASSUME NEW t \in Threads, FlashReopen(t) PROVE TypeInv'
  BY <1>8, SMTT(40) DEF FlashReopen
<1>9. ASSUME NEW t \in Threads, FlashTail(t) PROVE TypeInv'
  <2>1. content' \in [Blocks -> Values]
    BY <1>9, WriteType DEF FlashTail
  <2> QED BY <1>9, <2>1, SMTT(40) DEF FlashTail
<1>10. ASSUME NEW t \in Threads, FlashReread(t) PROVE TypeInv'
  <2>1. content[<<Disk, 1>>] \in Values
    OBVIOUS
  <2>2. kview' \in Values
    BY <1>10, <2>1 DEF FlashReread
  <2>3. CASE ~PartitionInUse
    BY <1>10, <2>2, <2>3, SMTT(40) DEF FlashReread
  <2>4. CASE PartitionInUse
    BY <1>10, <2>2, <2>4, SMTT(40) DEF FlashReread
  <2> QED BY <2>3, <2>4
<1>11. ASSUME NEW t \in Threads, FlashUnlock(t) PROVE TypeInv'
  BY <1>11 DEF FlashUnlock
<1>12. ASSUME NEW t \in Threads, FlashClose(t) PROVE TypeInv'
  BY <1>12 DEF FlashClose, NoImage
<1>13. ASSUME NEW d \in Targets, Erase(Control, d) PROVE TypeInv'
  BY <1>13 DEF Erase, WipeBlockDevice, BlockDeviceSize, OpenPartitionFd
<1>14. ASSUME NEW p \in Parts, VerityAppend(Control, p) PROVE TypeInv'
  BY <1>14 DEF VerityAppend
<1>15. ASSUME NEW p \in Parts, VeritySetup(Control, p) PROVE TypeInv'
  BY <1>15 DEF VeritySetup
<1>16. ASSUME NEW p \in Parts, Mount(Control, p) PROVE TypeInv'
  BY <1>16 DEF Mount
<1>17. ASSUME NEW p \in Parts, Umount(Control, p) PROVE TypeInv'
  BY <1>17 DEF Umount
<1>18. CASE VerityAcquire(Control)
  BY <1>18 DEF VerityAcquire, Acquire
<1>19. CASE VerityHash(Control)
  <2>1. CASE pc[Control] = "hash1"
    <3>1. content[<<target[Control], 1>>] \in Values
      BY <2>1, ZenonT(60)
    <3>2. seen' = [seen EXCEPT ![Control] = <<content[<<target[Control], 1>>]>>]
      BY <1>19, <2>1 DEF VerityHash
    <3>3. seen' \in [Threads -> {<<>>} \cup {<<v>> : v \in Values} \cup Values \X Values]
      BY <3>1, <3>2
    <3>4. seen'[Control] = <<content[<<target[Control], 1>>]>>
      BY <3>2
    <3>5. VerityInv'
      BY <1>19, <2>1, <3>1, <3>2, <3>4 DEF VerityHash
    <3>6. TypeOK'
      BY <1>19, <2>1, <3>3 DEF VerityHash
    <3> QED BY <3>5, <3>6
  <2>2. CASE pc[Control] = "hash2"
    <3>0. PICK h \in Values : seen[Control] = <<h>>
      BY <2>2
    <3>1. content[<<target[Control], 2>>] \in Values /\ seen[Control][1] \in Values
      <4>1. target[Control] \in Parts
        BY <2>2
      <4>2. content[<<target[Control], 2>>] \in Values
        BY <4>1, ZenonT(60)
      <4>3. <<h>>[1] = h
        OBVIOUS
      <4> QED BY <3>0, <4>2, <4>3
    <3>2. seen' = [seen EXCEPT ![Control] =
                     <<seen[Control][1], content[<<target[Control], 2>>]>>]
      BY <1>19, <2>2 DEF VerityHash
    <3>3. seen' \in [Threads -> {<<>>} \cup {<<v>> : v \in Values} \cup Values \X Values]
      BY <3>1, <3>2
    <3>4. VerityInv'
      BY <1>19, <2>2, <3>2 DEF VerityHash
    <3>5. TypeOK'
      <4>1. pc' = [pc EXCEPT ![Control] = "sign"] /\ reply' = NoReply
        BY <1>19, <2>2 DEF VerityHash
      <4>2. UNCHANGED <<content, nextImage, staged, mutex, claim, mounted, kview,
                        target, image, result>>
        BY <1>19, <2>2 DEF VerityHash
      <4>3. pc' \in [Threads -> {"idle"} \cup FlashLabels \cup VerityLabels]
        BY <4>1
      <4>4. \A t \in Threads : pc'[t] = "idle" <=> target'[t] = NoDev
        BY <2>2, <4>1, <4>2
      <4> QED BY <3>3, <4>1, <4>2, <4>3, <4>4
    <3> QED BY <3>4, <3>5
  <2> QED BY <1>19, <2>1, <2>2 DEF VerityHash
<1>20. CASE VeritySign(Control)
  BY <1>20 DEF VeritySign
<1>21. CASE UNCHANGED vars
  BY <1>21 DEF vars
<1> QED
  BY <1>1, <1>2, <1>3, <1>4, <1>5, <1>6, <1>7, <1>8, <1>9, <1>10, <1>11, <1>12,
     <1>13, <1>14, <1>15, <1>16, <1>17, <1>18, <1>19, <1>20, <1>21, ZenonT(60)
     DEF Next, Flash, Verity

\* Type correctness of the flash, erase, verity and mount paths.
THEOREM TypeCorrect == Spec => []TypeOK
<1>1. Init => TypeInv
  BY Constants DEF Init, TypeInv, TypeOK, VerityInv, FlashLabels, VerityLabels, NoReply,
     Factory, NoImage
<1>2. TypeInv => TypeOK
  BY DEF TypeInv
<1> QED BY <1>1, <1>2, TypeStep, PTL DEF Spec
----------------------------------------------------------------------------
Claiming == {"consume", "body", "reset", "tail", "reread"}

\* What the descriptors opened with O_EXCL amount to.  A session that is past
\* FlashOpen, and not in the window of PartitionHandle::Reset, has its target
\* claimed, and veritysetup claims nothing; a claim is always on the target; claims
\* overlap neither each other nor a mounted partition, because each was granted
\* when nobody else had one.
ClaimOnTarget ==
  \A t \in Threads : claim[t] # NoDev => claim[t] = target[t]
ClaimHeld ==
  \A t \in Threads :
    /\ pc[t] \in Claiming => claim[t] = target[t]
    /\ pc[t] \in VerityLabels => claim[t] = NoDev
ClaimsDisjoint ==
  \A t, u \in Threads :
    (t # u /\ claim[t] # NoDev /\ claim[u] # NoDev) => ~Overlap(claim[t], claim[u])
ClaimsUnmounted ==
  \A t \in Threads : claim[t] # NoDev => \A p \in mounted : ~Overlap(claim[t], p)

ClaimInv == ClaimOnTarget /\ ClaimHeld /\ ClaimsDisjoint /\ ClaimsUnmounted

\* Overlap does not care for the order of its arguments.
LEMMA OverlapSymmetric ==
  ASSUME NEW d, NEW e
  PROVE  Overlap(d, e) <=> Overlap(e, d)
BY DEF Overlap

\* An exclusive open that the kernel grants keeps ClaimInv.
LEMMA Granted ==
  ASSUME TypeOK, ClaimInv, NEW t \in Threads, pc[t] # "idle",
         ~Busy(t, target[t]),
         claim' = [claim EXCEPT ![t] = target[t]],
         UNCHANGED <<target, mounted>>
  PROVE  ClaimOnTarget' /\ ClaimsDisjoint' /\ ClaimsUnmounted'
<1>1. target[t] # NoDev /\ claim'[t] = target[t]
  BY DEF TypeOK
<1>2. \A u \in Threads \ {t} : claim'[u] = claim[u]
  BY DEF TypeOK
<1>3. ClaimOnTarget'
  BY <1>1, <1>2 DEF ClaimInv, ClaimOnTarget
<1>4. \A u \in Threads \ {t} : claim[u] # NoDev => ~Overlap(target[t], claim[u])
  BY DEF Busy
<1>5. ClaimsDisjoint'
  <2> SUFFICES ASSUME NEW v \in Threads, NEW u \in Threads, v # u,
                      claim'[v] # NoDev, claim'[u] # NoDev
               PROVE  ~Overlap(claim'[v], claim'[u])
    BY DEF ClaimsDisjoint, Overlap
  <2>1. CASE v = t
    BY <1>1, <1>2, <1>4, <2>1
  <2>2. CASE u = t
    BY <1>1, <1>2, <1>4, <2>2, OverlapSymmetric
  <2>3. CASE v # t /\ u # t
    BY <1>2, <2>3 DEF ClaimInv, ClaimsDisjoint
  <2> QED BY <2>1, <2>2, <2>3
<1>6. ClaimsUnmounted'
  BY <1>1, <1>2 DEF ClaimInv, ClaimsUnmounted, Busy, Overlap
<1> QED BY <1>3, <1>5, <1>6

\* So does closing a descriptor.
LEMMA Dropped ==
  ASSUME TypeOK, ClaimInv, NEW t \in Threads,
         claim' = [claim EXCEPT ![t] = NoDev],
         \A u \in Threads \ {t} : target'[u] = target[u],
         UNCHANGED mounted
  PROVE  ClaimOnTarget' /\ ClaimsDisjoint' /\ ClaimsUnmounted'
<1>1. claim'[t] = NoDev /\ \A u \in Threads \ {t} : claim'[u] = claim[u]
  BY DEF TypeOK
<1> QED BY <1>1 DEF ClaimInv, ClaimOnTarget, ClaimsDisjoint, ClaimsUnmounted, Overlap

\* A step that leaves the claims, and the targets of claiming sessions, alone
\* keeps the first, third and fourth part of ClaimInv as long as it mounts nothing.
LEMMA Kept ==
  ASSUME ClaimInv, UNCHANGED claim, mounted' \subseteq mounted,
         \A u \in Threads : claim[u] # NoDev => target'[u] = target[u]
  PROVE  ClaimOnTarget' /\ ClaimsDisjoint' /\ ClaimsUnmounted'
BY DEF ClaimInv, ClaimOnTarget, ClaimsDisjoint, ClaimsUnmounted, Overlap

\* An idle session has no claim: its target is NoDev, and claims are on targets.
LEMMA IdleUnclaimed ==
  ASSUME TypeOK, ClaimInv, NEW t \in Threads, pc[t] = "idle"
  PROVE  claim[t] = NoDev
BY DEF TypeOK, ClaimInv, ClaimOnTarget

\* Every action keeps ClaimInv.
LEMMA ClaimStep == TypeInv /\ ClaimInv /\ [Next]_vars => ClaimInv'
<1> SUFFICES ASSUME TypeInv, ClaimInv, [Next]_vars PROVE ClaimInv'
  OBVIOUS
<1>0. TypeOK /\ ClaimHeld /\ VerityInv
  BY DEF TypeInv, ClaimInv
<1> USE <1>0 DEF Goto, Fail, Claiming, VerityLabels
<1>t. pc \in [Threads -> {"idle"} \cup FlashLabels \cup VerityLabels]
      /\ target \in [Threads -> Devices \cup {NoDev}]
      /\ claim \in [Threads -> Devices \cup {NoDev}]
  BY DEF TypeOK
<1>1. ASSUME NEW t \in Threads, Download(t) PROVE ClaimInv'
  BY <1>1, Kept DEF Download, ClaimInv, ClaimHeld
<1>2. ASSUME NEW t \in Threads, NEW d \in Targets, FlashCommand(t, d) PROVE ClaimInv'
  BY <1>2, <1>t, Kept, IdleUnclaimed DEF FlashCommand, ClaimInv, ClaimHeld
<1>3. ASSUME NEW t \in Threads, FlashAcquire(t) PROVE ClaimInv'
  BY <1>3, <1>t, Kept DEF FlashAcquire, Acquire, ClaimInv, ClaimHeld
<1>4. ASSUME NEW t \in Threads, FlashOpen(t) PROVE ClaimInv'
  <2>1. CASE UNCHANGED claim /\ Goto(t, "unlock")
    BY <1>4, <1>t, <2>1, Kept DEF FlashOpen, ClaimInv, ClaimHeld
  <2>2. CASE ~Busy(t, target[t]) /\ claim' = [claim EXCEPT ![t] = target[t]] /\ Goto(t, "consume")
    <3>1. ClaimOnTarget' /\ ClaimsDisjoint' /\ ClaimsUnmounted'
      BY <1>4, <2>2, Granted DEF FlashOpen
    <3>2. ClaimHeld'
      BY <1>4, <1>t, <2>2 DEF FlashOpen, ClaimHeld
    <3> QED BY <3>1, <3>2 DEF ClaimInv
  <2> QED BY <1>4, <2>1, <2>2 DEF FlashOpen
<1>5. ASSUME NEW t \in Threads, FlashConsume(t) PROVE ClaimInv'
  BY <1>5, <1>t, Kept DEF FlashConsume, ClaimInv, ClaimHeld
<1>6. ASSUME NEW t \in Threads, FlashBody(t) PROVE ClaimInv'
  BY <1>6, <1>t, Kept DEF FlashBody, ClaimInv, ClaimHeld
<1>7. ASSUME NEW t \in Threads, FlashReset(t) PROVE ClaimInv'
  <2>1. ClaimOnTarget' /\ ClaimsDisjoint' /\ ClaimsUnmounted'
    BY <1>7, Dropped DEF FlashReset
  <2>2. ClaimHeld'
    BY <1>7, <1>t DEF FlashReset, ClaimHeld
  <2> QED BY <2>1, <2>2 DEF ClaimInv
<1>8. ASSUME NEW t \in Threads, FlashReopen(t) PROVE ClaimInv'
  <2>1. CASE UNCHANGED claim /\ Goto(t, "unlock")
    BY <1>8, <1>t, <2>1, Kept DEF FlashReopen, ClaimInv, ClaimHeld
  <2>2. CASE ~Busy(t, target[t]) /\ claim' = [claim EXCEPT ![t] = target[t]] /\ Goto(t, "tail")
    <3>1. ClaimOnTarget' /\ ClaimsDisjoint' /\ ClaimsUnmounted'
      BY <1>8, <2>2, Granted DEF FlashReopen
    <3>2. ClaimHeld'
      BY <1>8, <1>t, <2>2 DEF FlashReopen, ClaimHeld
    <3> QED BY <3>1, <3>2 DEF ClaimInv
  <2> QED BY <1>8, <2>1, <2>2 DEF FlashReopen
<1>9. ASSUME NEW t \in Threads, FlashTail(t) PROVE ClaimInv'
  BY <1>9, <1>t, Kept DEF FlashTail, ClaimInv, ClaimHeld
<1>10. ASSUME NEW t \in Threads, FlashReread(t) PROVE ClaimInv'
  BY <1>10, <1>t, Kept DEF FlashReread, ClaimInv, ClaimHeld
<1>11. ASSUME NEW t \in Threads, FlashUnlock(t) PROVE ClaimInv'
  BY <1>11, <1>t, Kept DEF FlashUnlock, ClaimInv, ClaimHeld
<1>12. ASSUME NEW t \in Threads, FlashClose(t) PROVE ClaimInv'
  <2>1. ClaimOnTarget' /\ ClaimsDisjoint' /\ ClaimsUnmounted'
    BY <1>12, <1>t, Dropped DEF FlashClose
  <2>2. ClaimHeld'
    BY <1>12, <1>t DEF FlashClose, ClaimHeld
  <2> QED BY <2>1, <2>2 DEF ClaimInv
<1>13. ASSUME NEW d \in Targets, Erase(Control, d) PROVE ClaimInv'
  BY <1>13, Kept DEF Erase, ClaimInv, ClaimHeld
<1>14. ASSUME NEW p \in Parts, VerityAppend(Control, p) PROVE ClaimInv'
  BY <1>14, Kept DEF VerityAppend, ClaimInv, ClaimHeld
<1>15. ASSUME NEW p \in Parts, VeritySetup(Control, p) PROVE ClaimInv'
  BY <1>15, <1>t, Kept, IdleUnclaimed, Constants DEF VeritySetup, ClaimInv, ClaimHeld
<1>16. ASSUME NEW p \in Parts, Mount(Control, p) PROVE ClaimInv'
  <2>1. CASE UNCHANGED mounted \/ p \in mounted
    <3>1. mounted' \subseteq mounted
      BY <1>16, <2>1 DEF Mount
    <3> QED BY <1>16, <3>1, Kept DEF Mount, ClaimInv, ClaimHeld
  <2>2. CASE ~Busy(Control, p) /\ mounted' = mounted \cup {p}
    <3>1. claim[Control] = NoDev
      BY <1>16, IdleUnclaimed, Constants DEF Mount
    <3>2. \A u \in Threads : claim[u] # NoDev => ~Overlap(claim[u], p)
      BY <2>2, <3>1, OverlapSymmetric DEF Busy
    <3>3. ClaimsUnmounted'
      BY <1>16, <2>2, <3>2 DEF Mount, ClaimInv, ClaimsUnmounted, Overlap
    <3> QED
      BY <1>16, <3>3 DEF Mount, ClaimInv, ClaimOnTarget, ClaimHeld, ClaimsDisjoint, Overlap
  <2> QED BY <1>16, <2>1, <2>2 DEF Mount
<1>17. ASSUME NEW p \in Parts, Umount(Control, p) PROVE ClaimInv'
  BY <1>17, Kept DEF Umount, ClaimInv, ClaimHeld
<1>18. CASE VerityAcquire(Control)
  BY <1>18, <1>t, Kept, Constants DEF VerityAcquire, Acquire, ClaimInv, ClaimHeld
<1>19. CASE VerityHash(Control)
  BY <1>19, <1>t, Kept, Constants DEF VerityHash, ClaimInv, ClaimHeld
<1>20. CASE VeritySign(Control)
  <2>1. claim[Control] = NoDev
    BY <1>20, Constants DEF VeritySign, ClaimHeld
  <2>2. \A u \in Threads : claim[u] # NoDev => target'[u] = target[u]
    BY <1>20, <1>t, <2>1 DEF VeritySign
  <2>3. ClaimOnTarget' /\ ClaimsDisjoint' /\ ClaimsUnmounted'
    BY <1>20, <2>2, Kept DEF VeritySign
  <2>4. ClaimHeld'
    BY <1>20, <1>t, <2>1, <2>2, Constants DEF VeritySign, ClaimHeld
  <2> QED BY <2>3, <2>4 DEF ClaimInv
<1>21. CASE UNCHANGED vars
  BY <1>21, Kept DEF vars, ClaimInv, ClaimHeld
<1> QED
  BY <1>1, <1>2, <1>3, <1>4, <1>5, <1>6, <1>7, <1>8, <1>9, <1>10, <1>11, <1>12,
     <1>13, <1>14, <1>15, <1>16, <1>17, <1>18, <1>19, <1>20, <1>21
     DEF Next, Flash, Verity

\* The inductive invariant of the flash path.
SafeInv == TypeInv /\ ClaimInv

\* Initially nothing is open, mounted or running, and every step keeps it so
\* that what is open is open to one session.
LEMMA SafeAlways == Spec => []SafeInv
<1>1. Init => SafeInv
  <2>1. Init => TypeInv
    BY Constants DEF Init, TypeInv, TypeOK, VerityInv, FlashLabels, VerityLabels, NoReply,
       Factory, NoImage
  <2>2. Init => ClaimInv
    BY DEF Init, ClaimInv, ClaimOnTarget, ClaimHeld, ClaimsDisjoint, ClaimsUnmounted,
       Claiming, VerityLabels
  <2> QED BY <2>1, <2>2 DEF SafeInv
<1>2. SafeInv /\ [Next]_vars => SafeInv'
  BY TypeStep, ClaimStep DEF SafeInv
<1> QED BY <1>1, <1>2, PTL DEF Spec

\* Writers exclude each other and mounted filesystems, for any number of
\* sessions and partitions: the claim a writing session holds is its target,
\* and claims are disjoint.
THEOREM WritersExcluded == Spec => []WritersExclude
<1>1. SafeInv => WritersExclude
  <2> SUFFICES ASSUME SafeInv, NEW t \in Threads, Writing(t)
               PROVE  /\ \A u \in Threads \ {t} :
                            Writing(u) => ~Overlap(target[t], target[u])
                      /\ \A p \in mounted : ~Overlap(target[t], p)
    BY DEF WritersExclude
  <2>1. \A u \in Threads : Writing(u) => claim[u] = target[u] /\ claim[u] # NoDev
    BY DEF SafeInv, TypeInv, TypeOK, ClaimInv, ClaimHeld, Writing, Claiming
  <2> QED BY <2>1 DEF SafeInv, ClaimInv, ClaimsDisjoint, ClaimsUnmounted
<1> QED BY <1>1, SafeAlways, PTL

\* Devices that do not overlap have no block in common.
LEMMA ExtentsDisjoint ==
  ASSUME NEW d \in Devices, NEW p \in Parts, ~Overlap(d, p), NEW b \in Extent(p)
  PROVE  b \notin Extent(d)
BY DevicesAssumption DEF Extent, Overlap, Devices

\* A write stays inside its device.
LEMMA PartsOfExtent ==
  ASSUME NEW d \in Devices
  PROVE  Body(d) \subseteq Extent(d) /\ Tail(d) \subseteq Extent(d)
BY DEF Body, Tail, Extent, Blocks, Devices

\* A step of a writing session changes content inside its target only.
LEMMA WritesInsideTarget ==
  ASSUME TypeOK, NEW t \in Threads, FlashBody(t) \/ FlashTail(t),
         NEW b \in Blocks, b \notin Extent(target[t])
  PROVE  content'[b] = content[b]
<1>1. Body(target[t]) \subseteq Extent(target[t]) /\ Tail(target[t]) \subseteq Extent(target[t])
  BY TargetType, PartsOfExtent DEF FlashBody, FlashTail
<1>2. CASE FlashBody(t)
  <2>1. PICK s \in SUBSET Body(target[t]) : content' = Write(s, image[t])
    BY <1>2 DEF FlashBody
  <2> QED BY <1>1, <2>1 DEF Write
<1>3. CASE FlashTail(t)
  <2>1. CASE content' = Write(Tail(target[t]), image[t])
    BY <1>1, <2>1 DEF Write
  <2> QED BY <1>3, <2>1 DEF FlashTail
<1> QED BY <1>2, <1>3

\* Only the write steps of Flash() change content: erase, through a handle
\* that was never opened, does not.
LEMMA OnlyWritersWrite ==
  ASSUME [Next]_vars, \A t \in Threads : ~FlashBody(t) /\ ~FlashTail(t)
  PROVE  UNCHANGED content
<1>1. CASE UNCHANGED vars
  BY <1>1 DEF vars
<1>2. ASSUME NEW d \in Targets, Erase(Control, d) PROVE UNCHANGED content
  BY <1>2 DEF Erase, WipeBlockDevice, BlockDeviceSize, OpenPartitionFd
<1>3. ASSUME NEW t \in Threads, Flash(t) PROVE UNCHANGED content
  BY <1>3 DEF Flash, FlashAcquire, Acquire, FlashOpen, FlashConsume, FlashReset,
     FlashReopen, FlashReread, FlashUnlock, FlashClose
<1>4. CASE Verity(Control)
  BY <1>4 DEF Verity, VerityAcquire, Acquire, VerityHash, VeritySign
<1> QED
  BY <1>1, <1>2, <1>3, <1>4
     DEF Next, Download, FlashCommand, VerityAppend, VeritySetup, Mount, Umount

\* No flash, whole-disk flashes and the reopening in PartitionHandle::Reset
\* included, changes a block of a mounted partition.
THEOREM MountedSafe == Spec => MountedUntouched
<1>1. ASSUME SafeInv, [Next]_vars,
             NEW p \in mounted \cap mounted', NEW b \in Extent(p)
      PROVE  content'[b] = content[b]
  <2>1. TypeOK /\ p \in Parts /\ p # Disk
    BY <1>1, DevicesAssumption DEF SafeInv, TypeInv, TypeOK
  <2>2. b \in Blocks
    BY <1>1, <2>1 DEF Extent, Blocks
  <2>3. ASSUME NEW t \in Threads, FlashBody(t) \/ FlashTail(t)
        PROVE  content'[b] = content[b]
    <3>1. pc[t] \in {"body", "tail"}
      BY <2>3 DEF FlashBody, FlashTail
    <3>2. target[t] \in Devices
      BY <2>1, <3>1, TargetType
    <3>3. claim[t] = target[t] /\ claim[t] # NoDev
      BY <1>1, <3>1, <3>2, Constants DEF SafeInv, ClaimInv, ClaimHeld, Claiming
    <3>4. ~Overlap(target[t], p)
      BY <1>1, <3>3 DEF SafeInv, ClaimInv, ClaimsUnmounted
    <3>5. b \notin Extent(target[t])
      BY <2>1, <3>2, <3>4, <1>1, ExtentsDisjoint
    <3> QED BY <2>1, <2>2, <2>3, <3>5, WritesInsideTarget
  <2> QED BY <1>1, <2>3, OnlyWritersWrite
<1>2. SafeInv /\ [Next]_vars =>
        [\A p \in mounted \cap mounted' : \A b \in Extent(p) : content'[b] = content[b]]_vars
  BY <1>1, SMTT(40)
<1> QED BY <1>2, SafeAlways, PTL DEF Spec, MountedUntouched
----------------------------------------------------------------------------
\* Every action keeps MutexHeldByUser.
LEMMA MutexStep == TypeInv /\ MutexHeldByUser /\ [Next]_vars => MutexHeldByUser'
<1> SUFFICES ASSUME TypeInv, MutexHeldByUser, [Next]_vars PROVE MutexHeldByUser'
  OBVIOUS
<1>0. /\ mutex \in [Devices -> Threads \cup {NoThread}]
      /\ pc \in [Threads -> {"idle"} \cup FlashLabels \cup VerityLabels]
      /\ target \in [Threads -> Devices \cup {NoDev}]
      /\ \A t \in Threads : pc[t] = "idle" <=> target[t] = NoDev
  BY DEF TypeInv, TypeOK
<1> USE <1>0, Constants DEF MutexHeldByUser, FlashLabels, Goto, Fail
<1>1. ASSUME NEW t \in Threads, Download(t) PROVE MutexHeldByUser'
  BY <1>1 DEF Download
<1>2. ASSUME NEW t \in Threads, NEW d \in Targets, FlashCommand(t, d) PROVE MutexHeldByUser'
  BY <1>2 DEF FlashCommand
<1>3. ASSUME NEW t \in Threads, Flash(t) PROVE MutexHeldByUser'
  <2>1. CASE FlashAcquire(t)
    BY <2>1 DEF FlashAcquire, Acquire
  <2>2. CASE FlashOpen(t) \/ FlashConsume(t) \/ FlashBody(t)
    BY <2>2 DEF FlashOpen, FlashConsume, FlashBody
  <2>3. CASE FlashReset(t) \/ FlashReopen(t) \/ FlashTail(t) \/ FlashReread(t)
    BY <2>3 DEF FlashReset, FlashReopen, FlashTail, FlashReread
  <2>4. CASE FlashUnlock(t)
    BY <2>4 DEF FlashUnlock
  <2>5. CASE FlashClose(t)
    BY <2>5 DEF FlashClose
  <2> QED BY <1>3, <2>1, <2>2, <2>3, <2>4, <2>5 DEF Flash
<1>4. ASSUME NEW d \in Targets, Erase(Control, d) PROVE MutexHeldByUser'
  BY <1>4 DEF Erase
<1>5. ASSUME NEW p \in Parts,
             VerityAppend(Control, p) \/ Mount(Control, p) \/ Umount(Control, p)
      PROVE  MutexHeldByUser'
  BY <1>5 DEF VerityAppend, Mount, Umount
<1>6. ASSUME NEW p \in Parts, VeritySetup(Control, p) PROVE MutexHeldByUser'
  BY <1>6 DEF VeritySetup
<1>7. CASE VerityAcquire(Control)
  BY <1>7 DEF VerityAcquire, Acquire
<1>8. CASE VerityHash(Control)
  BY <1>8 DEF VerityHash
<1>9. CASE VeritySign(Control)
  BY <1>9 DEF VeritySign
<1>10. CASE UNCHANGED vars
  BY <1>10 DEF vars
<1> QED
  BY <1>1, <1>2, <1>3, <1>4, <1>5, <1>6, <1>7, <1>8, <1>9, <1>10 DEF Next, Verity

\* Every return path of Flash() and of veritysetup gives the partition mutex
\* back, for any number of sessions.
THEOREM MutexReturned == Spec => []MutexHeldByUser
<1>1. Init => MutexHeldByUser
  BY SMTT(40) DEF Init, MutexHeldByUser
<1>2. SafeInv => TypeInv
  BY DEF SafeInv
<1> QED BY <1>1, <1>2, MutexStep, SafeAlways, PTL DEF Spec
----------------------------------------------------------------------------
Locked == (FlashLabels \ {"acquire", "close"}) \cup {"hash1", "hash2", "sign"}

\* What the partition mutexes amount to: a session past Acquire and not yet past
\* the guard's destructor holds the mutex of its target, so no two are on one path.
LockHeld ==
  \A t \in Threads : pc[t] \in Locked => mutex[target[t]] = t

\* Flash() works on what hosts name, and re-reads the table of a disk only.
FlashTargets ==
  \A t \in Threads :
    /\ pc[t] \in FlashLabels => target[t] \in Targets
    /\ pc[t] = "reread" => target[t] = Disk
    /\ pc[t] \in {"reset", "reopen"} => TRUE \in Unaligned

\* What Flash() has written is still there when it goes on.
FlashProgress ==
  \A t \in Threads :
    /\ pc[t] \in {"reset", "reopen", "tail"} =>
          \A b \in Body(target[t]) : content[b] = image[t]
    /\ pc[t] = "reread" => \A b \in Blocks : content[b] = image[t]

\* Only part_guard's session releases a mutex: LockHeld and FlashTargets are kept.
LEMMA LockStep ==
  TypeInv /\ LockHeld /\ FlashTargets /\ [Next]_vars => LockHeld' /\ FlashTargets'
<1> SUFFICES ASSUME TypeInv, LockHeld, FlashTargets, [Next]_vars
             PROVE  LockHeld' /\ FlashTargets'
  OBVIOUS
<1>0. /\ mutex \in [Devices -> Threads \cup {NoThread}]
      /\ pc \in [Threads -> {"idle"} \cup FlashLabels \cup VerityLabels]
      /\ target \in [Threads -> Devices \cup {NoDev}]
      /\ \A t \in Threads : pc[t] = "idle" <=> target[t] = NoDev
  BY DEF TypeInv, TypeOK
<1> USE <1>0, Constants DEF LockHeld, FlashTargets, Locked, FlashLabels, Goto, Fail
<1>1. ASSUME NEW t \in Threads, Download(t) PROVE LockHeld' /\ FlashTargets'
  BY <1>1 DEF Download
<1>2. ASSUME NEW t \in Threads, NEW d \in Targets, FlashCommand(t, d)
      PROVE  LockHeld' /\ FlashTargets'
  BY <1>2, ZenonT(60) DEF FlashCommand
<1>3. ASSUME NEW t \in Threads, Flash(t) PROVE LockHeld' /\ FlashTargets'
  <2>1. CASE FlashAcquire(t)
    BY <2>1, ZenonT(60) DEF FlashAcquire, Acquire
  <2>2. CASE FlashOpen(t) \/ FlashConsume(t)
    BY <2>2, ZenonT(60) DEF FlashOpen, FlashConsume
  <2>3. CASE FlashBody(t)
    BY <2>3, ZenonT(60) DEF FlashBody
  <2>4. CASE FlashReset(t) \/ FlashReopen(t)
    BY <2>4, ZenonT(60) DEF FlashReset, FlashReopen
  <2>5. CASE FlashTail(t) \/ FlashReread(t)
    BY <2>5, ZenonT(60) DEF FlashTail, FlashReread
  <2>6. CASE FlashUnlock(t)
    BY <2>6, ZenonT(60) DEF FlashUnlock
  <2>7. CASE FlashClose(t)
    BY <2>7, ZenonT(60) DEF FlashClose
  <2> QED BY <1>3, <2>1, <2>2, <2>3, <2>4, <2>5, <2>6, <2>7 DEF Flash
<1>4. ASSUME NEW d \in Targets, Erase(Control, d) PROVE LockHeld' /\ FlashTargets'
  BY <1>4 DEF Erase
<1>5. ASSUME NEW p \in Parts,
             VerityAppend(Control, p) \/ Mount(Control, p) \/ Umount(Control, p)
      PROVE  LockHeld' /\ FlashTargets'
  BY <1>5, ZenonT(60) DEF VerityAppend, Mount, Umount
<1>6. ASSUME NEW p \in Parts, VeritySetup(Control, p) PROVE LockHeld' /\ FlashTargets'
  BY <1>6 DEF VeritySetup
<1>7. CASE VerityAcquire(Control)
  BY <1>7, ZenonT(60) DEF VerityAcquire, Acquire
<1>8. CASE VerityHash(Control)
  BY <1>8, ZenonT(60) DEF VerityHash
<1>9. CASE VeritySign(Control)
  BY <1>9, ZenonT(60) DEF VeritySign
<1>10. CASE UNCHANGED vars
  BY <1>10 DEF vars
<1> QED
  BY <1>1, <1>2, <1>3, <1>4, <1>5, <1>6, <1>7, <1>8, <1>9, <1>10 DEF Next, Verity

\* Where hosts flash no whole disk, two sessions that hold mutexes are on
\* different partitions.
LEMMA PathsApart ==
  ASSUME TypeInv, LockHeld, FlashTargets, Disk \notin Targets,
         NEW t \in Threads, NEW u \in Threads, t # u,
         pc[t] \in Locked, pc[u] \in Locked
  PROVE  ~Overlap(target[t], target[u])
<1>1. ASSUME NEW v \in Threads, pc[v] \in Locked
      PROVE  target[v] \in Parts /\ mutex[target[v]] = v
  BY <1>1, DevicesAssumption, ZenonT(60)
     DEF TypeInv, VerityInv, LockHeld, FlashTargets, Locked, VerityLabels
<1> QED BY <1>1, DevicesAssumption DEF Overlap

\* Another session's write stays off the blocks of a session that is between its
\* own writes: the claims keep them apart, or in the window of
\* PartitionHandle::Reset the mutexes do.
LEMMA OthersWriteElsewhere ==
  ASSUME TypeInv, ClaimInv, LockHeld, FlashTargets,
         Disk \notin Targets \/ TRUE \notin Unaligned,
         NEW t \in Threads, pc[t] \in {"reset", "reopen", "tail", "reread"},
         NEW u \in Threads, u # t, FlashBody(u) \/ FlashTail(u),
         NEW b \in Extent(target[t])
  PROVE  content'[b] = content[b]
<1>1. TypeOK
  BY DEF TypeInv
<1>2. pc[u] \in {"body", "tail"}
  BY DEF FlashBody, FlashTail
<1>3. target[t] \in Devices /\ target[u] \in Devices
  BY <1>1, <1>2, TargetType
<1>4. ~Overlap(target[t], target[u])
  <2>1. CASE pc[t] = "reopen"
    <3>1. Disk \notin Targets
      BY <2>1 DEF FlashTargets
    <3> QED BY <2>1, <1>2, <3>1, PathsApart DEF Locked, FlashLabels
  <2>2. CASE pc[t] # "reopen"
    <3>1. claim[t] = target[t] /\ claim[u] = target[u]
      BY <1>2, <2>2 DEF ClaimInv, ClaimHeld, Claiming
    <3> QED BY <1>3, <3>1, Constants DEF ClaimInv, ClaimsDisjoint
  <2> QED BY <2>1, <2>2
<1>5. target[t] \in Parts /\ b \in Blocks
  BY <1>3, <1>4 DEF Overlap, Devices, Extent, Blocks
<1>6. b \notin Extent(target[u])
  BY <1>3, <1>4, <1>5, ExtentsDisjoint, OverlapSymmetric
<1> QED BY <1>1, <1>5, <1>6, WritesInsideTarget

\* The part of the disk before its last chunk, and the last chunk, make it up.
LEMMA BodyAndTail ==
  ASSUME NEW d \in Devices
  PROVE  Extent(d) = Body(d) \cup Tail(d) /\ Extent(d) \subseteq Blocks
BY DEF Body, Tail, Extent, Blocks, Devices

\* Every action keeps FlashProgress.
LEMMA ProgressStep ==
  ASSUME Disk \notin Targets \/ TRUE \notin Unaligned,
         TypeInv, ClaimInv, LockHeld, FlashTargets, FlashProgress, [Next]_vars
  PROVE  FlashProgress'
<1>0. TypeOK
  BY DEF TypeInv
<1>t. /\ pc \in [Threads -> {"idle"} \cup FlashLabels \cup VerityLabels]
      /\ target \in [Threads -> Devices \cup {NoDev}]
      /\ image \in [Threads -> Values] /\ content \in [Blocks -> Values]
  BY <1>0 DEF TypeOK
<1> DEFINE P(t) == /\ pc[t] \in {"reset", "reopen", "tail"} =>
                        \A b \in Body(target[t]) : content[b] = image[t]
                   /\ pc[t] = "reread" => \A b \in Blocks : content[b] = image[t]
\* A session whose own step this is not.
<1>1. ASSUME NEW t \in Threads, pc'[t] = pc[t], target'[t] = target[t], image'[t] = image[t],
             \A b \in Extent(target[t]) :
                pc[t] \in {"reset", "reopen", "tail", "reread"} => content'[b] = content[b]
      PROVE  P(t)'
  <2>1. pc[t] = "reread" => target[t] = Disk
    BY DEF FlashTargets
  <2>2. pc[t] \in {"reset", "reopen", "tail", "reread"} =>
           Body(target[t]) \subseteq Extent(target[t])
    BY <1>0, TargetType, PartsOfExtent
  <2>3. Extent(Disk) = Blocks
    BY DEF Extent
  <2> QED BY <1>1, <2>1, <2>2, <2>3 DEF FlashProgress
<1>2. ASSUME NEW t \in Threads, FlashBody(t) \/ FlashTail(t) PROVE FlashProgress'
  <2>0. pc[t] \in {"body", "tail"} /\ target[t] \in Devices /\ UNCHANGED <<target, image>>
        /\ \A u \in Threads \ {t} : pc'[u] = pc[u]
    BY <1>0, <1>2, <1>t, TargetType DEF FlashBody, FlashTail, Goto, Fail
  <2>1. ASSUME NEW u \in Threads, u # t PROVE P(u)'
    <3>1. \A b \in Extent(target[u]) :
             pc[u] \in {"reset", "reopen", "tail", "reread"} => content'[b] = content[b]
      BY <1>2, <2>1, OthersWriteElsewhere
    <3> QED BY <2>0, <2>1, <3>1, <1>1
  <2>2. CASE FlashBody(t)
    <3>1. ASSUME content' = Write(Body(target[t]), image[t]) PROVE P(t)'
      <4>1. \A b \in Body(target[t]) : content'[b] = image[t]
        BY <2>0, <3>1, BodyAndTail DEF Write
      <4>2. pc'[t] # "reread"
        BY <2>2, <1>t DEF FlashBody, Goto, Fail
      <4> QED BY <2>0, <4>1, <4>2
    <3>2. ASSUME Fail(t) PROVE P(t)'
      <4>1. pc'[t] = "unlock"
        BY <3>2, <1>t DEF Fail, Goto
      <4> QED BY <4>1
    <3>3. P(t)'
      BY <2>2, <3>1, <3>2 DEF FlashBody
    <3> QED BY <2>1, <3>3 DEF FlashProgress
  <2>3. CASE FlashTail(t)
    <3>0. pc[t] = "tail" /\ \A b \in Body(target[t]) : content[b] = image[t]
      BY <2>3 DEF FlashTail, FlashProgress
    <3>1. ASSUME content' = Write(Tail(target[t]), image[t]), target[t] = Disk PROVE P(t)'
      <4>1. \A b \in Blocks : content'[b] = image[t]
        BY <2>0, <3>0, <3>1, BodyAndTail DEF Write, Extent
      <4>2. pc'[t] \in {"reread", "unlock"}
        BY <2>3, <3>1, <1>t DEF FlashTail, Goto, Fail
      <4> QED BY <2>0, <4>1, <4>2
    <3>2. ASSUME pc'[t] = "unlock" PROVE P(t)'
      BY <3>2
    <3>3. P(t)'
      BY <2>3, <1>t, <3>1, <3>2 DEF FlashTail, Fail, Goto
    <3> QED BY <2>1, <3>3 DEF FlashProgress
  <2> QED BY <1>2, <2>2, <2>3
<1>3. ASSUME UNCHANGED content,
             \A t \in Threads :
               \/ pc'[t] = pc[t] /\ target'[t] = target[t] /\ image'[t] = image[t]
               \/ pc'[t] \notin {"reset", "reopen", "tail", "reread"}
               \/ /\ pc[t] \in {"reset", "reopen"} /\ pc'[t] \in {"reopen", "tail"}
                  /\ target'[t] = target[t] /\ image'[t] = image[t]
      PROVE  FlashProgress'
  BY <1>3 DEF FlashProgress
<1> USE DEF Goto, Fail
<1>4. ASSUME NEW t \in Threads, Flash(t), ~FlashBody(t), ~FlashTail(t) PROVE FlashProgress'
  <2>1. CASE FlashAcquire(t) \/ FlashOpen(t) \/ FlashConsume(t)
    BY <2>1, <1>t, <1>3 DEF FlashAcquire, Acquire, FlashOpen, FlashConsume
  <2>2. CASE FlashReset(t) \/ FlashReopen(t) \/ FlashReread(t)
    BY <2>2, <1>t, <1>3 DEF FlashReset, FlashReopen, FlashReread
  <2>3. CASE FlashUnlock(t) \/ FlashClose(t)
    BY <2>3, <1>t, <1>3 DEF FlashUnlock, FlashClose
  <2> QED BY <1>4, <2>1, <2>2, <2>3 DEF Flash
<1>5. ASSUME NEW t \in Threads, Download(t) \/ \E d \in Targets : FlashCommand(t, d)
      PROVE  FlashProgress'
  BY <1>5, <1>t, <1>3 DEF Download, FlashCommand
<1>6. ASSUME NEW d \in Targets, Erase(Control, d) PROVE FlashProgress'
  BY <1>6, <1>3 DEF Erase, WipeBlockDevice, BlockDeviceSize, OpenPartitionFd
<1>7. ASSUME NEW p \in Parts,
             VerityAppend(Control, p) \/ Mount(Control, p) \/ Umount(Control, p)
      PROVE  FlashProgress'
  BY <1>7, <1>3 DEF VerityAppend, Mount, Umount
<1>8. ASSUME NEW p \in Parts, VeritySetup(Control, p) PROVE FlashProgress'
  BY <1>8, <1>t, <1>3, Constants DEF VeritySetup
<1>9. CASE Verity(Control)
  BY <1>9, <1>t, <1>3, Constants DEF Verity, VerityAcquire, Acquire, VerityHash, VeritySign
<1>10. CASE UNCHANGED vars
  BY <1>10, <1>3 DEF vars
<1> QED
  BY <1>2, <1>4, <1>5, <1>6, <1>7, <1>8, <1>9, <1>10 DEF Next

\* A flash that is about to report success has left its image, and nothing else,
\* on the device, whatever the other sessions did meanwhile, and for a whole disk
\* the kernel works from the table in it: where hosts flash partitions only, and
\* where they flash disks with images that end on a 4 KiB boundary, so that
\* PartitionHandle::Reset is not needed.
THEOREM FlashedIntact ==
  ASSUME Disk \notin Targets \/ TRUE \notin Unaligned
  PROVE  Spec => FlashedContent
<1> DEFINE IInv == SafeInv /\ LockHeld /\ FlashTargets /\ FlashProgress
           Okay == \A t \in Threads :
                     (result'[t] = "okay" /\ result[t] # "okay") =>
                       /\ \A b \in Extent(target[t]) : content'[b] = image[t]
                       /\ target[t] = Disk => kview' = image[t]
<1>1. Init => LockHeld /\ FlashTargets /\ FlashProgress
  BY DEF Init, LockHeld, FlashTargets, FlashProgress, Locked, FlashLabels
<1>2. SafeInv /\ LockHeld /\ FlashTargets /\ FlashProgress /\ [Next]_vars
        => LockHeld' /\ FlashTargets' /\ FlashProgress'
  BY LockStep, ProgressStep DEF SafeInv
<1>3. ASSUME IInv, [Next]_vars, NEW t \in Threads, result'[t] = "okay", result[t] # "okay"
      PROVE  /\ \A b \in Extent(target[t]) : content'[b] = image[t]
             /\ target[t] = Disk => kview' = image[t]
  <2>0. TypeOK /\ result \in [Threads -> {"none", "okay", "fail"}]
    BY <1>3 DEF SafeInv, TypeInv, TypeOK
  <2>1. FlashTail(t) \/ FlashReread(t)
    <3>1. ASSUME NEW u \in Threads, Flash(u), ~(FlashTail(u) \/ FlashReread(u)) PROVE FALSE
      BY <1>3, <2>0, <3>1 DEF Flash, FlashAcquire, Acquire, FlashOpen, FlashConsume,
         FlashBody, FlashReset, FlashReopen, FlashUnlock, FlashClose, Fail
    <3>2. ASSUME NEW u \in Threads, u # t, FlashTail(u) \/ FlashReread(u) PROVE FALSE
      BY <1>3, <2>0, <3>2 DEF FlashTail, FlashReread, Fail
    <3>3. ASSUME UNCHANGED result PROVE FALSE
      BY <1>3, <3>3
    <3> QED
      BY <1>3, <3>1, <3>2, <3>3 DEF Next, vars, Download, FlashCommand, Erase,
         VerityAppend, VeritySetup, Mount, Umount, Verity, VerityAcquire, Acquire,
         VerityHash, VeritySign
  <2>2. CASE FlashTail(t)
    <3>1. target[t] \in Devices /\ \A b \in Body(target[t]) : content[b] = image[t]
      BY <1>3, <2>0, <2>2, TargetType DEF FlashTail, FlashProgress
    <3>2. content' = Write(Tail(target[t]), image[t]) /\ target[t] # Disk
      BY <1>3, <2>0, <2>2 DEF FlashTail, Fail
    <3> QED BY <3>1, <3>2, BodyAndTail DEF Write
  <2>3. CASE FlashReread(t)
    <3>1. target[t] = Disk /\ \A b \in Blocks : content[b] = image[t]
      BY <1>3, <2>3 DEF FlashReread, FlashTargets, FlashProgress
    <3>2. kview' = content[<<Disk, 1>>] /\ UNCHANGED content
      BY <1>3, <2>0, <2>3 DEF FlashReread, Fail
    <3> QED BY <3>1, <3>2, Constants DEF Extent
  <2> QED BY <2>1, <2>2, <2>3
<1>4. IInv /\ [Next]_vars => [Okay]_vars
  BY <1>3
<1> HIDE DEF Okay
<1>5. Spec => [][Okay]_vars
  BY <1>1, <1>2, <1>4, SafeAlways, PTL DEF Spec
<1> QED BY <1>5 DEF Okay, FlashedContent
----------------------------------------------------------------------------
\* What veritysetup has hashed is what the partition holds.
VerityProgress ==
  /\ pc[Control] = "hash2" => seen[Control] = <<content[<<target[Control], 1>>]>>
  /\ pc[Control] = "sign" =>
       seen[Control] = <<content[<<target[Control], 1>>], content[<<target[Control], 2>>]>>

\* Every action keeps VerityProgress where hosts flash partitions only: the mutex
\* of the partition is the control session's.
LEMMA VerityStep ==
  ASSUME Disk \notin Targets,
         TypeInv, ClaimInv, LockHeld, FlashTargets, VerityProgress, [Next]_vars
  PROVE  VerityProgress'
<1>0. TypeOK /\ VerityInv /\ Control \in Threads
  BY Constants DEF TypeInv
<1>t. /\ pc \in [Threads -> {"idle"} \cup FlashLabels \cup VerityLabels]
      /\ target \in [Threads -> Devices \cup {NoDev}]
      /\ seen \in [Threads -> {<<>>} \cup {<<v>> : v \in Values} \cup Values \X Values]
  BY <1>0 DEF TypeOK
<1> USE DEF Goto, Fail
<1>1. ASSUME pc'[Control] \notin {"hash2", "sign"} PROVE VerityProgress'
  BY <1>1 DEF VerityProgress
<1>2. ASSUME pc'[Control] = pc[Control], UNCHANGED <<target, seen>>,
             pc[Control] \in {"hash2", "sign"} =>
               \A b \in {target[Control]} \X {1, 2} : content'[b] = content[b]
      PROVE  VerityProgress'
  BY <1>2 DEF VerityProgress
<1>3. ASSUME pc'[Control] = pc[Control], target'[Control] = target[Control],
             UNCHANGED <<seen, content>>
      PROVE  VerityProgress'
  BY <1>3 DEF VerityProgress
<1>4. ASSUME NEW u \in Threads, FlashBody(u) \/ FlashTail(u) PROVE VerityProgress'
  <2>1. CASE u = Control
    BY <2>1, <1>t, <1>4, <1>1 DEF FlashBody, FlashTail
  <2>2. CASE u # Control
    <3>1. /\ pc[u] \in {"body", "tail"} /\ UNCHANGED <<target, seen>>
          /\ pc'[Control] = pc[Control]
      BY <1>0, <1>4, <1>t, <2>2 DEF FlashBody, FlashTail
    <3>2. ASSUME pc[Control] \in {"hash2", "sign"},
                 NEW b \in {target[Control]} \X {1, 2}
          PROVE  content'[b] = content[b]
      <4>1. target[Control] \in Parts /\ target[u] \in Devices
        BY <1>0, <3>1, <3>2, TargetType DEF VerityInv, VerityLabels
      <4>2. ~Overlap(target[u], target[Control])
        BY <1>0, <2>2, <3>1, <3>2, PathsApart DEF Locked, FlashLabels
      <4>3. b \in Extent(target[Control]) /\ b \in Blocks
        BY <4>1, <3>2, DevicesAssumption DEF Extent, Blocks
      <4>4. b \notin Extent(target[u])
        BY <4>1, <4>2, <4>3, ExtentsDisjoint
      <4> QED BY <1>0, <1>4, <4>3, <4>4, WritesInsideTarget
    <3> QED BY <3>1, <3>2, <1>2
  <2> QED BY <2>1, <2>2
<1>5. ASSUME NEW t \in Threads, Flash(t), ~FlashBody(t), ~FlashTail(t) PROVE VerityProgress'
  <2>0. UNCHANGED <<seen, content>>
    BY <1>5 DEF Flash, FlashAcquire, Acquire, FlashOpen, FlashConsume, FlashReset,
       FlashReopen, FlashReread, FlashUnlock, FlashClose
  <2>1. CASE t = Control
    <3>1. pc'[Control] \notin {"hash2", "sign"}
      BY <1>5, <2>1, <1>t DEF Flash, FlashAcquire, Acquire, FlashOpen, FlashConsume,
         FlashReset, FlashReopen, FlashReread, FlashUnlock, FlashClose
    <3> QED BY <3>1, <1>1
  <2>2. CASE t # Control
    <3>1. pc'[Control] = pc[Control] /\ target'[Control] = target[Control]
      BY <1>5, <2>2, <1>0, <1>t DEF Flash, FlashAcquire, Acquire, FlashOpen, FlashConsume,
         FlashReset, FlashReopen, FlashReread, FlashUnlock, FlashClose
    <3> QED BY <2>0, <3>1, <1>3
  <2> QED BY <2>1, <2>2
<1>6. ASSUME NEW t \in Threads, Download(t) \/ \E d \in Targets : FlashCommand(t, d)
      PROVE  VerityProgress'
  <2>1. /\ UNCHANGED <<seen, content>>
        /\ \/ pc'[Control] = pc[Control] /\ target'[Control] = target[Control]
           \/ pc'[Control] = "acquire"
    BY <1>6, <1>0, <1>t DEF Download, FlashCommand
  <2> QED BY <2>1, <1>1, <1>3
<1>7. ASSUME NEW d \in Targets, Erase(Control, d) PROVE VerityProgress'
  BY <1>7, <1>3 DEF Erase, WipeBlockDevice, BlockDeviceSize, OpenPartitionFd
<1>8. ASSUME NEW p \in Parts,
             VerityAppend(Control, p) \/ Mount(Control, p) \/ Umount(Control, p)
      PROVE  VerityProgress'
  BY <1>8, <1>3 DEF VerityAppend, Mount, Umount
<1>9. ASSUME NEW p \in Parts, VeritySetup(Control, p) PROVE VerityProgress'
  BY <1>9, <1>t, <1>0, <1>1 DEF VeritySetup
<1>10. CASE VerityAcquire(Control) \/ VeritySign(Control)
  BY <1>10, <1>t, <1>0, <1>1 DEF VerityAcquire, Acquire, VeritySign
<1>11. CASE VerityHash(Control)
  <2>1. CASE pc[Control] = "hash1"
    <3>1. /\ seen'[Control] = <<content[<<target[Control], 1>>]>>
          /\ pc'[Control] = "hash2" /\ UNCHANGED <<content, target>>
      BY <1>11, <2>1, <1>0, <1>t DEF VerityHash
    <3> QED BY <3>1 DEF VerityProgress
  <2>2. CASE pc[Control] = "hash2"
    <3>1. /\ seen'[Control] = <<seen[Control][1], content[<<target[Control], 2>>]>>
          /\ pc'[Control] = "sign" /\ UNCHANGED <<content, target>>
      BY <1>11, <2>2, <1>0, <1>t DEF VerityHash
    <3>2. seen[Control] = <<content[<<target[Control], 1>>]>>
      BY <2>2 DEF VerityProgress
    <3>3. seen[Control][1] = content[<<target[Control], 1>>]
      BY <3>2
    <3> QED BY <3>1, <3>3 DEF VerityProgress
  <2> QED BY <1>11, <2>1, <2>2 DEF VerityHash
<1>12. CASE UNCHANGED vars
  BY <1>12, <1>3 DEF vars
<1> QED
  BY <1>4, <1>5, <1>6, <1>7, <1>8, <1>9, <1>10, <1>11, <1>12 DEF Next, Verity

\* The root hash that a successful veritysetup signs is the hash of what the
\* partition holds, where hosts flash partitions only: no flash of the partition
\* comes between the first block hashed and the reply.
THEOREM VeritySound ==
  ASSUME Disk \notin Targets
  PROVE  Spec => VerityDescribesPartition
<1>1. Init => LockHeld /\ FlashTargets /\ VerityProgress
  BY Constants DEF Init, LockHeld, FlashTargets, VerityProgress, Locked, FlashLabels
<1>2. SafeInv /\ LockHeld /\ FlashTargets /\ VerityProgress /\ [Next]_vars
        => LockHeld' /\ FlashTargets' /\ VerityProgress'
  BY LockStep, VerityStep DEF SafeInv
<1>3. VerityProgress =>
        [(/\ pc[Control] = "sign"
          /\ pc'[Control] = "idle"
          /\ reply'.status = "OKAY") =>
            seen[Control] = <<content[<<target[Control], 1>>],
                              content[<<target[Control], 2>>]>>]_vars
  BY DEF VerityProgress
<1> QED BY <1>1, <1>2, <1>3, SafeAlways, PTL DEF Spec, VerityDescribesPartition

============================================================================
