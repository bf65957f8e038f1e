----------------------------- MODULE FlashPath -----------------------------
(***************************************************************************)
(* The paths on which fastbootd writes or reads block devices, run by the  *)
(* USB control session and the TCP data-plane workers at the same time in  *)
(* `-i usb+tcp` mode: flash, erase, oem veritysetup, oem verityappend,     *)
(* oem mount and oem umount.                                               *)
(*                                                                         *)
(* Two mechanisms keep them apart.  PartitionLockManager gives every       *)
(* canonical device path a mutex, held for the whole of Flash() and of     *)
(* oem_cmd_veritysetup.  The kernel keeps an exclusive claim for every     *)
(* O_EXCL open and every mount: a claim on the disk conflicts with a claim *)
(* on any of its partitions, claims on two partitions do not conflict.     *)
(*                                                                         *)
(* A device is a disk or one of its partitions.  Block <<Disk, 1>> stands  *)
(* for the partition table, <<p, 1>> and <<p, 2>> for the first and the    *)
(* last part of partition p.  The content of a block is the number of the  *)
(* image it was written from.                                              *)
(***************************************************************************)
EXTENDS Naturals, FiniteSets

CONSTANTS Control,    \* the USB session: every command
          TcpWorkers, \* data-plane sessions: download and flash only
          Disk,       \* the whole-disk device
          Parts,      \* its partitions
          Targets,    \* the devices hosts flash in this instance
          Unaligned,  \* whether images may end off a 4 KiB boundary: a set of BOOLEANs
          MaxImages,  \* bound on the images staged
          NoDev, NoThread

ASSUME ThreadsAssumption ==
  Control \notin TcpWorkers /\ NoThread \notin TcpWorkers \cup {Control}
ASSUME DevicesAssumption ==
  /\ Disk \notin Parts /\ NoDev \notin Parts \cup {Disk}
  /\ Targets \subseteq Parts \cup {Disk}
ASSUME ImagesAssumption == MaxImages \in Nat /\ Unaligned \subseteq BOOLEAN

Threads == TcpWorkers \cup {Control}
Devices == Parts \cup {Disk}
Blocks == {<<Disk, 1>>} \cup Parts \X {1, 2}

Factory == 0                 \* what the blocks hold before any command
Erased == MaxImages + 1      \* what a wiped block reads as
Values == 0..(MaxImages + 1)
NoImage == 0                 \* an empty download_data()

VARIABLES
  content,   \* [Blocks -> Values]
  nextImage, \* the next image number to stage
  staged,    \* download_data() of each session
  mutex,     \* PartitionLockManager::locks_: the holder of each path's mutex
  claim,     \* the device each session's PartitionHandle has open with O_EXCL
  mounted,   \* partitions claimed by a mounted filesystem
  kview,     \* the partition table the kernel works from
  pc,        \* where each session is in its handler
  target,    \* the device its command names
  image,     \* Flash(): the data moved out of download_data()
  seen,      \* veritysetup: the blocks hashed so far
  result,    \* the outcome its handler is about to report
  reply      \* the reply written by the last step, if it wrote one

vars == <<content, nextImage, staged, mutex, claim, mounted, kview, pc, target,
          image, seen, result, reply>>

NoReply == [cmd |-> "none", dev |-> NoDev, status |-> "none"]

Extent(d) == IF d = Disk THEN Blocks ELSE {d} \X {1, 2}
\* The part of an image that lies before its last, possibly unaligned, chunk.
Body(d) == IF d = Disk THEN {<<Disk, 1>>} \cup Parts \X {1} ELSE {<<d, 1>>}
Tail(d) == Extent(d) \ Body(d)

Overlap(d, e) == d = e \/ d = Disk \/ e = Disk

\* The kernel refuses an exclusive open of d to session t: EBUSY.
Busy(t, d) ==
  \/ \E u \in Threads \ {t} : claim[u] # NoDev /\ Overlap(d, claim[u])
  \/ \E p \in mounted : Overlap(d, p)

\* An open descriptor on any partition makes BLKRRPART fail with EBUSY.
\* libcryptsetup holds the partition open while veritysetup hashes it.
PartitionInUse ==
  \/ mounted # {}
  \/ \E u \in Threads : claim[u] \in Parts
  \/ \E u \in Threads : pc[u] \in {"hash1", "hash2"}

Write(blocks, v) ==
  [b \in Blocks |-> IF b \in blocks THEN v ELSE content[b]]

Goto(t, label) == pc' = [pc EXCEPT ![t] = label]
Fail(t) == result' = [result EXCEPT ![t] = "fail"] /\ Goto(t, "unlock")
Reply(c, d, s) == reply' = [cmd |-> c, dev |-> d, status |-> s]
Silent == reply' = NoReply
----------------------------------------------------------------------------
Init ==
  /\ content = [b \in Blocks |-> Factory]
  /\ nextImage = 1
  /\ staged = [t \in Threads |-> NoImage]
  /\ mutex = [d \in Devices |-> NoThread]
  /\ claim = [t \in Threads |-> NoDev]
  /\ mounted = {}
  /\ kview = Factory
  /\ pc = [t \in Threads |-> "idle"]
  /\ target = [t \in Threads |-> NoDev]
  /\ image = [t \in Threads |-> NoImage]
  /\ seen = [t \in Threads |-> <<>>]
  /\ result = [t \in Threads |-> "none"]
  /\ reply = NoReply

\* DownloadHandler: stage a new image in the session's buffer.
Download(t) ==
  /\ pc[t] = "idle"
  /\ nextImage <= MaxImages
  /\ staged' = [staged EXCEPT ![t] = nextImage]
  /\ nextImage' = nextImage + 1
  /\ Silent
  /\ UNCHANGED <<content, mutex, claim, mounted, kview, pc, target, image,
                 seen, result>>

\* FlashHandler: Flash() starts by asking for the mutex of the path.
FlashCommand(t, d) ==
  /\ pc[t] = "idle"
  /\ target' = [target EXCEPT ![t] = d]
  /\ Goto(t, "acquire")
  /\ Silent
  /\ UNCHANGED <<content, nextImage, staged, mutex, claim, mounted, kview,
                 image, seen, result>>

\* PartitionLockManager::Acquire blocks until the path's mutex is free.
Acquire(t, from, to) ==
  /\ pc[t] = from
  /\ mutex[target[t]] = NoThread
  /\ mutex' = [mutex EXCEPT ![target[t]] = t]
  /\ Goto(t, to)
  /\ Silent
  /\ UNCHANGED <<content, nextImage, staged, claim, mounted, kview, target,
                 image, seen, result>>

FlashAcquire(t) == Acquire(t, "acquire", "open")

\* Mutants of FlashOpen: the open without O_EXCL; a failed open that returns
\* without running the guard's destructor.
FlashOpenShared(t) ==
  /\ pc[t] = "open"
  /\ claim' = [claim EXCEPT ![t] = target[t]]
  /\ Goto(t, "consume")
  /\ Silent
  /\ UNCHANGED <<content, nextImage, staged, mutex, mounted, kview, target,
                 image, seen, result>>
FlashOpenLeaks(t) ==
  /\ pc[t] = "open"
  /\ IF Busy(t, target[t])
       THEN /\ Reply("flash", target[t], "FAIL")
            /\ Goto(t, "idle")
            /\ UNCHANGED claim
       ELSE /\ claim' = [claim EXCEPT ![t] = target[t]]
            /\ Goto(t, "consume")
            /\ Silent
  /\ UNCHANGED <<content, nextImage, staged, mutex, mounted, kview, target,
                 image, seen, result>>

\* OpenPartition finds no such node, or handle.Open(O_WRONLY | O_DIRECT), which
\* adds O_EXCL, succeeds or not.  A failure leaves the staged data in place.
FlashOpen(t) ==
  /\ pc[t] = "open"
  /\ \/ Fail(t) /\ UNCHANGED claim
     \/ /\ ~Busy(t, target[t])
        /\ claim' = [claim EXCEPT ![t] = target[t]]
        /\ Goto(t, "consume")
        /\ UNCHANGED result
  /\ Silent
  /\ UNCHANGED <<content, nextImage, staged, mutex, mounted, kview, target,
                 image, seen>>

\* The staged data is moved out, and is gone even when it does not fit.  An
\* empty buffer is refused here, with the device already claimed.
FlashConsume(t) ==
  /\ pc[t] = "consume"
  /\ staged' = [staged EXCEPT ![t] = NoImage]
  /\ image' = [image EXCEPT ![t] = staged[t]]
  /\ \/ staged[t] # NoImage /\ Goto(t, "body") /\ UNCHANGED result
     \/ Fail(t)  \* nothing staged, payload larger than the device, bad sparse header
  /\ Silent
  /\ UNCHANGED <<content, nextImage, mutex, claim, mounted, kview, target,
                 seen>>

\* FlashRawDataChunk up to the last chunk, from the image or from the libsparse
\* callback.  A write error leaves some of it on the device.
FlashBody(t) ==
  /\ pc[t] = "body"
  /\ \/ /\ content' = Write(Body(target[t]), image[t])
        /\ \E unaligned \in Unaligned :
              Goto(t, IF unaligned THEN "reset" ELSE "tail")
        /\ UNCHANGED <<claim, result>>
     \/ /\ \E b \in SUBSET Body(target[t]) :
              content' = Write(b, image[t])
        /\ Fail(t)
        /\ UNCHANGED claim
  /\ Silent
  /\ UNCHANGED <<nextImage, staged, mutex, mounted, kview, target, image,
                 seen>>

\* PartitionHandle::Reset(O_WRONLY): Open() closes the descriptor first.
FlashReset(t) ==
  /\ pc[t] = "reset"
  /\ claim' = [claim EXCEPT ![t] = NoDev]
  /\ Goto(t, "reopen")
  /\ Silent
  /\ UNCHANGED <<content, nextImage, staged, mutex, mounted, kview, target,
                 image, seen, result>>

\* ... and then claims the device anew; by now somebody else may have it, or
\* the node may be gone.
FlashReopen(t) ==
  /\ pc[t] = "reopen"
  /\ \/ Fail(t) /\ UNCHANGED claim
     \/ /\ ~Busy(t, target[t])
        /\ claim' = [claim EXCEPT ![t] = target[t]]
        /\ Goto(t, "tail")
        /\ UNCHANGED result
  /\ Silent
  /\ UNCHANGED <<content, nextImage, staged, mutex, mounted, kview, target,
                 image, seen>>

\* Mutant of FlashTail: the result of the last write is not looked at.
FlashTailUnchecked(t) ==
  /\ pc[t] = "tail"
  /\ content' \in {content, Write(Tail(target[t]), image[t])}
  /\ IF target[t] = Disk
       THEN Goto(t, "reread") /\ UNCHANGED result
       ELSE result' = [result EXCEPT ![t] = "okay"] /\ Goto(t, "unlock")
  /\ Silent
  /\ UNCHANGED <<nextImage, staged, mutex, claim, mounted, kview, target,
                 image, seen>>

\* The last chunk, then sync().
FlashTail(t) ==
  /\ pc[t] = "tail"
  /\ \/ /\ content' = Write(Tail(target[t]), image[t])
        /\ IF target[t] = Disk
             THEN Goto(t, "reread") /\ UNCHANGED result
             ELSE result' = [result EXCEPT ![t] = "okay"] /\ Goto(t, "unlock")
     \/ Fail(t) /\ UNCHANGED content
  /\ Silent
  /\ UNCHANGED <<nextImage, staged, mutex, claim, mounted, kview, target,
                 image, seen>>

\* Mutant of FlashReread: the re-read is best-effort, as it is in erase.
FlashRereadBestEffort(t) ==
  /\ pc[t] = "reread"
  /\ kview' = IF PartitionInUse THEN kview ELSE content[<<Disk, 1>>]
  /\ result' = [result EXCEPT ![t] = "okay"]
  /\ Goto(t, "unlock")
  /\ Silent
  /\ UNCHANGED <<content, nextImage, staged, mutex, claim, mounted, target,
                 image, seen>>

\* rereadPartitionTable(handle.fd()) after a whole-disk image: EBUSY is
\* retried for a while and fails the command if it lasts.
FlashReread(t) ==
  /\ pc[t] = "reread"
  /\ \/ /\ ~PartitionInUse
        /\ kview' = content[<<Disk, 1>>]
        /\ result' = [result EXCEPT ![t] = "okay"]
        /\ Goto(t, "unlock")
     \/ /\ PartitionInUse
        /\ Fail(t)
        /\ UNCHANGED kview
  /\ Silent
  /\ UNCHANGED <<content, nextImage, staged, mutex, claim, mounted, target,
                 image, seen>>

\* Flash() returns.  Locals are destroyed in reverse order of declaration:
\* part_guard unlocks the mutex ...
FlashUnlock(t) ==
  /\ pc[t] = "unlock"
  /\ mutex' = [mutex EXCEPT ![target[t]] = NoThread]
  /\ Goto(t, "close")
  /\ Silent
  /\ UNCHANGED <<content, nextImage, staged, claim, mounted, kview, target,
                 image, seen, result>>

\* ... before ~PartitionHandle closes the descriptor; then FlashHandler replies.
FlashClose(t) ==
  /\ pc[t] = "close"
  /\ claim' = [claim EXCEPT ![t] = NoDev]
  /\ image' = [image EXCEPT ![t] = NoImage]
  /\ Reply("flash", target[t], IF result[t] = "okay" THEN "OKAY" ELSE "FAIL")
  /\ result' = [result EXCEPT ![t] = "none"]
  /\ target' = [target EXCEPT ![t] = NoDev]
  /\ Goto(t, "idle")
  /\ UNCHANGED <<content, nextImage, staged, mutex, mounted, kview, seen>>

Flash(t) ==
  \/ FlashAcquire(t) \/ FlashOpen(t) \/ FlashConsume(t) \/ FlashBody(t)
  \/ FlashReset(t) \/ FlashReopen(t) \/ FlashTail(t) \/ FlashReread(t)
  \/ FlashUnlock(t) \/ FlashClose(t)
----------------------------------------------------------------------------
\* OpenPartition checks that the node can be written; the call that would open
\* it is commented out, so the handle it returns has no descriptor.
OpenPartitionFd(d) == NoDev

\* get_block_device_size: BLKGETSIZE64 on a bad descriptor gives 0.
BlockDeviceSize(fd) == IF fd = NoDev THEN 0 ELSE Cardinality(Extent(fd))

\* wipe_block_device: nothing to do for a device of size 0, and that is success.
WipeBlockDevice(fd) ==
  IF BlockDeviceSize(fd) = 0 THEN content ELSE Write(Extent(fd), Erased)

\* EraseHandler takes no partition mutex; its re-read is best-effort and, on a
\* bad descriptor, fails with EBADF.
Erase(t, d) ==
  /\ pc[t] = "idle"
  /\ \/ /\ content' = WipeBlockDevice(OpenPartitionFd(d))
        /\ Reply("erase", d, "OKAY")
     \/ Reply("erase", d, "FAIL") /\ UNCHANGED content  \* no such node
  /\ UNCHANGED <<nextImage, staged, mutex, claim, mounted, kview, pc, target,
                 image, seen, result>>

\* oem_cmd_verityappend never gets past the size of its device.
VerityAppend(t, p) ==
  /\ pc[t] = "idle"
  /\ BlockDeviceSize(OpenPartitionFd(p)) = 0
  /\ Reply("verityappend", p, "FAIL")
  /\ UNCHANGED <<content, nextImage, staged, mutex, claim, mounted, kview, pc,
                 target, image, seen, result>>

\* oem_cmd_veritysetup: the preamble's checks and the slot's flock, which only
\* another control session could hold, then the partition's mutex.
VeritySetup(t, p) ==
  /\ pc[t] = "idle"
  /\ target' = [target EXCEPT ![t] = p]
  /\ Goto(t, "vacquire")
  /\ Silent
  /\ UNCHANGED <<content, nextImage, staged, mutex, claim, mounted, kview,
                 image, seen, result>>

\* Mutant of VerityAcquire: no partition mutex.
VerityAcquireNone(t) ==
  /\ pc[t] = "vacquire"
  /\ Goto(t, "hash1")
  /\ Silent
  /\ UNCHANGED <<content, nextImage, staged, mutex, claim, mounted, kview,
                 target, image, seen, result>>

VerityAcquire(t) == Acquire(t, "vacquire", "hash1")

\* rpi_verity_sign_apply reads the data device from end to end ...
VerityHash(t) ==
  \/ /\ pc[t] = "hash1"
     /\ seen' = [seen EXCEPT ![t] = <<content[<<target[t], 1>>]>>]
     /\ Goto(t, "hash2")
     /\ Silent
     /\ UNCHANGED <<content, nextImage, staged, mutex, claim, mounted,
                    kview, target, image, result>>
  \/ /\ pc[t] = "hash2"
     /\ seen' = [seen EXCEPT ![t] = <<seen[t][1], content[<<target[t], 2>>]>>]
     /\ Goto(t, "sign")
     /\ Silent
     /\ UNCHANGED <<content, nextImage, staged, mutex, claim, mounted,
                    kview, target, image, result>>

\* ... signs the root hash and persists it.  The reply is written with the
\* mutex still held; it fails if hashing or signing did.
VeritySign(t) ==
  /\ pc[t] = "sign"
  /\ \E s \in {"OKAY", "FAIL"} : Reply("veritysetup", target[t], s)
  /\ mutex' = [mutex EXCEPT ![target[t]] =
                 IF mutex[target[t]] = t THEN NoThread ELSE @]
  /\ target' = [target EXCEPT ![t] = NoDev]
  /\ seen' = [seen EXCEPT ![t] = <<>>]
  /\ Goto(t, "idle")
  /\ UNCHANGED <<content, nextImage, staged, claim, mounted, kview, image, result>>

\* oem mount: mount(2) claims the device like an exclusive open, unless it is
\* mounted already; it may also find no filesystem.
Mount(t, p) ==
  /\ pc[t] = "idle"
  /\ \/ /\ p \in mounted \/ ~Busy(t, p)
        /\ mounted' = mounted \cup {p}
        /\ Reply("mount", p, "OKAY")
     \/ Reply("mount", p, "FAIL") /\ UNCHANGED mounted
  /\ UNCHANGED <<content, nextImage, staged, mutex, claim, kview, pc, target,
                 image, seen, result>>

\* oem umount, with MNT_DETACH when it is busy: the filesystem keeps its claim
\* while it is mounted elsewhere or a file in it is open.
Umount(t, p) ==
  /\ pc[t] = "idle"
  /\ \/ /\ p \in mounted
        /\ mounted' \in {mounted, mounted \ {p}}
        /\ Reply("umount", p, "OKAY")
     \/ p \notin mounted /\ Reply("umount", p, "FAIL") /\ UNCHANGED mounted
  /\ UNCHANGED <<content, nextImage, staged, mutex, claim, kview, pc, target,
                 image, seen, result>>

Verity(t) == VerityAcquire(t) \/ VerityHash(t) \/ VeritySign(t)

Next ==
  \/ \E t \in Threads :
        \/ Download(t)
        \/ \E d \in Targets : FlashCommand(t, d)
        \/ Flash(t)
  \/ \E d \in Targets : Erase(Control, d)
  \/ \E p \in Parts :
        \/ VerityAppend(Control, p)
        \/ VeritySetup(Control, p)
        \/ Mount(Control, p)
        \/ Umount(Control, p)
  \/ Verity(Control)

Spec == Init /\ [][Next]_vars

\* Every thread keeps running; std::mutex gives a waiter its turn at last.
FairSpec ==
  /\ Spec
  /\ \A t \in Threads :
        /\ WF_vars(Flash(t) /\ pc[t] # "acquire")
        /\ SF_vars(FlashAcquire(t))
  /\ WF_vars(VerityHash(Control) \/ VeritySign(Control))
  /\ SF_vars(VerityAcquire(Control))
----------------------------------------------------------------------------
FlashLabels == {"acquire", "open", "consume", "body", "reset", "reopen",
                "tail", "reread", "unlock", "close"}
VerityLabels == {"vacquire", "hash1", "hash2", "sign"}

\* Every variable has its type.
TypeOK ==
  /\ content \in [Blocks -> Values]
  /\ nextImage \in 1..(MaxImages + 1)
  /\ staged \in [Threads -> Values]
  /\ mutex \in [Devices -> Threads \cup {NoThread}]
  /\ claim \in [Threads -> Devices \cup {NoDev}]
  /\ mounted \subseteq Parts
  /\ kview \in Values
  /\ pc \in [Threads -> {"idle"} \cup FlashLabels \cup VerityLabels]
  /\ target \in [Threads -> Devices \cup {NoDev}]
  /\ \A t \in Threads : pc[t] = "idle" <=> target[t] = NoDev
  /\ image \in [Threads -> Values]
  /\ seen \in [Threads -> {<<>>} \cup {<<v>> : v \in Values} \cup Values \X Values]
  /\ result \in [Threads -> {"none", "okay", "fail"}]
  /\ reply \in [cmd : {"none", "flash", "erase", "veritysetup", "verityappend",
                       "mount", "umount"},
                dev : Devices \cup {NoDev},
                status : {"none", "OKAY", "FAIL"}]

Writing(t) == pc[t] \in {"body", "tail"}

\* No two sessions write overlapping devices at once, and nobody writes a
\* device that overlaps a mounted partition: O_EXCL arbitrates between the
\* disk and its partitions, where the partition mutexes do not.
WritersExclude ==
  \A t \in Threads : Writing(t) =>
    /\ \A u \in Threads \ {t} : Writing(u) => ~Overlap(target[t], target[u])
    /\ \A p \in mounted : ~Overlap(target[t], p)

\* A partition's content never changes under a mounted filesystem, whatever
\* other sessions flash, in the window of PartitionHandle::Reset too.
MountedUntouched ==
  [][\A p \in mounted \cap mounted' : \A b \in Extent(p) : content'[b] = content[b]]_vars

\* When a flash is about to report success the device holds its image and
\* nothing else, and for a whole disk the kernel works from the table in it.
FlashedContent ==
  [][\A t \in Threads :
       (result'[t] = "okay" /\ result[t] # "okay") =>
         /\ \A b \in Extent(target[t]) : content'[b] = image[t]
         /\ target[t] = Disk => kview' = image[t]]_vars

\* When veritysetup reports success, the root hash it signed is the hash of
\* what the partition holds ("Partition mutex: block concurrent flash/erase
\* on the same dev", commands.cpp:1474).
VerityDescribesPartition ==
  [][(/\ pc[Control] = "sign"
      /\ pc'[Control] = "idle"
      /\ reply'.status = "OKAY") =>
        seen[Control] = <<content[<<target[Control], 1>>],
                          content[<<target[Control], 2>>]>>]_vars

\* A mutex is held only by a session that is in a handler on that path: every
\* return path of Flash and veritysetup gives it back.
MutexHeldByUser ==
  \A d \in Devices : mutex[d] # NoThread =>
    /\ target[mutex[d]] = d
    /\ pc[mutex[d]] \in (FlashLabels \ {"acquire", "close"}) \cup {"hash1", "hash2", "sign"}

\* Every command a session starts is answered: no deadlock between mutexes and
\* claims, and no lost unlock.
EveryCommandAnswered ==
  \A t \in Threads : pc[t] # "idle" ~> pc[t] = "idle"

\* PROTOCOL.md:151 - erase clears the partition it reports as erased.
EraseErases ==
  (reply.cmd = "erase" /\ reply.status = "OKAY") =>
     \A b \in Extent(reply.dev) : content[b] = Erased
============================================================================
