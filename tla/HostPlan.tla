------------------------------- MODULE HostPlan -------------------------------
(***************************************************************************)
(* `fastboot flashall` and `fastboot update` (fastboot.cpp, task.cpp): the *)
(* client works out slots, turns fastboot-info.txt or its built-in image   *)
(* list into tasks, and runs them one after the other against a device     *)
(* that changes mode under it.  Partitions are a slotted physical one      *)
(* (boot), a slotted dynamic one (system) and userdata; sizes are small    *)
(* numbers.  The device is external.                                       *)
(***************************************************************************)
EXTENDS Integers, Sequences, SequencesExt

CONSTANTS BootLimit,   \* max-download-size in the bootloader
          FastbootdLimit  \* max-download-size in userspace fastboot

ASSUME HostPlanAssumption == BootLimit \in Nat \ {0} /\ FastbootdLimit \in Nat \ {0}

VARIABLES hpPlan,    \* FlashingPlan, and what the client finds around it
          hpTodo,    \* the tasks still to run
          hpPc,
          hpMode,    \* the device: "bootloader", "userspace", or "gone" after a reboot
          hpActive,  \* the device's active slot
          hpHolds,   \* what each partition holds
          hpSize,    \* the size of each logical partition
          hpCached   \* target_sparse_limit, -1 when not asked yet

hpVars == <<hpPlan, hpTodo, hpPc, hpMode, hpActive, hpHolds, hpSize, hpCached>>

Slots == {"a", "b"}
SlotsOf(plan) == IF plan.ab THEN Slots ELSE {""}
Parts(plan) == ({"boot", "system"} \X SlotsOf(plan)) \cup {<<"userdata", "">>}
OtherSlot(s) == IF s = "a" THEN "b" ELSE IF s = "b" THEN "a" ELSE ""

(* images: the rows the model keeps.  A row without a nickname is          *)
(* secondary; it goes to the other slot.                                   *)
ImageTable == <<[part |-> "boot",   img |-> "boot.img",         secondary |-> FALSE, critical |-> TRUE],
                [part |-> "system", img |-> "system.img",       secondary |-> FALSE, critical |-> FALSE],
                [part |-> "system", img |-> "system_other.img", secondary |-> TRUE,  critical |-> FALSE]>>
ImageSize(img) == CASE img = "boot.img" -> 1 [] img = "system.img" -> 3 [] img = "system_other.img" -> 2

Task(op, part, slot, img) == [op |-> op, part |-> part, slot |-> slot, img |-> img]

(* The tasks of a list that a test holds for, in their order.              *)
Only(tasks, Test(_)) == FlattenSeq([i \in DOMAIN tasks |-> IF Test(tasks[i]) THEN <<tasks[i]>> ELSE <<>>])

(* should_flash_in_userspace: named by the metadata of super_empty.img     *)
Dynamic(part) == hpPlan.superEmpty /\ part = "system"
Limit(mode) == IF mode = "userspace" THEN FastbootdLimit ELSE BootLimit

----------------------------------------------------------------------------
HostInit ==
    /\ hpPlan \in [cmd : {"flashall", "update"}, slot : {"", "a", "b", "all"}, wipe : BOOLEAN,
                   reboot : BOOLEAN, secondary : BOOLEAN, info : {"none", "list", "list-other"},
                   ab : BOOLEAN, superEmpty : BOOLEAN, optimise : BOOLEAN]
    /\ hpTodo = <<>> /\ hpPc = "start" /\ hpCached = -1
    /\ hpMode \in {"bootloader", "userspace"}
    /\ hpActive \in SlotsOf(hpPlan)
    /\ hpHolds = [p \in Parts(hpPlan) |-> "old"]
    /\ hpSize = [p \in Parts(hpPlan) |-> 1]

Die == hpPc' = "died" /\ UNCHANGED <<hpPlan, hpTodo, hpMode, hpActive, hpHolds, hpSize, hpCached>>

(* verify_slot dies on a device without slots; flashall and slot 'all'     *)
(* leave the secondary images out, update only warns.                      *)
VerifySlot ==
    /\ hpPc = "start"
    /\ IF hpPlan.slot # "" /\ ~hpPlan.ab THEN Die
       ELSE /\ hpPlan' = [hpPlan EXCEPT !.secondary = @ /\ ~(hpPlan.cmd = "flashall" /\ hpPlan.slot = "all"),
                                        !.wipe = @ /\ hpPlan.cmd # "update"]
            /\ hpPc' = "check"
            /\ UNCHANGED <<hpTodo, hpMode, hpActive, hpHolds, hpSize, hpCached>>

(* CheckRequirements: android-info.txt's requirements hold or it dies.     *)
CheckRequirements ==
    /\ hpPc = "check"
    /\ \/ Die
       \/ hpPc' = "slot" /\ UNCHANGED <<hpPlan, hpTodo, hpMode, hpActive, hpHolds, hpSize, hpCached>>

(* set_active, before anything is flashed.                                 *)
SetActive ==
    /\ hpPc = "slot"
    /\ hpActive' = CASE ~hpPlan.ab -> hpActive
                     [] hpPlan.slot = "all" -> "a"
                     [] hpPlan.slot = "" -> hpActive
                     [] OTHER -> hpPlan.slot
    /\ hpPc' = "collect"
    /\ UNCHANGED <<hpPlan, hpTodo, hpMode, hpHolds, hpSize, hpCached>>

(* DetermineSlot: the secondary slot, "" when there is none or it is       *)
(* skipped.                                                                *)
SecondarySlot ==
    IF ~hpPlan.secondary THEN ""
    ELSE OtherSlot(IF hpPlan.slot \in {"", "all"} THEN hpActive ELSE hpPlan.slot)
SkipSecondary == SecondarySlot = ""

(* CollectImages: one entry per image, secondary ones for the other slot.  *)
Entry(row) == Task("image", row.part, IF row.secondary THEN SecondarySlot ELSE hpPlan.slot, row.img)
Collected(critical) ==
    LET kept(row) == row.critical = critical /\ ~(row.secondary /\ SkipSecondary)
        rows == Only(ImageTable, kept)
    IN [i \in 1..Len(rows) |-> Entry(rows[i])]

(* FlashSuperLayoutTask::Initialize and InitializeFromTasks: one image of  *)
(* the whole super partition, if the device and the images allow it.       *)
CanOptimise == hpPlan.optimise /\ hpPlan.ab /\ hpPlan.slot # "all" /\ hpPlan.superEmpty
InSuper(t) == t.op \in {"image", "flash"} /\ Dynamic(t.part)

(* HardcodedFlash calls CollectImages a second time, so that every image   *)
(* is in the list twice.                                                   *)
HardcodedFlash ==
    LET boot == Collected(TRUE) \o Collected(TRUE)
        os == Collected(FALSE) \o Collected(FALSE)
        resize == [i \in 1..Len(os) |-> [os[i] EXCEPT !.op = "resize"]]
    IN boot \o IF CanOptimise
               THEN <<Task("super", "super", "", "")>> \o Only(os, LAMBDA t : ~InSuper(t))
               ELSE <<Task("update-super", "super", "", "")>> \o resize \o os

(* ParseFastbootInfo on the usual fastboot-info.txt, with or without its   *)
(* --slot-other line; `if-wipe` lines are dropped without -w.  A file that *)
(* does not parse counts as none.                                          *)
FromInfo == hpPlan.info # "none"
InfoTasks ==
    <<Task("flash", "boot", hpPlan.slot, "boot.img"),
      Task("reboot", "fastboot", "", ""),
      Task("update-super", "super", "", ""),
      Task("flash", "system", hpPlan.slot, "system.img")>>
    \o (IF hpPlan.info = "list-other" THEN <<Task("flash", "system", SecondarySlot, "system_other.img")>> ELSE <<>>)
    \o IF hpPlan.wipe THEN <<Task("wipe", "userdata", "", "")>> ELSE <<>>

(* The super task goes before the first dynamic partition or wipe, and     *)
(* takes the flash, update-super and reboot tasks with it; otherwise       *)
(* AddResizeTasks empties the dynamic partitions first.                    *)
WithSuper(tasks) ==
    LET kept == Only(tasks, LAMBDA t : ~InSuper(t) /\ t.op \notin {"update-super", "reboot"})
        wipes == {i \in 1..Len(kept) : kept[i].op = "wipe"}
        at == IF wipes = {} THEN Len(kept) + 1 ELSE CHOOSE i \in wipes : \A j \in wipes : i <= j
    IN SubSeq(kept, 1, at - 1) \o <<Task("super", "super", "", "")>> \o SubSeq(kept, at, Len(kept))
WithResize(tasks) ==
    LET dyn == Only(tasks, InSuper)
        first == CHOOSE i \in 1..Len(tasks) : InSuper(tasks[i]) /\ \A j \in 1..(i - 1) : ~InSuper(tasks[j])
        resize == [i \in 1..Len(dyn) |-> Task("resize", dyn[i].part, hpPlan.slot, "")]
    IN IF dyn = <<>> THEN tasks
       ELSE SubSeq(tasks, 1, first - 1) \o resize \o SubSeq(tasks, first, Len(tasks))

(* The tasks Main runs when the command is done: reboot, then the wipes.   *)
FinalTasks(wipe) ==
    (IF hpPlan.reboot THEN <<Task("reboot", "", "", "")>> ELSE <<>>)
    \o (IF wipe THEN <<Task("wipe", "userdata", "", "")>> ELSE <<>>)

(* FlashAllTool::Flash after the slots are known.  GetPartitionAndSlot     *)
(* cannot name a partition for all slots and ends the client; a list that  *)
(* was flashed from fastboot-info.txt has done its own wipe.               *)
PlanTasks ==
    /\ hpPc = "collect"
    /\ IF FromInfo /\ hpPlan.slot = "all" /\ hpPlan.ab THEN Die
       ELSE /\ hpTodo' = IF FromInfo
                         THEN (IF CanOptimise THEN WithSuper(InfoTasks) ELSE WithResize(InfoTasks)) \o FinalTasks(FALSE)
                         ELSE HardcodedFlash \o FinalTasks(hpPlan.wipe)
            /\ hpPc' = "run"
            /\ UNCHANGED <<hpPlan, hpMode, hpActive, hpHolds, hpSize, hpCached>>

----------------------------------------------------------------------------
Running(op) == hpPc = "run" /\ hpTodo # <<>> /\ Head(hpTodo).op = op
Next_ == hpTodo' = Tail(hpTodo)

(* do_for_partitions: the partitions a task is about, from has-slot,       *)
(* slot-count and current-slot.                                            *)
Targets(t) ==
    IF ~hpPlan.ab THEN {<<t.part, "">>}
    ELSE {<<t.part, s>> : s \in IF t.slot = "all" THEN Slots ELSE IF t.slot = "" THEN {hpActive} ELSE {t.slot}}

(* get_sparse_limit asks the device once; a larger image is cut to it.     *)
CachedLimit == IF hpCached = -1 THEN Limit(hpMode) ELSE hpCached
DownloadSize(img) == IF ImageSize(img) > CachedLimit THEN CachedLimit ELSE ImageSize(img)

(* load_buf, is_logical, ResizePartition and flash_buf for one image in    *)
(* each target.  The device refuses a dynamic partition outside userspace  *)
(* fastboot, and a download above its limit.                               *)
FlashPartition ==
    LET t == Head(hpTodo)
    IN /\ Running("flash") \/ Running("image")
       /\ hpCached' = CachedLimit
       /\ IF Dynamic(t.part) /\ hpMode # "userspace"
          THEN hpPc' = "refused" /\ UNCHANGED <<hpTodo, hpHolds, hpSize>>
          ELSE IF DownloadSize(t.img) > Limit(hpMode)
          THEN hpPc' = "too large" /\ UNCHANGED <<hpTodo, hpHolds, hpSize>>
          ELSE /\ Next_
               /\ hpHolds' = [p \in Parts(hpPlan) |-> IF p \in Targets(t) THEN t.img ELSE hpHolds[p]]
               /\ hpSize' = [p \in Parts(hpPlan) |-> IF p \in Targets(t) /\ Dynamic(t.part)
                                                     THEN ImageSize(t.img) ELSE hpSize[p]]
               /\ UNCHANGED hpPc
       /\ UNCHANGED <<hpPlan, hpMode, hpActive>>

(* ResizeTask: to zero, where the partition is logical.                    *)
Resize ==
    LET t == Head(hpTodo)
    IN /\ Running("resize") /\ Next_
       /\ hpSize' = [p \in Parts(hpPlan) |-> IF p \in Targets(t) /\ Dynamic(t.part) /\ hpMode = "userspace"
                                             THEN 0 ELSE hpSize[p]]
       /\ hpHolds' = [p \in Parts(hpPlan) |-> IF hpSize'[p] = 0 THEN "empty" ELSE hpHolds[p]]
       /\ UNCHANGED <<hpPlan, hpPc, hpMode, hpActive, hpCached>>

(* FlashSuperLayoutTask::Run: every dynamic partition is laid out anew.    *)
FlashSuper ==
    /\ Running("super") /\ Next_
    /\ hpCached' = CachedLimit
    /\ LET img(s) == IF s = (IF hpPlan.slot = "" THEN hpActive ELSE hpPlan.slot) THEN "system.img"
                     ELSE IF ~SkipSecondary /\ s = SecondarySlot THEN "system_other.img" ELSE "empty"
       IN /\ hpHolds' = [p \in Parts(hpPlan) |-> IF p[1] = "system" THEN img(p[2]) ELSE hpHolds[p]]
          /\ hpSize' = [p \in Parts(hpPlan) |-> IF p[1] = "system" /\ img(p[2]) # "empty" THEN ImageSize(img(p[2]))
                                                ELSE IF p[1] = "system" THEN 0 ELSE hpSize[p]]
    /\ UNCHANGED <<hpPlan, hpPc, hpMode, hpActive>>

(* As a bug would have it: the limit of the bootloader is kept.            *)
ToUserspaceStale == hpMode' = "userspace" /\ UNCHANGED hpCached

(* reboot_to_userspace_fastboot: a new connection to the device in its     *)
(* other mode, whose limit is not known yet; or it never gets there.       *)
ToUserspace == hpMode' = "userspace" /\ hpCached' = IF hpMode = "userspace" THEN hpCached ELSE -1

(* UpdateSuperTask::Run: nothing without super_empty.img; otherwise the    *)
(* device is brought to userspace fastboot and told the new layout.        *)
UpdateSuper ==
    /\ Running("update-super") /\ Next_
    /\ IF ~hpPlan.superEmpty THEN UNCHANGED <<hpMode, hpCached>> ELSE ToUserspace
    /\ UNCHANGED <<hpPlan, hpPc, hpActive, hpHolds, hpSize>>

(* RebootTask::Run: into userspace fastboot if it is not there, or away.   *)
RebootTask ==
    /\ Running("reboot") /\ Next_
    /\ IF Head(hpTodo).part = "fastboot" THEN ToUserspace
       ELSE hpMode' = "gone" /\ UNCHANGED hpCached
    /\ UNCHANGED <<hpPlan, hpPc, hpActive, hpHolds, hpSize>>

(* WipeTask::Run: a device that does not answer getvar has no such         *)
(* partition, which is not an error.                                       *)
Wipe ==
    /\ Running("wipe") /\ Next_
    /\ IF hpMode = "gone" THEN UNCHANGED hpHolds
       ELSE hpHolds' = [hpHolds EXCEPT ![<<"userdata", "">>] = "wiped"]
    /\ UNCHANGED <<hpPlan, hpPc, hpMode, hpActive, hpSize, hpCached>>

(* Epilog ends the client when the device fails a command.                 *)
CommandFails ==
    /\ hpPc = "run" /\ hpTodo # <<>> /\ Head(hpTodo).op # "wipe"
    /\ Die

HostFinished ==
    /\ hpPc = "run" /\ hpTodo = <<>>
    /\ hpPc' = "finished"
    /\ UNCHANGED <<hpPlan, hpTodo, hpMode, hpActive, hpHolds, hpSize, hpCached>>

HostNext ==
    \/ VerifySlot \/ CheckRequirements \/ SetActive \/ PlanTasks
    \/ FlashPartition \/ Resize \/ FlashSuper \/ UpdateSuper \/ RebootTask \/ Wipe
    \/ CommandFails \/ HostFinished

HostSpec == HostInit /\ [][HostNext]_hpVars

----------------------------------------------------------------------------
(* Images are cut for the mode that receives them: the limit cached in the *)
(* bootloader is never used on userspace fastboot, whichever task changed  *)
(* the mode in between.                                                    *)
LimitIsFresh == hpPc # "too large"

(* A dynamic partition is flashed only once the device is in userspace     *)
(* fastboot: every order of tasks the client works out gets it there, and  *)
(* never ends halfway with the boot partitions already replaced.           *)
DynamicInUserspace == hpPc # "refused"

(* "On A/B devices, flashed slot is set as active" (show_help): when the   *)
(* client finishes, the slot that will boot holds the new images, and each *)
(* logical partition that holds one has room for it.  A --slot-other line  *)
(* with the secondary images skipped names no slot and is excepted: it     *)
(* overwrites the active one.                                              *)
ActiveIsFlashed ==
    hpPc = "finished" /\ ~(hpPlan.info = "list-other" /\ SkipSecondary) =>
        /\ hpHolds[<<"boot", hpActive>>] = "boot.img"
        /\ hpHolds[<<"system", hpActive>>] = "system.img"
        /\ hpPlan.superEmpty => hpSize[<<"system", hpActive>>] = ImageSize("system.img")

(* The other slot's boot partition is kept as the way back, unless all     *)
(* slots were asked for.                                                   *)
OtherBootKept ==
    hpPlan.ab /\ hpPlan.slot # "all" /\ hpPc \in {"run", "finished"} =>
        hpHolds[<<"boot", OtherSlot(hpActive)>>] = "old"

(* Every plan of tasks that the options and fastboot-info.txt give works:  *)
(* its steps come in a mode that can take them, and it leaves a slot that  *)
(* boots the new images and one to fall back to.                           *)
PlanWorks == LimitIsFresh /\ DynamicInUserspace /\ ActiveIsFlashed /\ OtherBootKept
=============================================================================
