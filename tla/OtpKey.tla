------------------------------- MODULE OtpKey -------------------------------
(***************************************************************************)
(* The device private key in OTP: the lock pass fastbootd makes at start-  *)
(* up (main.cpp: LockOtpKeyAtStartup), oem fwcrypto (commands.cpp) and     *)
(* getvar private-key (variables.cpp: GetPrivkey) over rpi::RpiFwCrypto    *)
(* (utility.cpp), whose provisioning status is read once and cached.       *)
(*                                                                         *)
(* Every mailbox call to the firmware may fail, and power may go between   *)
(* any two of them.  OTP keeps the key; the LOCKED flag lasts until the    *)
(* next boot, which may set it by itself (lock_device_private_key=1).      *)
(* The control session is the only one that has these commands, and the    *)
(* service is not restarted, so a new process means a new boot.            *)
(***************************************************************************)
VARIABLES
  provisioned, \* OTP holds a key
  locked,      \* ARM_CRYPTO_KEY_STATUS_READ_LOCKED
  cached,      \* RpiFwCrypto::key_provisioned_status_
  lockStatus,  \* g_otp_lock_status
  pc,          \* boot, idle, or where `oem fwcrypto init` is
  reply,       \* the last reply
  exported     \* getvar private-key has given out the provisioned key

vars == <<provisioned, locked, cached, lockStatus, pc, reply, exported>>

Reply(c, s) == reply' = [cmd |-> c, status |-> s]

\* RpiFwCrypto::IsKeyProvisioned: the truth, or an error.
IsKeyProvisioned == {IF provisioned THEN "yes" ELSE "no", "error"}

\* RpiFwCrypto::LockKey succeeded, or failed in one of its two calls.
LockKey(ok) == locked' = (locked \/ ok)

\* Before LockOtpKeyAtStartup has run nothing is cached and the status is "ok".
Booted ==
  /\ locked' \in BOOLEAN
  /\ cached' = "unset" /\ lockStatus' = "ok" /\ pc' = "boot"
  /\ Reply("none", "none")

Init ==
  /\ provisioned \in BOOLEAN /\ locked \in BOOLEAN
  /\ cached = "unset" /\ lockStatus = "ok" /\ pc = "boot"
  /\ reply = [cmd |-> "none", status |-> "none"]
  /\ exported = FALSE

\* reboot, a power cut or the death of the daemon, in the middle of init too.
Reboot == Booted /\ UNCHANGED <<provisioned, exported>>

StartupWith(status) ==
  /\ cached' = status
  /\ \/ status = "error" /\ lockStatus' = "read-failed" /\ UNCHANGED locked
     \/ status = "no" /\ lockStatus' = "not-provisioned" /\ UNCHANGED locked
     \/ /\ status = "yes"
        /\ \/ locked /\ lockStatus' = "ok" /\ UNCHANGED locked
           \* unlocked, or IsKeyLocked() could not tell
           \/ \E ok \in BOOLEAN :
                LockKey(ok) /\ lockStatus' = IF ok THEN "ok" ELSE "lock-failed"
  /\ pc' = "idle"
  /\ UNCHANGED <<provisioned, reply, exported>>

\* Mutant of LockOtpKeyAtStartup: LockKey's result is not looked at.
LockOtpKeyAtStartupTrusting ==
  /\ pc = "boot"
  /\ cached' \in IsKeyProvisioned
  /\ \E ok \in BOOLEAN : LockKey(ok)
  /\ lockStatus' = "ok" /\ pc' = "idle"
  /\ UNCHANGED <<provisioned, reply, exported>>
\* LockOtpKeyAtStartup: the first RpiFwCrypto caches the status; a provisioned
\* key is locked; the outcome is recorded for the whole of this boot.
LockOtpKeyAtStartup == pc = "boot" /\ \E s \in IsKeyProvisioned : StartupWith(s)

\* oem fwcrypto status answers from the cache.
FwcryptoStatus ==
  /\ pc = "idle"
  /\ Reply("status", IF cached = "error" THEN "FAIL" ELSE cached)
  /\ UNCHANGED <<provisioned, locked, cached, lockStatus, pc, exported>>

\* oem fwcrypto init: an already provisioned key is success, by the cache or,
\* when the cache does not say so, by the firmware's KEY_NOT_BLANK.
InitWith(next) ==
  /\ pc = "idle"
  /\ \/ /\ cached = "yes"
        /\ Reply("init", "OKAY")
        /\ UNCHANGED <<provisioned, pc>>
     \/ /\ cached # "yes" /\ provisioned
        /\ pc' = "notblank"
        /\ UNCHANGED <<provisioned, reply>>
     \/ /\ cached # "yes" /\ ~provisioned
        /\ provisioned' = TRUE
        /\ pc' = next
        /\ UNCHANGED reply
     \/ /\ cached # "yes"
        /\ Reply("init", "FAIL")
        /\ UNCHANGED <<provisioned, pc>>
  /\ UNCHANGED <<locked, cached, lockStatus, exported>>

\* Mutant of FwcryptoInit: the cache is not refreshed after ProvisionKey.
FwcryptoInitStale == InitWith("lock")

FwcryptoInit == InitWith("refresh")

\* RefreshProvisioningStatus; after KEY_NOT_BLANK that is all.
InitRefresh ==
  /\ pc \in {"refresh", "notblank"}
  /\ cached' \in IsKeyProvisioned
  /\ \/ pc = "refresh" /\ pc' = "lock" /\ UNCHANGED reply
     \/ pc = "notblank" /\ pc' = "idle" /\ Reply("init", "OKAY")
  /\ UNCHANGED <<provisioned, locked, lockStatus, exported>>

\* LockKey, and a FAIL if it did not lock.
InitLock ==
  /\ pc = "lock"
  /\ \E ok \in BOOLEAN : LockKey(ok) /\ Reply("init", IF ok THEN "OKAY" ELSE "FAIL")
  /\ pc' = "idle"
  /\ UNCHANGED <<provisioned, cached, lockStatus, exported>>

IsOtpLockStatusSafe == lockStatus \in {"ok", "not-provisioned"}

\* getvar private-key: refused unless the lock status is safe and the cache says
\* there is no key; then the firmware is asked, and it gives out a key that is
\* there and not locked.
GetPrivkey ==
  /\ pc = "idle"
  /\ LET asked == IsOtpLockStatusSafe /\ cached = "no"
     IN  exported' = (exported \/ (asked /\ provisioned /\ ~locked))
  /\ Reply("privkey", "OKAY")
  /\ UNCHANGED <<provisioned, locked, cached, lockStatus, pc>>

Next ==
  \/ Reboot \/ LockOtpKeyAtStartup \/ FwcryptoStatus
  \/ FwcryptoInit \/ InitRefresh \/ InitLock \/ GetPrivkey

Spec == Init /\ [][Next]_vars
----------------------------------------------------------------------------
\* Every variable has its type; after the lock pass the status is cached.
TypeOK ==
  /\ provisioned \in BOOLEAN /\ locked \in BOOLEAN /\ exported \in BOOLEAN
  /\ cached \in {"unset", "yes", "no", "error"}
  /\ (cached = "unset") <=> (pc = "boot")
  /\ lockStatus \in {"ok", "not-provisioned", "read-failed", "lock-failed"}
  /\ pc \in {"boot", "idle", "refresh", "notblank", "lock"}
  /\ reply \in [cmd : {"none", "status", "init", "privkey"},
                status : {"none", "OKAY", "FAIL", "yes", "no"}]

\* A provisioned key never leaves the device, whichever firmware calls failed,
\* with or without the LOCKED flag and across reboots: the cached status is
\* never a stale "no" when GetPrivkey relies on it.
NeverExported == ~exported

\* constants.h:144 - once the lock pass is over, "ok" in otp-lock-status means
\* that the slot is LOCKED, for the rest of the boot.
OkMeansLocked == (lockStatus = "ok" /\ pc # "boot") => locked

\* commands.cpp:1798 - provisioning is never reported as a success while the
\* private key is left exportable.
InitLeavesLocked == (reply.cmd = "init" /\ reply.status = "OKAY") => locked
============================================================================
