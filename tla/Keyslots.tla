------------------------------ MODULE Keyslots ------------------------------
(***************************************************************************)
(* oem cryptinit, cryptopen and cryptsetpassword (commands.cpp) over       *)
(* libcryptsetup (crypto_native.cpp), with the cryptsetup binary as the    *)
(* fallback.  Slot 0 of the LUKS header is for the key derived from the    *)
(* device identity, slot 1 for the user's passphrase.                      *)
(*                                                                         *)
(* Every library call and every spawned command may fail, and power may go *)
(* between any two of them; a call changes the header as a whole or not at *)
(* all (LUKS2 keeps two copies).  Only the control session has these       *)
(* commands, so they do not overlap.                                       *)
(***************************************************************************)
EXTENDS Naturals

CONSTANTS Passphrases, \* what a host sets in slot 1
          Empty,       \* an unused slot
          HwKey        \* generateLuksKeyFromPartition's result

ASSUME KeyslotsAssumption == Empty \notin Passphrases /\ HwKey \notin Passphrases \union {Empty}

VARIABLES
  luks,     \* whether the device has a LUKS header
  slot,     \* what opens the device through slot 0 and slot 1
  opened,   \* the mapping: closed, open, or open with its partitions mapped
  crPc,     \* where the handler is
  crAsk,    \* the passphrase asked for, Empty to remove it
  crSaid,   \* the last reply
  inited,   \* history: cryptinit reported success, and none was begun since
  settled   \* history: cryptsetpassword's last word on slot 1, or "unknown"

crVars == <<luks, slot, opened, crPc, crAsk, crSaid, inited, settled>>
disk == <<luks, slot>>
history == <<inited, settled>>

KeysInit ==
  /\ luks = FALSE /\ slot = <<Empty, Empty>> /\ opened = "closed"
  /\ crPc = "idle" /\ crAsk = Empty /\ crSaid = "none"
  /\ inited = FALSE /\ settled = Empty

\* The handler's reply; temporary key files go with it (TempFile).
KeysReply(r) == crPc' = "idle" /\ crSaid' = r

Goto(step) == crPc' = step /\ UNCHANGED crSaid
----------------------------------------------------------------------------
\* A command is refused before anything is touched: no argument, no key from
\* the firmware, no such partition.
Refuse ==
  /\ crPc = "idle"
  /\ KeysReply("FAIL")
  /\ UNCHANGED <<disk, opened, crAsk, history>>

CryptInit ==
  /\ crPc = "idle"
  /\ Goto("format")
  /\ inited' = FALSE
  /\ UNCHANGED <<disk, opened, crAsk, settled>>

\* crypt_format: a new header without keys.  It is refused while the mapping
\* holds the device.
Formatted ==
  /\ opened = "closed"
  /\ luks' = TRUE /\ slot' = <<Empty, Empty>>
  /\ settled' = Empty

CryptFormatNative ==
  /\ crPc = "format"
  /\ \/ Formatted /\ Goto("add hardware key")
     \/ UNCHANGED <<disk, settled>> /\ Goto("luksFormat")
  /\ UNCHANGED <<opened, crAsk, inited>>

AddHardwareKey ==
  /\ crPc = "add hardware key"
  /\ \/ slot' = [slot EXCEPT ![1] = HwKey] /\ KeysReply("OKAY") /\ inited' = TRUE
     \/ UNCHANGED <<slot, inited>> /\ Goto("luksFormat")
  /\ UNCHANGED <<luks, opened, crAsk, settled>>

\* The binary formats and adds the key, or leaves a header without one, or
\* does nothing (it may not be installed).
LuksFormat ==
  /\ crPc = "luksFormat"
  /\ \/ /\ opened = "closed"
        /\ luks' = TRUE /\ slot' = <<HwKey, Empty>> /\ settled' = Empty
        /\ KeysReply("OKAY") /\ inited' = TRUE
     \/ Formatted /\ KeysReply("FAIL") /\ UNCHANGED inited
     \/ UNCHANGED <<disk, inited, settled>> /\ KeysReply("FAIL")
  /\ UNCHANGED <<opened, crAsk>>
----------------------------------------------------------------------------
\* cryptopen: any slot that takes the hardware key; AfterCryptOpen maps the
\* partitions inside if there is a GPT, and only reports when it cannot.
CryptOpen ==
  /\ crPc = "idle"
  /\ \/ /\ luks /\ HwKey \in {slot[1], slot[2]} /\ opened = "closed"
        /\ opened' \in {"open", "partitions"}
        /\ KeysReply("OKAY")
     \/ KeysReply("FAIL") /\ UNCHANGED opened
  /\ UNCHANGED <<disk, crAsk, history>>

\* The mapping goes (IDP's close, or the host's own).
CryptClose ==
  /\ crPc = "idle" /\ opened # "closed"
  /\ opened' = "closed"
  /\ UNCHANGED <<disk, crPc, crAsk, crSaid, history>>
----------------------------------------------------------------------------
\* cryptsetpassword: an empty passphrase removes the one that is set.
CryptSetPassword(p) ==
  /\ crPc = "idle"
  /\ crAsk' = p
  /\ settled' = "unknown"
  /\ IF luks THEN Goto("destroy") ELSE Goto("kill")
  /\ UNCHANGED <<disk, opened, inited>>

\* Success on slot 1.
Settle == KeysReply("OKAY") /\ settled' = crAsk

\* Mutant of KeyslotDestroy: the slots are counted from the other end.
KeyslotDestroyFirst ==
  /\ crPc = "destroy"
  /\ slot' = [slot EXCEPT ![1] = Empty]
  /\ IF crAsk = Empty THEN Settle ELSE Goto("add") /\ UNCHANGED settled
  /\ UNCHANGED <<luks, opened, crAsk, inited>>

\* crypt_keyslot_destroy(cd, 1): its failure ends a removal in the fallback
\* (ENOENT is success) and is ignored before an add.
KeyslotDestroy ==
  /\ crPc = "destroy"
  /\ \/ /\ slot' = [slot EXCEPT ![2] = Empty]
        /\ IF crAsk = Empty THEN Settle
           ELSE Goto("add") /\ UNCHANGED settled
     \/ /\ slot[2] # Empty
        /\ Goto(IF crAsk = Empty THEN "kill" ELSE "add")
        /\ UNCHANGED <<slot, settled>>
  /\ UNCHANGED <<luks, opened, crAsk, inited>>

\* crypt_keyslot_add_by_passphrase(cd, 1, hw_key, ...): an occupied slot or a
\* hardware key that opens nothing is an error.
KeyslotAdd ==
  /\ crPc = "add"
  /\ \/ /\ slot[2] = Empty /\ HwKey = slot[1]
        /\ slot' = [slot EXCEPT ![2] = crAsk]
        /\ Settle
     \/ Goto("kill") /\ UNCHANGED <<slot, settled>>
  /\ UNCHANGED <<luks, opened, crAsk, inited>>

\* cryptsetup luksKillSlot 1: its result is the reply to a removal, and is
\* ignored before luksAddKey.  It asks for the key of another slot.
LuksKillSlot ==
  /\ crPc = "kill"
  /\ \/ /\ luks /\ slot[2] # Empty /\ HwKey = slot[1]
        /\ slot' = [slot EXCEPT ![2] = Empty]
        /\ IF crAsk = Empty THEN Settle
           ELSE Goto("luksAddKey") /\ UNCHANGED settled
     \/ /\ UNCHANGED <<slot, settled>>
        /\ IF crAsk = Empty THEN KeysReply("FAIL") ELSE Goto("luksAddKey")
  /\ UNCHANGED <<luks, opened, crAsk, inited>>

\* cryptsetup luksAddKey --key-slot 1.
LuksAddKey ==
  /\ crPc = "luksAddKey"
  /\ \/ /\ luks /\ slot[2] = Empty /\ HwKey = slot[1]
        /\ slot' = [slot EXCEPT ![2] = crAsk]
        /\ Settle
     \/ KeysReply("FAIL") /\ UNCHANGED <<slot, settled>>
  /\ UNCHANGED <<luks, opened, crAsk, inited>>

\* Power goes: the header stays, the mapping and the handler are gone.
CryptPowerCut ==
  /\ crPc' = "idle" /\ crSaid' = "none" /\ opened' = "closed"
  /\ UNCHANGED <<disk, crAsk, history>>

KeysNext ==
  \/ Refuse \/ CryptInit \/ CryptFormatNative \/ AddHardwareKey \/ LuksFormat
  \/ CryptOpen \/ CryptClose
  \/ \E p \in Passphrases \union {Empty} : CryptSetPassword(p)
  \/ KeyslotDestroy \/ KeyslotAdd \/ LuksKillSlot \/ LuksAddKey
  \/ CryptPowerCut

KeysSpec == KeysInit /\ [][KeysNext]_crVars
----------------------------------------------------------------------------
\* Once cryptinit has reported success the hardware key opens the device until
\* another cryptinit: no change of the passphrase, failed or cut short
\* anywhere, takes away the key that the boot needs.
HardwareKeyKept == inited => luks /\ slot[1] = HwKey

\* What cryptsetpassword last reported is what slot 1 holds, whichever of its
\* two ways got there.
PassphraseAsReported == settled # "unknown" => slot[2] = settled

\* What is open can be opened again: the header under a mapping is not
\* replaced, and the key that opened it is still there.
OpenIsBacked == opened # "closed" => luks /\ slot[1] = HwKey

\* Whatever fails or is cut short in the crypt commands, the key slots are what
\* was reported, the device key's first of all.
SlotsAsReported == HardwareKeyKept /\ PassphraseAsReported /\ OpenIsBacked
============================================================================
