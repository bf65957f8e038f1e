----------------------------- MODULE BoardProofs -----------------------------
(***************************************************************************)
(* What the board keeps between commands and what it is told to be, in     *)
(* six parts that share no state.                                          *)
(*  - OtpKey: the state is finite, but the argument is worth having: what  *)
(*    keeps the key in is the freshness of the cache, not the LOCKED flag, *)
(*    which a failed LockKey leaves clear.                                 *)
(*  - OtpRows implements WriteOnce, for every set of interfaces, any       *)
(*    number of customer rows and octets of any width: an address that     *)
(*    reads blank is blank in every bit, and only words that are blank or  *)
(*    already right are ever handed to the firmware.                       *)
(*  - Keyslots, for every set of passphrases: the device key survives      *)
(*    every failed, repeated or interrupted command, a reported passphrase *)
(*    is the one in its slot, and an open mapping always has a header      *)
(*    behind it.                                                           *)
(*  - Staged, for every set of payloads, every chip size and board         *)
(*    minimum: what the chip and the file were reported to hold they hold, *)
(*    no image older than the board's minimum is written, and no           *)
(*    half-filled buffer is left for the next command.                     *)
(*  - BoardVars, for every set of boards and any number of sessions: an    *)
(*    answer of getvar is about this board, however the sessions truncate  *)
(*    each other's dump of OTP.                                            *)
(*  - NetVars, for every set of values: getvar says of the network nothing *)
(*    that was never so and, while an interface is steady, what it had     *)
(*    during the query, whatever earlier commands left in the files.       *)
(***************************************************************************)
EXTENDS OtpKey, OtpRows, Keyslots, Staged, BoardVars, NetVars, SequenceTheorems, TLAPS

\* The cache is never a stale "no", except between ProvisionKey and the
\* refresh, where GetPrivkey cannot come; "ok" means LOCKED.
CacheFresh == (cached = "no" /\ pc # "refresh") => ~provisioned
Inv == TypeOK /\ CacheFresh /\ NeverExported /\ OkMeansLocked

\* Every step keeps the invariant.
LEMMA InvStep == Inv /\ [Next]_vars => Inv'
<1> SUFFICES ASSUME Inv, [Next]_vars PROVE Inv'
  OBVIOUS
<1> USE DEF Inv, TypeOK, CacheFresh, NeverExported, OkMeansLocked, Reply
<1>1. CASE Reboot
  BY <1>1, Zenon DEF Reboot, Booted
<1>2. CASE LockOtpKeyAtStartup
  BY <1>2 DEF LockOtpKeyAtStartup, StartupWith, IsKeyProvisioned, LockKey
<1>3. CASE FwcryptoStatus
  BY <1>3 DEF FwcryptoStatus
<1>4. CASE FwcryptoInit
  <2>1. UNCHANGED <<locked, cached, lockStatus, exported>> /\ pc = "idle"
    BY <1>4 DEF FwcryptoInit, InitWith
  <2>2. reply' \in {reply, [cmd |-> "init", status |-> "OKAY"],
                           [cmd |-> "init", status |-> "FAIL"]}
    BY <1>4 DEF FwcryptoInit, InitWith
  <2>3. \/ UNCHANGED <<provisioned, pc>>
        \/ UNCHANGED provisioned /\ pc' = "notblank"
        \/ provisioned' = TRUE /\ pc' = "refresh"
    BY <1>4 DEF FwcryptoInit, InitWith
  <2>4. cached # "unset" /\ pc' # "boot" /\ provisioned' \in BOOLEAN
    BY <2>1, <2>3
  <2>5. TypeOK'
    BY <2>1, <2>2, <2>3, <2>4
  <2>6. CacheFresh'
    BY <2>1, <2>3
  <2>7. NeverExported' /\ OkMeansLocked'
    BY <2>1
  <2> QED BY <2>5, <2>6, <2>7
<1>5. CASE InitRefresh
  BY <1>5 DEF InitRefresh, IsKeyProvisioned
<1>6. CASE InitLock
  BY <1>6 DEF InitLock, LockKey
<1>7. CASE GetPrivkey
  BY <1>7 DEF GetPrivkey
<1>8. CASE UNCHANGED vars
  BY <1>8 DEF vars
<1> QED
  BY <1>1, <1>2, <1>3, <1>4, <1>5, <1>6, <1>7, <1>8 DEF Next

\* The invariant holds from the first boot on.
LEMMA InvAlways == Spec => []Inv
<1>1. Init => Inv
  <2> SUFFICES ASSUME Init PROVE Inv
    OBVIOUS
  <2>1. TypeOK
    BY DEF Init, TypeOK
  <2>2. CacheFresh /\ NeverExported /\ OkMeansLocked
    BY DEF Init, CacheFresh, NeverExported, OkMeansLocked
  <2> QED BY <2>1, <2>2 DEF Inv
<1> QED BY <1>1, InvStep, PTL DEF Spec

\* A provisioned key is never given out by getvar private-key, whichever
\* firmware calls fail and wherever power is lost.
THEOREM KeyStaysIn == Spec => []NeverExported
<1>1. Inv => NeverExported
  BY DEF Inv
<1> QED BY <1>1, InvAlways, PTL

\* otp-lock-status "ok" is the truth for the rest of the boot.
THEOREM StatusIsTrue == Spec => []OkMeansLocked
<1>1. Inv => OkMeansLocked
  BY DEF Inv
<1> QED BY <1>1, InvAlways, PTL

\* The types, with the one relation among them that the rest needs: the status
\* is cached from the end of the lock pass on.
THEOREM KeyTypes == Spec => []TypeOK
<1>1. Inv => TypeOK
  BY DEF Inv
<1> QED BY <1>1, InvAlways, PTL
----------------------------------------------------------------------------
\* What each slot may hold: slot 0 of the header only ever gets the device
\* key, slot 1 never does.
SlotType ==
  /\ luks \in BOOLEAN /\ inited \in BOOLEAN
  /\ slot \in [1 .. 2 -> Passphrases \union {Empty, HwKey}]
  /\ slot[1] \in {Empty, HwKey}
  /\ slot[2] \in Passphrases \union {Empty}
  /\ crAsk \in Passphrases \union {Empty}

\* What a handler may rely on where it stands: cryptinit has withdrawn the
\* promise that HardwareKeyKept is about before it touches the header, and the
\* key is only added to a header that nothing has open.
AtStep ==
  /\ crPc \in {"format", "add hardware key", "luksFormat"} => ~inited
  /\ crPc = "add hardware key" => luks /\ opened = "closed"
  /\ crPc \in {"destroy", "add", "kill", "luksAddKey"} => settled = "unknown"

KeysInv ==
  /\ SlotType
  /\ AtStep
  /\ HardwareKeyKept
  /\ PassphraseAsReported
  /\ OpenIsBacked

\* The two slots of a new header.
LEMMA Pair ==
  ASSUME NEW a, NEW b
  PROVE  /\ <<a, b>>[1] = a /\ <<a, b>>[2] = b
         /\ <<a, b>> \in [1 .. 2 -> {a, b}]
OBVIOUS

\* KeysInv holds of a device that has just come up.
LEMMA KeysInvInit == KeysInit => KeysInv
<1> SUFFICES ASSUME KeysInit PROVE KeysInv
  OBVIOUS
<1>1. slot[1] = Empty /\ slot[2] = Empty /\ slot \in [1 .. 2 -> {Empty}]
  BY Pair DEF KeysInit
<1>2. SlotType
  BY <1>1 DEF KeysInit, SlotType
<1> QED
  BY <1>1, <1>2 DEF KeysInit, KeysInv, AtStep, HardwareKeyKept, PassphraseAsReported, OpenIsBacked

\* A new header, with or without the device key in it.
LEMMA NewHeader ==
  ASSUME NEW k \in {Empty, HwKey}, slot' = <<k, Empty>>
  PROVE  /\ slot'[1] = k /\ slot'[2] = Empty
         /\ slot' \in [1 .. 2 -> Passphrases \union {Empty, HwKey}]
<1>1. slot' \in [1 .. 2 -> {k, Empty}] /\ slot'[1] = k /\ slot'[2] = Empty
  BY Pair
<1> QED BY <1>1

\* The header once the device key is in slot 0.
LEMMA Keyed ==
  ASSUME SlotType
  PROVE  /\ [slot EXCEPT ![1] = HwKey][1] = HwKey
         /\ [slot EXCEPT ![1] = HwKey][2] = slot[2]
         /\ [slot EXCEPT ![1] = HwKey] \in [1 .. 2 -> Passphrases \union {Empty, HwKey}]
<1> DEFINE V == Passphrases \union {Empty, HwKey}
<1>1. slot \in [1 .. 2 -> V] /\ HwKey \in V
  BY DEF SlotType
<1> HIDE DEF V
<1>2. /\ [slot EXCEPT ![1] = HwKey][1] = HwKey
      /\ [slot EXCEPT ![1] = HwKey][2] = slot[2]
      /\ [slot EXCEPT ![1] = HwKey] \in [1 .. 2 -> V]
  BY <1>1
<1> QED BY <1>2 DEF V

\* cryptinit, by the library or by the binary.
LEMMA InitKeeps ==
  ASSUME KeysInv, CryptInit \/ CryptFormatNative \/ AddHardwareKey \/ LuksFormat
  PROVE  KeysInv'
<1> USE KeyslotsAssumption
        DEF KeysInv, SlotType, AtStep, HardwareKeyKept, PassphraseAsReported, OpenIsBacked,
            KeysReply, Goto
<1>1. CASE CryptInit
  BY <1>1 DEF CryptInit, disk
<1>2. CASE CryptFormatNative
  <2>1. CASE Formatted /\ Goto("add hardware key")
    <3>1. slot' = <<Empty, Empty>>
      BY <2>1 DEF Formatted
    <3>2. slot'[1] = Empty /\ slot'[2] = Empty
          /\ slot' \in [1 .. 2 -> Passphrases \union {Empty, HwKey}]
      BY <3>1, NewHeader
    <3>3. luks' = TRUE /\ settled' = Empty /\ opened = "closed" /\ ~inited
          /\ UNCHANGED <<opened, crAsk, inited>> /\ crPc' = "add hardware key"
      BY <1>2, <2>1 DEF CryptFormatNative, Formatted
    <3> QED BY <3>2, <3>3
  <2>2. CASE UNCHANGED <<disk, settled>> /\ Goto("luksFormat")
    BY <1>2, <2>2 DEF CryptFormatNative, disk
  <2> QED BY <1>2, <2>1, <2>2 DEF CryptFormatNative
<1>3. CASE AddHardwareKey
  <2> DEFINE keyed == [slot EXCEPT ![1] = HwKey]
  <2>1. /\ keyed[1] = HwKey /\ keyed[2] = slot[2]
        /\ keyed \in [1 .. 2 -> Passphrases \union {Empty, HwKey}]
    BY Keyed
  <2>2. UNCHANGED <<luks, opened, crAsk, settled>> /\ luks /\ opened = "closed" /\ ~inited
    BY <1>3 DEF AddHardwareKey
  <2>3. \/ crPc' = "idle" /\ inited' = TRUE /\ slot' = keyed
        \/ crPc' = "luksFormat" /\ inited' = inited /\ slot' = slot
    BY <1>3, Zenon DEF AddHardwareKey
  <2> HIDE DEF keyed
  <2>4. CASE crPc' = "idle" /\ inited' = TRUE /\ slot' = keyed
    BY <2>1, <2>2, <2>4
  <2>5. CASE crPc' = "luksFormat" /\ inited' = inited /\ slot' = slot
    BY <2>2, <2>5
  <2> QED BY <2>3, <2>4, <2>5
<1>4. CASE LuksFormat
  <2>1. UNCHANGED <<opened, crAsk>> /\ crPc' = "idle" /\ ~inited
    BY <1>4 DEF LuksFormat
  <2>2. CASE slot' = <<HwKey, Empty>> /\ luks' = TRUE /\ settled' = Empty /\ inited' = TRUE
    <3>1. slot'[1] = HwKey /\ slot'[2] = Empty
          /\ slot' \in [1 .. 2 -> Passphrases \union {Empty, HwKey}]
      BY <2>2, NewHeader
    <3> QED BY <2>1, <2>2, <3>1
  <2>3. CASE Formatted /\ UNCHANGED inited
    <3>1. slot' = <<Empty, Empty>> /\ luks' = TRUE /\ settled' = Empty /\ opened = "closed"
      BY <2>3 DEF Formatted
    <3>2. slot'[1] = Empty /\ slot'[2] = Empty
          /\ slot' \in [1 .. 2 -> Passphrases \union {Empty, HwKey}]
      BY <3>1, NewHeader
    <3> QED BY <2>1, <2>3, <3>1, <3>2
  <2>4. CASE UNCHANGED <<disk, inited, settled>>
    BY <2>1, <2>4 DEF disk
  <2> QED BY <1>4, <2>2, <2>3, <2>4, Zenon DEF LuksFormat
<1> QED BY <1>1, <1>2, <1>3, <1>4

\* cryptopen and the end of a mapping.
LEMMA OpenKeeps ==
  ASSUME KeysInv, Refuse \/ CryptOpen \/ CryptClose \/ CryptPowerCut
  PROVE  KeysInv'
<1> USE KeyslotsAssumption
        DEF KeysInv, SlotType, AtStep, HardwareKeyKept, PassphraseAsReported, OpenIsBacked
<1>1. UNCHANGED <<luks, slot, crAsk, inited, settled>>
  BY DEF Refuse, CryptOpen, CryptClose, CryptPowerCut, disk, history
<1>2. crPc' = "idle"
  BY DEF Refuse, CryptOpen, CryptClose, CryptPowerCut, KeysReply
<1>3. \/ opened' \in {opened, "closed"}
      \/ luks /\ HwKey \in {slot[1], slot[2]}
  BY ZenonT(60) DEF Refuse, CryptOpen, CryptClose, CryptPowerCut
<1> QED BY <1>1, <1>2, <1>3

\* cryptsetpassword touches slot 1 only, and reports what it left there.
LEMMA PasswordKeeps ==
  ASSUME KeysInv,
         \/ \E p \in Passphrases \union {Empty} : CryptSetPassword(p)
         \/ KeyslotDestroy \/ KeyslotAdd \/ LuksKillSlot \/ LuksAddKey
  PROVE  KeysInv'
<1> USE KeyslotsAssumption
        DEF KeysInv, SlotType, AtStep, HardwareKeyKept, PassphraseAsReported, OpenIsBacked,
            KeysReply, Goto, disk, history, Settle
<1>1. CASE \E p \in Passphrases \union {Empty} : CryptSetPassword(p)
  <2>1. UNCHANGED <<luks, slot, opened, inited>> /\ settled' = "unknown"
    BY <1>1 DEF CryptSetPassword
  <2>2. crPc' \in {"destroy", "kill"} /\ crAsk' \in Passphrases \union {Empty}
    BY <1>1 DEF CryptSetPassword
  <2> QED BY <2>1, <2>2
<1>2. CASE KeyslotDestroy
  <2>1. SlotType' /\ slot'[1] = slot[1]
    BY <1>2 DEF KeyslotDestroy
  <2>2. settled' = "unknown" \/ slot'[2] = settled'
    BY <1>2 DEF KeyslotDestroy
  <2>3. AtStep'
    BY <1>2 DEF KeyslotDestroy
  <2> QED BY <1>2, <2>1, <2>2, <2>3 DEF KeyslotDestroy
<1>3. CASE KeyslotAdd
  <2>1. SlotType' /\ slot'[1] = slot[1]
    BY <1>3 DEF KeyslotAdd
  <2>2. settled' = "unknown" \/ slot'[2] = settled'
    BY <1>3 DEF KeyslotAdd
  <2> QED BY <1>3, <2>1, <2>2 DEF KeyslotAdd
<1>4. CASE LuksKillSlot
  <2>1. SlotType' /\ slot'[1] = slot[1]
    BY <1>4 DEF LuksKillSlot
  <2>2. settled' = "unknown" \/ slot'[2] = settled'
    BY <1>4 DEF LuksKillSlot
  <2> QED BY <1>4, <2>1, <2>2 DEF LuksKillSlot
<1>5. CASE LuksAddKey
  <2>1. SlotType' /\ slot'[1] = slot[1]
    BY <1>5 DEF LuksAddKey
  <2>2. settled' = "unknown" \/ slot'[2] = settled'
    BY <1>5 DEF LuksAddKey
  <2> QED BY <1>5, <2>1, <2>2 DEF LuksAddKey
<1> QED BY <1>1, <1>2, <1>3, <1>4, <1>5

\* KeysInv is about the variables of Keyslots only.
LEMMA KeysInvStutter == ASSUME KeysInv, UNCHANGED crVars PROVE KeysInv'
BY DEF KeysInv, SlotType, AtStep, HardwareKeyKept, PassphraseAsReported, OpenIsBacked, crVars

\* KeysInv is an invariant of Keyslots.
LEMMA KeysInvHolds == KeysSpec => []KeysInv
<1>1. KeysInv /\ [KeysNext]_crVars => KeysInv'
  BY InitKeeps, OpenKeeps, PasswordKeeps, KeysInvStutter DEF KeysNext
<1> QED BY KeysInvInit, <1>1, PTL DEF KeysSpec

\* Once cryptinit has reported success, nothing that cryptsetpassword does or
\* fails to do, and no loss of power, takes the device key out of slot 0.
THEOREM HardwareKeyAlwaysKept == KeysSpec => []HardwareKeyKept
<1>1. KeysInv => HardwareKeyKept
  BY DEF KeysInv
<1> QED BY KeysInvHolds, <1>1, PTL

\* The last word of cryptsetpassword on slot 1 is true until the next command
\* on it, through the library or through the binary.
THEOREM PassphraseAlwaysAsReported == KeysSpec => []PassphraseAsReported
<1>1. KeysInv => PassphraseAsReported
  BY DEF KeysInv
<1> QED BY KeysInvHolds, <1>1, PTL

\* An open mapping has its header and the key that opened it behind it.
THEOREM OpenAlwaysBacked == KeysSpec => []OpenIsBacked
<1>1. KeysInv => OpenIsBacked
  BY DEF KeysInv
<1> QED BY KeysInvHolds, <1>1, PTL

\* The crypt commands keep all three: the key slots are what was reported of
\* them, for any set of passphrases.
THEOREM SlotsAlwaysAsReported == KeysSpec => []SlotsAsReported
BY HardwareKeyAlwaysKept, PassphraseAlwaysAsReported, OpenAlwaysBacked, PTL DEF SlotsAsReported
----------------------------------------------------------------------------
\* Everything that is ever whole: a download, or what a chip or file held.
Whole == Payloads \union {Factory, Torn, NoData}

\* While the chip or the file is written nothing is claimed of it, and the image
\* that is being written passed the check; a handler that fills the
\* buffer is the only one that sees it half filled.
StagedInv ==
  /\ stBuf \in Whole \union {Half} /\ chip \in Whole /\ file \in Whole
  /\ stPc \notin {"fread", "fread forever"} => stBuf # Half
  /\ stPc = "image_write" => chipSaid = Unknown /\ stBuf # NoData /\ CheckMinBootVer(stBuf)
  /\ stPc = "write" => fileSaid = Unknown
  /\ EepromAsReported
  /\ NoDowngrade
  /\ FileAsReported

\* ImageMfgVer never reads an image as newer than it is.
LEMMA MfgVerBelow ==
  ASSUME NEW p \in Payloads, CheckMinBootVer(p)
  PROVE  p.ver >= BoardMinBootVer
<1>1. p.ver \in Nat /\ VerMod \in Nat \ {0} /\ BoardMinBootVer \in Nat
  BY StagedAssumption
<1>2. p.ver % VerMod <= p.ver
  <2> DEFINE v == p.ver
  <2>1. v \in Nat
    BY <1>1
  <2> HIDE DEF v
  <2>2. v % VerMod <= v
    BY <1>1, <2>1
  <2> QED BY <2>2 DEF v
<1>3. p.ver % VerMod \in Nat
  BY <1>1
<1> QED BY <1>1, <1>2, <1>3 DEF CheckMinBootVer, ImageMfgVer

\* StagedInv holds before the first command.
LEMMA StagedInvInit == StagedInit => StagedInv
BY StagedAssumption
   DEF StagedInit, StagedInv, Whole, EepromAsReported, NoDowngrade, FileAsReported

\* A reply that leaves everything as it was.
LEMMA FailsKeeps ==
  ASSUME StagedInv, stPc = "idle", NEW cmd, Fails(cmd)
  PROVE  StagedInv'
BY DEF Fails, Says, StagedInv, EepromAsReported, NoDowngrade, FileAsReported, CheckMinBootVer,
       ImageMfgVer

\* The commands on the chip.
LEMMA ChipKeeps ==
  ASSUME StagedInv, EepromUpdate \/ ImageWrite \/ EepromVerify \/ EepromRead
  PROVE  StagedInv'
<1> USE DEF StagedInv, EepromAsReported, NoDowngrade, FileAsReported, Whole, Says, Goes
<1>1. CASE EepromUpdate
  <2>1. CASE Fails("eeprom-update")
    BY <1>1, <2>1, FailsKeeps DEF EepromUpdate
  <2>2. CASE ~Fails("eeprom-update")
    <3>1. /\ stPc = "idle" /\ stBuf # NoData /\ CheckMinBootVer(stBuf)
          /\ chip' = Torn /\ chipSaid' = Unknown /\ stPc' = "image_write"
          /\ UNCHANGED <<stBuf, file, fileSaid>>
      BY <1>1, <2>2 DEF EepromUpdate
    <3>2. CheckMinBootVer(stBuf)'
      BY <3>1 DEF CheckMinBootVer, ImageMfgVer
    <3> QED BY <3>1, <3>2
  <2> QED BY <2>1, <2>2
<1>2. CASE ImageWrite
  <2>1. /\ stPc' = "idle" /\ UNCHANGED <<stBuf, file, fileSaid>> /\ chip' \in {stBuf, Torn}
        /\ stBuf \in Whole \ {NoData} /\ CheckMinBootVer(stBuf)
    BY <1>2 DEF ImageWrite
  <2>2. chip' \in {Factory, Torn} \/ chip'.ver >= BoardMinBootVer
    <3>1. CASE stBuf \in Payloads
      BY <2>1, <3>1, MfgVerBelow
    <3>2. CASE stBuf \notin Payloads
      BY <2>1, <3>2
    <3> QED BY <3>1, <3>2
  <2>3. chipSaid' = chip' \/ chipSaid' = Unknown
    BY <1>2 DEF ImageWrite
  <2>4. /\ stBuf' \in Whole /\ stBuf' # Half /\ chip' \in Whole /\ file' \in Whole
    BY <2>1, StagedAssumption
  <2>5. EepromAsReported' /\ NoDowngrade' /\ FileAsReported'
    BY <2>1, <2>2, <2>3
  <2> QED BY <2>1, <2>4, <2>5
<1>3. CASE EepromVerify
  BY <1>3, FailsKeeps, ZenonT(60) DEF EepromVerify
<1>4. CASE EepromRead
  BY <1>4, FailsKeeps, StagedAssumption, ZenonT(60) DEF EepromRead
<1> QED BY <1>1, <1>2, <1>3, <1>4

\* The commands on a file.
LEMMA FileKeeps ==
  ASSUME StagedInv, WriteFileOpen \/ WriteFileEnd \/ UploadFile \/ FreadLoop
  PROVE  StagedInv'
<1> USE StagedAssumption
        DEF StagedInv, EepromAsReported, NoDowngrade, FileAsReported, Whole, Says, Goes
<1>1. CASE WriteFileOpen
  BY <1>1, FailsKeeps DEF WriteFileOpen
<1>2. CASE WriteFileEnd
  BY <1>2 DEF WriteFileEnd
<1>3. CASE UploadFile
  BY <1>3, FailsKeeps DEF UploadFile
<1>4. CASE FreadLoop
  BY <1>4, ZenonT(60) DEF FreadLoop
<1> QED BY <1>1, <1>2, <1>3, <1>4, ZenonT(60)

\* The transfers, and the end of a session or of everything.
LEMMA TransferKeeps ==
  ASSUME StagedInv,
         \/ \E p \in Payloads : StageDownload(p)
         \/ StageUpload \/ NextSession \/ StagedPowerCut
  PROVE  StagedInv'
<1> USE StagedAssumption
        DEF StagedInv, EepromAsReported, NoDowngrade, FileAsReported, Whole, Says
<1>1. CASE \E p \in Payloads : StageDownload(p)
  BY <1>1 DEF StageDownload
<1>2. CASE StageUpload
  BY <1>2, FailsKeeps DEF StageUpload
<1>3. CASE NextSession
  BY <1>3 DEF NextSession
<1>4. CASE StagedPowerCut
  BY <1>4 DEF StagedPowerCut
<1> QED BY <1>1, <1>2, <1>3, <1>4

\* StagedInv is an invariant of Staged.
LEMMA StagedInvHolds == StagedSpec => []StagedInv
<1>1. ASSUME StagedInv, UNCHANGED stVars PROVE StagedInv'
  BY <1>1 DEF stVars, StagedInv, EepromAsReported, NoDowngrade, FileAsReported, CheckMinBootVer,
              ImageMfgVer
<1>2. StagedInv /\ [StagedNext]_stVars => StagedInv'
  BY <1>1, ChipKeeps, FileKeeps, TransferKeeps DEF StagedNext, StagedHandler
<1> QED BY StagedInvInit, <1>2, PTL DEF StagedSpec

\* The bootloader EEPROM holds what was last reported of it, an update that fails
\* or is cut short at any point included.
THEOREM EepromAlwaysAsReported == StagedSpec => []EepromAsReported
<1>1. StagedInv => EepromAsReported
  BY DEF StagedInv
<1> QED BY StagedInvHolds, <1>1, PTL

\* No image older than the board's minimum is ever in the chip, wherever the
\* 32-bit version number wraps.
THEOREM NeverDowngraded == StagedSpec => []NoDowngrade
<1>1. StagedInv => NoDowngrade
  BY DEF StagedInv
<1> QED BY StagedInvHolds, <1>1, PTL

\* The file holds what download-file last reported.
THEOREM FileAlwaysAsReported == StagedSpec => []FileAsReported
<1>1. StagedInv => FileAsReported
  BY DEF StagedInv
<1> QED BY StagedInvHolds, <1>1, PTL

\* A buffer that some command left unfinished is never there for the next one.
THEOREM BufferAlwaysWhole == StagedSpec => []BufferIsWhole
<1>1. StagedInv => BufferIsWhole
  BY DEF StagedInv, BufferIsWhole
<1> QED BY StagedInvHolds, <1>1, PTL

\* What the commands on the staging buffer reported of chip, file and buffer is
\* true of them, for any set of images and any sizes.
THEOREM ReportsAlwaysTrue == StagedSpec => []ReportsAreTrue
BY EepromAlwaysAsReported, FileAlwaysAsReported, BufferAlwaysWhole, PTL DEF ReportsAreTrue
----------------------------------------------------------------------------
RowSteps == {"row", "open", "dumping", "read"}

\* What a session has established before each step of a question a.  An address is
\* read only if the device tree has none.  Rows are read for the revision code
\* (and where no read can fail, row 30 only if row 32 has none), or, on a BCM2712,
\* for an address: the second half with the first one in hand.
SeeksCode(a) ==
  /\ a.what \in Macs \cup {"revision"}
  /\ a.todo \in {<<32, 30>>, <<30>>}
  /\ (a.todo = <<30>> /\ board.nvmem) => ~HasCode(board.rows[32])
SeeksMac(a) ==
  /\ a.what \in Macs /\ board.rev.soc = 4
  /\ \/ a.todo = MacRows(a.what)
     \/ a.todo = <<MacRows(a.what)[2]>> /\ a.got = <<board.rows[MacRows(a.what)[1]]>>
SoundAsk(a) ==
  /\ a = [what |-> a.what, step |-> a.step, todo |-> a.todo, got |-> a.got]
  /\ (a.step \in {"code"} \cup RowSteps /\ a.what \in Macs) => NoNode(board.dt[a.what])
  /\ a.step = "code" => a.what \in Macs \cup {"revision"}
  /\ a.step \in RowSteps => (SeeksCode(a) \/ SeeksMac(a)) /\ (board.nvmem => a.step = "row")
  /\ a.step = "jedec" => a.what \in {"jedec", "unique-id"}
  /\ a.step = "uid" => a.what = "unique-id"

\* ToldIsOfBoard and SourceIsUsed, of one answer.
SoundAnswer(t) ==
  /\ (t.what # "none" /\ t.value # Unset) =>
       CASE t.what = "revision" -> t.value = board.rev
         [] t.what = "jedec" -> t.value = board.chip.id
         [] t.what = "unique-id" -> t.value = board.chip.uid
         [] OTHER -> t.value = board.mac[t.what]
  /\ (t.what \in Macs /\ t.value = Unset) =>
       NoNode(board.dt[t.what]) /\ (board.nvmem => ~(board.rev.soc = 4))

BoardInv ==
  /\ board \in Boards
  /\ ask = [s \in Askers |-> ask[s]] /\ told = [s \in Askers |-> told[s]]
  /\ \A s \in Askers : SoundAsk(ask[s]) /\ SoundAnswer(told[s])

\* The session s moves, soundly, and no other.
Moves(s) ==
  /\ ask' = [ask EXCEPT ![s] = ask'[s]] /\ told' = [told EXCEPT ![s] = told'[s]]
  /\ SoundAsk(ask'[s]) /\ SoundAnswer(told'[s])

\* A step of one asker that leaves it sound keeps BoardInv.
LEMMA MovesKeep ==
  ASSUME BoardInv, NEW s \in Askers, board' = board,
         ask' = [ask EXCEPT ![s] = ask'[s]], told' = [told EXCEPT ![s] = told'[s]],
         SoundAsk(ask'[s]), SoundAnswer(told'[s])
  PROVE  BoardInv'
<1>1. \A q \in Askers : /\ q # s => ask'[q] = ask[q] /\ told'[q] = told[q]
  BY DEF BoardInv
<1>2. ask' = [q \in Askers |-> ask'[q]] /\ told' = [q \in Askers |-> told'[q]]
  BY SMTT(40) DEF BoardInv
<1>3. ASSUME NEW q \in Askers PROVE SoundAsk(ask'[q]) /\ SoundAnswer(told'[q])
  BY <1>1, <1>3, SMTT(40) DEF BoardInv
<1>4. ASSUME NEW q \in Askers PROVE SoundAsk(ask[q])' /\ SoundAnswer(told[q])'
  BY <1>3, <1>4 DEF SoundAsk, SoundAnswer, SeeksCode, SeeksMac
<1> QED BY <1>2, <1>4 DEF BoardInv

\* An answer is given.
LEMMA TellMoves ==
  ASSUME BoardInv, NEW s \in Askers, NEW v, Tell(s, v),
         SoundAnswer([what |-> ask[s].what, value |-> v])
  PROVE  Moves(s)
<1>1. ask'[s] = Idle /\ told'[s] = [what |-> ask[s].what, value |-> v]
  BY DEF Tell, BoardInv
<1>2. SoundAsk(Idle)
  BY DEF SoundAsk, Idle, RowSteps
<1>3. ask' = [ask EXCEPT ![s] = ask'[s]] /\ told' = [told EXCEPT ![s] = told'[s]]
  BY <1>1 DEF Tell
<1> QED BY <1>1, <1>2, <1>3 DEF Moves

\* A question in progress goes on, as a.
LEMMA AskMoves ==
  ASSUME BoardInv, NEW s \in Askers, NEW a, SoundAsk(a),
         ask' = [ask EXCEPT ![s] = a], UNCHANGED told
  PROVE  Moves(s)
<1>1. ask'[s] = a /\ told'[s] = told[s] /\ told' = [told EXCEPT ![s] = told[s]]
  BY DEF BoardInv
<1> QED BY <1>1 DEF Moves, BoardInv

\* A step that only changes where the question is.
LEMMA ToMoves ==
  ASSUME BoardInv, NEW s \in Askers, NEW p, To(s, p), UNCHANGED told,
         SoundAsk([what |-> ask[s].what, step |-> p, todo |-> ask[s].todo, got |-> ask[s].got])
  PROVE  Moves(s)
<1> DEFINE a == ask[s]
           b == [a EXCEPT !.step = p]
<1>1. PICK w, q, t, g : a = [what |-> w, step |-> q, todo |-> t, got |-> g]
  BY DEF SoundAsk, BoardInv
<1>2. ask' = [ask EXCEPT ![s] = b]
  BY DEF To, BoardInv
<1> HIDE DEF a
<1>3. b = [k \in {"what", "step", "todo", "got"} |-> b[k]]
  BY <1>1
<1>4. b["what"] = w /\ b["step"] = p /\ b["todo"] = t /\ b["got"] = g
  BY <1>1
<1>5. a.what = w /\ a.todo = t /\ a.got = g
  BY <1>1
<1> HIDE DEF b
<1>6. b = [what |-> a.what, step |-> p, todo |-> a.todo, got |-> a.got]
  BY <1>3, <1>4, <1>5
<1>7. SoundAsk(b)
  BY <1>6, Zenon DEF a
<1> QED BY <1>2, <1>7, AskMoves

\* The rows of todo are read next.
LEMMA RowMoves ==
  ASSUME BoardInv, NEW s \in Askers, NEW todo, NEW got, ReadRows(s, todo, got),
         SoundAsk([what |-> ask[s].what, step |-> "row", todo |-> todo, got |-> got])
  PROVE  Moves(s)
<1> DEFINE a == [what |-> ask[s].what, step |-> "row", todo |-> todo, got |-> got]
<1>1. ask' = [ask EXCEPT ![s] = a] /\ UNCHANGED told
  BY DEF ReadRows
<1> HIDE DEF a
<1>2. SoundAsk(a)
  BY DEF a
<1> QED BY <1>1, <1>2, AskMoves

\* The revision code is known: v is it, or Unset where a read may fail.
LEMMA CodeKnownMoves ==
  ASSUME BoardInv, NEW s \in Askers, NEW v, CodeKnown(s, v),
         ask[s].step \in {"code"} \cup RowSteps, ask[s].what \in Macs \cup {"revision"},
         v \in {board.rev, Unset}, board.nvmem => v = board.rev
  PROVE  Moves(s)
<1> DEFINE w == ask[s].what
<1>1. SoundAsk(ask[s]) /\ board \in Boards /\ board.rev # Unset
  BY BoardsAssumption DEF BoardInv
<1>2. w \in Macs => NoNode(board.dt[w])
  BY <1>1 DEF SoundAsk
<1>3. CASE w = "revision" /\ Tell(s, v)
  <2>1. SoundAnswer([what |-> w, value |-> v])
    BY <1>3 DEF SoundAnswer, Macs
  <2> QED BY <1>3, <2>1, TellMoves
<1>4. CASE w # "revision" /\ Is2712(v) /\ ReadRows(s, MacRows(w), <<>>)
  <2> DEFINE a == [what |-> w, step |-> "row", todo |-> MacRows(w), got |-> <<>>]
  <2>1. board.rev.soc = 4 /\ w \in Macs
    BY <1>4 DEF Is2712
  <2>2. SeeksMac(a)
    BY <2>1 DEF SeeksMac
  <2>3. SoundAsk(a)
    BY <1>2, <2>2 DEF SoundAsk, RowSteps
  <2> QED BY <1>4, <2>3, RowMoves
<1>5. CASE w # "revision" /\ ~Is2712(v) /\ Tell(s, Unset)
  <2>1. w \in Macs /\ (board.nvmem => ~(board.rev.soc = 4))
    BY <1>1, <1>5 DEF Is2712
  <2>2. SoundAnswer([what |-> w, value |-> Unset])
    BY <1>2, <2>1 DEF SoundAnswer
  <2> QED BY <1>5, <2>2, TellMoves
<1> QED BY <1>3, <1>4, <1>5 DEF CodeKnown

\* What the rows yet to be read leave.
LEMMA Rests ==
  ASSUME NEW i
  PROVE  /\ <<32, 30>>[1] = 32 /\ Tail(<<32, 30>>) = <<30>> /\ <<30>> # <<>>
         /\ <<30>>[1] = 30 /\ Tail(<<30>>) = <<>>
         /\ MacRows(i)[1] \notin {30, 32} /\ MacRows(i)[2] \notin {30, 32}
         /\ Tail(MacRows(i)) = <<MacRows(i)[2]>>
         /\ <<MacRows(i)[2]>>[1] = MacRows(i)[2] /\ Tail(<<MacRows(i)[2]>>) = <<>>
<1>1. MacRows(i) \in {<<50, 51>>, <<52, 53>>, <<54, 55>>}
  BY DEF MacRows
<1>2. /\ <<32, 30>>[1] = 32 /\ Tail(<<32, 30>>) = <<30>> /\ <<30>> # <<>>
      /\ <<30>>[1] = 30 /\ Tail(<<30>>) = <<>>
  OBVIOUS
<1>3. MacRows(i)[1] \notin {30, 32} /\ MacRows(i)[2] \notin {30, 32}
  BY <1>1
<1>4. ASSUME NEW x, NEW y PROVE Tail(<<x, y>>) = <<y>> /\ <<y>>[1] = y /\ Tail(<<y>>) = <<>>
  OBVIOUS
<1>5. MacRows(i) = <<MacRows(i)[1], MacRows(i)[2]>>
  BY <1>1
<1>6. /\ Tail(MacRows(i)) = <<MacRows(i)[2]>>
      /\ <<MacRows(i)[2]>>[1] = MacRows(i)[2] /\ Tail(<<MacRows(i)[2]>>) = <<>>
  BY <1>4, <1>5, ZenonT(60)
<1> QED BY <1>2, <1>3, <1>6

\* A row was read, or a read of it failed, which it cannot where the kernel
\* publishes OTP.
LEMMA GotRowMoves ==
  ASSUME BoardInv, NEW s \in Askers, NEW v, GotRow(s, v), ask[s].step \in RowSteps,
         v \in {Unset, board.rows[ask[s].todo[1]]},
         board.nvmem => v = board.rows[ask[s].todo[1]]
  PROVE  Moves(s)
<1> DEFINE a == ask[s]
           w == ask[s].what
           rest == Tail(ask[s].todo)
<1>1. SoundAsk(a) /\ board \in Boards
  BY DEF BoardInv
<1>2. w \in Macs => NoNode(board.dt[w])
  BY <1>1 DEF SoundAsk
<1>3. SeeksCode(a) \/ SeeksMac(a)
  BY <1>1 DEF SoundAsk
<1>4. CASE SeeksCode(a)
  <2>1. w \in Macs \cup {"revision"} /\ a.todo \in {<<32, 30>>, <<30>>}
    BY <1>4 DEF SeeksCode
  <2>2. a.todo[1] \in {30, 32}
    BY <2>1, Rests, Zenon
  <2>3. HasCode(v) => v = board.rev
    BY <1>1, <2>2, BoardsAssumption DEF HasCode
  <2>4. \/ HasCode(v) /\ CodeKnown(s, v)
        \/ ~HasCode(v) /\ rest = <<>> /\ CodeKnown(s, Unset)
        \/ ~HasCode(v) /\ rest # <<>> /\ ReadRows(s, rest, <<>>)
    BY <2>2 DEF GotRow
  <2>5. CASE HasCode(v) /\ CodeKnown(s, v)
    BY <2>1, <2>3, <2>5, CodeKnownMoves
  <2>6. CASE ~HasCode(v) /\ rest = <<>> /\ CodeKnown(s, Unset)
    <3>1. a.todo = <<30>>
      BY <2>1, <2>6, Rests, ZenonT(60)
    <3>2. ~board.nvmem
      BY <1>1, <1>4, <2>6, <3>1, Rests, BoardsAssumption DEF SeeksCode
    <3> QED BY <2>1, <2>6, <3>2, CodeKnownMoves
  <2>7. CASE ~HasCode(v) /\ rest # <<>> /\ ReadRows(s, rest, <<>>)
    <3> DEFINE b == [what |-> w, step |-> "row", todo |-> rest, got |-> <<>>]
    <3>1. a.todo = <<32, 30>> /\ rest = <<30>> /\ a.todo[1] = 32
      BY <2>1, <2>7, Rests, ZenonT(60)
    <3>2. SeeksCode(b)
      BY <2>1, <2>7, <3>1 DEF SeeksCode
    <3>3. SoundAsk(b)
      BY <1>2, <3>2 DEF SoundAsk, RowSteps
    <3> QED BY <2>7, <3>3, RowMoves
  <2> QED BY <2>4, <2>5, <2>6, <2>7
<1>5. CASE SeeksMac(a)
  <2> DEFINE low == MacRows(w)[1]
             high == MacRows(w)[2]
  <2>1. w \in Macs /\ board.rev.soc = 4
    BY <1>5 DEF SeeksMac
  <2>2. /\ board.mac[w] = <<board.rows[high], board.rows[low]>> /\ board.mac[w] # Unset
        /\ Unset \notin {board.rows[low], board.rows[high]}
    BY <1>1, <2>1, BoardsAssumption, SMTT(40)
  <2>3. \/ a.todo = MacRows(w) /\ a.todo[1] = low /\ rest = <<high>>
        \/ /\ a.todo = <<high>> /\ a.todo[1] = high /\ rest = <<>>
           /\ a.got[1] = board.rows[low]
    <3>1. <<board.rows[low]>>[1] = board.rows[low]
      OBVIOUS
    <3>2. CASE a.todo = MacRows(w)
      BY <3>2, Rests, ZenonT(60)
    <3>3. CASE a.todo = <<high>> /\ a.got = <<board.rows[low]>>
      <4>1. a.todo[1] = high /\ rest = <<>>
        BY <3>3, Rests, ZenonT(60)
      <4> QED BY <3>1, <3>3, <4>1, Zenon
    <3> QED BY <1>5, <3>2, <3>3 DEF SeeksMac
  <2>4. \/ v = Unset /\ Tell(s, Unset)
        \/ v # Unset /\ rest # <<>> /\ ReadRows(s, rest, <<v>>)
        \/ v # Unset /\ rest = <<>> /\ Tell(s, <<v, a.got[1]>>)
    BY <2>3, Rests DEF GotRow
  <2>5. CASE v = Unset /\ Tell(s, Unset)
    <3>1. ~board.nvmem
      BY <2>2, <2>3, <2>5
    <3>2. SoundAnswer([what |-> w, value |-> Unset])
      BY <1>2, <2>1, <3>1 DEF SoundAnswer
    <3> QED BY <2>5, <3>2, TellMoves, SMTT(40)
  <2>6. CASE v # Unset /\ rest # <<>> /\ ReadRows(s, rest, <<v>>)
    <3> DEFINE b == [what |-> w, step |-> "row", todo |-> rest, got |-> <<v>>]
    <3>1. rest = <<high>> /\ v = board.rows[low]
      BY <2>3, <2>6, SMTT(40)
    <3>2. SeeksMac(b)
      BY <2>1, <3>1, SMTT(40) DEF SeeksMac
    <3>3. SoundAsk(b)
      BY <1>2, <3>2, SMTT(40) DEF SoundAsk, RowSteps
    <3> QED BY <2>6, <3>3, RowMoves
  <2>7. CASE v # Unset /\ rest = <<>> /\ Tell(s, <<v, a.got[1]>>)
    <3>1. v = board.rows[high] /\ a.got[1] = board.rows[low]
      BY <2>3, <2>7, SMTT(40)
    <3>2. SoundAnswer([what |-> w, value |-> board.mac[w]])
      BY <2>1, <2>2, ZenonT(60) DEF SoundAnswer, Macs
    <3> QED BY <2>2, <2>7, <3>1, <3>2, TellMoves, ZenonT(60)
  <2> QED BY <2>4, <2>5, <2>6, <2>7
<1> QED BY <1>3, <1>4, <1>5

\* Each step of a session is a sound move of it.
LEMMA SessionMoves ==
  ASSUME BoardInv, NEW s \in Askers,
         \/ \E w \in Asked : GetBoardVar(s, w)
         \/ GetBoardRevisionCode(s) \/ ReadOtpRow(s) \/ SpawnDump(s)
         \/ VcgencmdExits(s) \/ inspectOtp(s)
         \/ QueryJedec(s) \/ QueryUniqueId(s) \/ NextQuestion(s)
  PROVE  Moves(s) /\ board' = board
<1> DEFINE a == ask[s]
<1>0. SoundAsk(a) /\ board \in Boards
  BY DEF BoardInv
<1>1. ASSUME NEW w \in Asked, GetBoardVar(s, w) PROVE Moves(s) /\ board' = board
  <2>1. CASE /\ w \in Macs /\ FromDeviceTree(w) # Unset
             /\ told' = [told EXCEPT ![s] = [what |-> w, value |-> FromDeviceTree(w)]]
             /\ UNCHANGED ask
    <3>1. FromDeviceTree(w) = board.mac[w] /\ w \in Macs /\ board.mac[w] # Unset
      BY <1>0, <2>1, BoardsAssumption DEF FromDeviceTree
    <3>2. SoundAnswer([what |-> w, value |-> FromDeviceTree(w)])
      BY <3>1 DEF SoundAnswer, Macs
    <3>3. /\ told'[s] = [what |-> w, value |-> FromDeviceTree(w)] /\ ask'[s] = ask[s]
          /\ ask' = [ask EXCEPT ![s] = ask[s]]
      BY <2>1 DEF BoardInv
    <3> QED BY <1>0, <1>1, <2>1, <3>2, <3>3 DEF Moves, GetBoardVar
  <2>2. CASE /\ ~(w \in Macs /\ FromDeviceTree(w) # Unset)
             /\ ask' = [ask EXCEPT ![s] = [Idle EXCEPT !.what = w,
                          !.step = IF w \in Macs \cup {"revision"} THEN "code" ELSE "jedec"]]
             /\ UNCHANGED told
    <3> DEFINE p == IF w \in Macs \cup {"revision"} THEN "code" ELSE "jedec"
               b == [what |-> w, step |-> p, todo |-> <<>>, got |-> <<>>]
    <3> HIDE DEF p
    <3>1. [Idle EXCEPT !.what = w, !.step = p] = b
      <4> DEFINE q == [Idle EXCEPT !.what = w, !.step = p]
      <4>1. q = [k \in {"what", "step", "todo", "got"} |-> q[k]]
        BY DEF Idle
      <4>2. q["what"] = w /\ q["step"] = p /\ q["todo"] = <<>> /\ q["got"] = <<>>
        BY DEF Idle
      <4> HIDE DEF q
      <4>3. q = b
        BY <4>1, <4>2
      <4> QED BY <4>3 DEF q
    <3>2. w \in Macs => NoNode(board.dt[w])
      <4>1. ASSUME w \in Macs, ~NoNode(board.dt[w]) PROVE FromDeviceTree(w) # Unset
        BY <1>0, <4>1, BoardsAssumption DEF FromDeviceTree
      <4> QED BY <2>2, <4>1
    <3>3. SoundAsk(b)
      BY <3>2, <1>1 DEF SoundAsk, RowSteps, Asked, p
    <3>4. ask' = [ask EXCEPT ![s] = b]
      BY <2>2, <3>1 DEF p
    <3> QED BY <1>1, <2>2, <3>3, <3>4, AskMoves DEF GetBoardVar
  <2> QED BY <1>1, <2>1, <2>2 DEF GetBoardVar
<1>2. CASE GetBoardRevisionCode(s)
  <2>1. a.step = "code" /\ a.what \in Macs \cup {"revision"} /\ board' = board
    BY <1>0, <1>2 DEF GetBoardRevisionCode, SoundAsk
  <2>2. CASE CodeKnown(s, board.rev)
    BY <2>1, <2>2, CodeKnownMoves
  <2>3. CASE ReadRows(s, <<32, 30>>, <<>>)
    <3> DEFINE b == [what |-> a.what, step |-> "row", todo |-> <<32, 30>>, got |-> <<>>]
    <3>1. SeeksCode(b)
      BY <2>1 DEF SeeksCode
    <3>2. SoundAsk(b)
      BY <1>0, <2>1, <3>1 DEF SoundAsk, RowSteps
    <3> QED BY <2>1, <2>3, <3>2, RowMoves
  <2> QED BY <1>2, <2>2, <2>3 DEF GetBoardRevisionCode
<1>3. CASE ReadOtpRow(s) \/ SpawnDump(s) \/ VcgencmdExits(s) \/ inspectOtp(s)
  <2>1. a.step \in RowSteps /\ board' = board
    BY <1>3 DEF ReadOtpRow, SpawnDump, VcgencmdExits, inspectOtp, RowSteps
  <2>2. board.nvmem => a.step = "row"
    BY <1>0, <2>1 DEF SoundAsk
  <2>3. \/ GotRow(s, board.rows[a.todo[1]])
        \/ ~board.nvmem /\ GotRow(s, Unset)
        \/ ~board.nvmem /\ \E p \in RowSteps : To(s, p) /\ UNCHANGED told
    BY <1>3, <2>2 DEF ReadOtpRow, SpawnDump, VcgencmdExits, inspectOtp, RowSteps
  <2>4. ASSUME NEW p \in RowSteps, To(s, p), UNCHANGED told, ~board.nvmem PROVE Moves(s)
    <3> DEFINE b == [what |-> a.what, step |-> p, todo |-> a.todo, got |-> a.got]
    <3>1. SeeksCode(b) \/ SeeksMac(b)
      BY <1>0, <2>1 DEF SoundAsk, SeeksCode, SeeksMac
    <3>2. SoundAsk(b)
      BY <1>0, <2>1, <2>4, <3>1 DEF SoundAsk, RowSteps
    <3> QED BY <2>4, <3>2, ToMoves
  <2> QED BY <2>1, <2>3, <2>4, GotRowMoves
<1>4. CASE QueryJedec(s)
  <2>1. a.step = "jedec" /\ a.what \in {"jedec", "unique-id"} /\ board' = board
    BY <1>0, <1>4 DEF QueryJedec, SoundAsk
  <2>2. SoundAnswer([what |-> a.what, value |-> Unset])
    BY <2>1 DEF SoundAnswer, Macs
  <2>3. PICK id \in OnBus(board.chip.id) :
          \/ id \in Stuck /\ Tell(s, Unset)
          \/ id \notin Stuck /\ a.what = "jedec" /\ Tell(s, id)
          \/ id \notin Stuck /\ a.what # "jedec" /\ To(s, "uid") /\ UNCHANGED told
    BY <1>4 DEF QueryJedec
  <2>4. id \notin Stuck => id = board.chip.id
    BY DEF OnBus, Stuck
  <2>5. CASE id \notin Stuck /\ a.what = "jedec" /\ Tell(s, id)
    <3>1. SoundAnswer([what |-> a.what, value |-> id])
      BY <2>4, <2>5 DEF SoundAnswer, Macs
    <3> QED BY <2>1, <2>5, <3>1, TellMoves
  <2>6. CASE id \notin Stuck /\ a.what # "jedec" /\ To(s, "uid") /\ UNCHANGED told
    <3>1. SoundAsk([what |-> a.what, step |-> "uid", todo |-> a.todo, got |-> a.got])
      BY <2>1, <2>6 DEF SoundAsk, RowSteps
    <3> QED BY <2>1, <2>6, <3>1, ToMoves
  <2> QED BY <2>1, <2>2, <2>3, <2>5, <2>6, TellMoves
<1>5. CASE QueryUniqueId(s)
  <2>1. a.what = "unique-id" /\ board' = board
    BY <1>0, <1>5 DEF QueryUniqueId, SoundAsk
  <2>2. PICK id \in OnBus(board.chip.uid) : Tell(s, IF id \in Stuck THEN Unset ELSE id)
    BY <1>5 DEF QueryUniqueId
  <2>3. SoundAnswer([what |-> a.what, value |-> IF id \in Stuck THEN Unset ELSE id])
    BY <2>1 DEF SoundAnswer, Macs, OnBus, Stuck
  <2> QED BY <2>1, <2>2, <2>3, TellMoves
<1>6. CASE NextQuestion(s)
  <2>1. SoundAnswer([what |-> "none", value |-> Unset])
    BY DEF SoundAnswer, Macs
  <2>2. /\ told'[s] = [what |-> "none", value |-> Unset] /\ ask'[s] = ask[s] /\ board' = board
        /\ told' = [told EXCEPT ![s] = told'[s]] /\ ask' = [ask EXCEPT ![s] = ask[s]]
    BY <1>6 DEF NextQuestion, BoardInv
  <2> QED BY <1>0, <2>1, <2>2 DEF Moves
<1> QED BY <1>1, <1>2, <1>3, <1>4, <1>5, <1>6

\* BoardInv is an invariant of BoardVars.
LEMMA BoardInvHolds == BoardSpec => []BoardInv
<1>1. BoardInit => BoardInv
  <2> SUFFICES ASSUME BoardInit PROVE BoardInv
    OBVIOUS
  <2>1. SoundAsk(Idle)
    BY DEF SoundAsk, Idle, RowSteps
  <2>2. SoundAnswer([what |-> "none", value |-> Unset])
    BY DEF SoundAnswer, Macs
  <2> QED BY <2>1, <2>2 DEF BoardInit, BoardInv
<1>2. ASSUME BoardInv, [BoardNext]_bvVars PROVE BoardInv'
  <2>1. CASE board' = board /\ ask' = ask /\ told' = told
    BY <1>2, <2>1 DEF BoardInv, SoundAsk, SoundAnswer, SeeksCode, SeeksMac
  <2>2. ASSUME NEW s \in Askers, Moves(s), board' = board PROVE BoardInv'
    BY <1>2, <2>2, MovesKeep DEF Moves
  <2> QED BY <1>2, <2>1, <2>2, SessionMoves DEF BoardNext, ChipBusy, bvVars
<1> QED BY <1>1, <1>2, PTL DEF BoardSpec

\* An answer of getvar about the board is about this board, and is not withheld
\* while a source has it: for every set of boards whose sources agree, and any
\* number of sessions dumping OTP into the same file and writing the EEPROM.
THEOREM BoardAlwaysAsTold == BoardSpec => []BoardAsTold
<1>1. BoardInv => BoardAsTold
  BY DEF BoardInv, SoundAnswer, BoardAsTold, ToldIsOfBoard, SourceIsUsed
<1> QED BY BoardInvHolds, <1>1, PTL
----------------------------------------------------------------------------
\* What a scratch file may hold: lines of nothing, and lines that were true when
\* they were printed; a default route only in the file of its IP version, as the
\* one parser that does not look at the version needs it.
TrueLines(f) ==
  {Filler} \cup {l \in [iface : NetIfaces, ver : Versions, val : NetVals \cup {LinkLocal}] :
                   <<l.iface, l.ver, l.val>> \in ever /\ (nvKind = "gateway" => l.ver = f)}
FilesTrue == scratch = [f \in Files |-> scratch[f]] /\ \A f \in Files : scratch[f] \in Seq(TrueLines(f))

NetTypes ==
  /\ nvKind \in NetKinds /\ nvVer \in Versions /\ nvAt \in 0 .. Len(Steps)
  /\ truth \in [NetIfaces \X Versions -> NetVals \cup {NoVal, LinkLocal}]

\* The history has every value there is; only addresses are link-local; a lease is
\* of an interface that had one.
HistoryKept ==
  /\ \A i \in NetIfaces, v \in Versions : truth[i, v] # NoVal => <<i, v, truth[i, v]>> \in ever
  /\ nvKind # "address" => \A i \in NetIfaces, v \in Versions : truth[i, v] # LinkLocal
  /\ nvKind # "address" => \A e \in ever : e[3] # LinkLocal
  /\ (nvKind = "dhcp" /\ leases # {}) => \E e \in ever : Usable(e[3])

\* An interface that kept its value is asked by the kernel's own steps, the first
\* two, and the query gets past its step only by a fault.
SteadyPending ==
  nvAt # 0 =>
    /\ steady \subseteq NetIfaces
    /\ \A i \in steady : Usable(truth[i, nvVer])
    /\ \A i \in NetIfaces : truth[i, nvVer] \in during
    /\ (nvKind # "dhcp" /\ ~fault /\ steady # {}) =>
         nvAt = 1 \/ (nvAt = 2 /\ steady \subseteq {"eth0"})

NetInv == /\ NetTypes /\ HistoryKept /\ FilesTrue /\ SteadyPending
          /\ AnswerWasTrue /\ SteadyIsAnswered

\* An answer that was true: AnswerWasTrue, of one value.
WasTrue(x) ==
  \E e \in ever : (e[2] = nvVer \/ nvKind = "dhcp") /\ Usable(e[3]) /\ x[2] = Answered(e[3])[2]

\* The prefix length that the ip command prints is converted to the mask the
\* kernel holds (a sum over its bits, which no induction is at hand for).
MaskArithmetic == \A p \in NetVals : MaskOf(p) = CidrToNetmask(p)

Kernels == {"native", "resolv.conf"}

\* The sources of each variable, and where the kernel's own stand.
LEMMA StepsTable ==
  ASSUME nvKind \in NetKinds
  PROVE  /\ Len(Steps) \in {4, 6}
         /\ \A n \in 1 .. Len(Steps) :
              /\ Steps[n][2] \in NetIfaces
              /\ nvKind \in {"address", "netmask"} => Steps[n][1] \in {"native", "ifconfig", "ip"}
              /\ nvKind = "gateway" => Steps[n][1] \in {"native", "route", "iproute"}
              /\ nvKind = "dns" => Steps[n][1] \in {"resolv.conf", "nmcli"}
              /\ nvKind = "dhcp" => Steps[n][1] \in {"netstat", "ps", "lease"}
              /\ (nvKind # "dhcp" /\ n > 2) => Steps[n][1] \notin Kernels
         /\ nvKind # "dhcp" => /\ Steps[1][1] \in Kernels /\ Steps[1][2] = "end0"
                               /\ Steps[2][1] \in Kernels /\ Steps[2][2] = "eth0"
<1> USE DEF Kernels, NetIfaces
<1>1. CASE nvKind \in {"address", "netmask"}
  <2>1. Steps = <<<<"native", "end0">>, <<"native", "eth0">>, <<"ifconfig", "end0">>,
                  <<"ip", "end0">>, <<"ifconfig", "eth0">>, <<"ip", "eth0">>>>
    BY <1>1 DEF Steps, kNetworkInterfaces
  <2>2. Len(Steps) = 6
    BY <2>1
  <2>3. \A n \in 1 .. 6 : Steps[n][2] \in NetIfaces /\ Steps[n][1] \in {"native", "ifconfig", "ip"}
    BY <2>1
  <2>4. Steps[1] = <<"native", "end0">> /\ Steps[2] = <<"native", "eth0">>
    BY <2>1
  <2>5. \A n \in 1 .. 6 : n > 2 => Steps[n][1] \notin Kernels
    BY <2>1
  <2> QED BY <1>1, <2>2, <2>3, <2>4, <2>5
<1>2. CASE nvKind = "gateway"
  <2>1. Steps = <<<<"native", "end0">>, <<"native", "eth0">>, <<"route", "end0">>,
                  <<"iproute", "end0">>, <<"route", "eth0">>, <<"iproute", "eth0">>>>
    BY <1>2 DEF Steps, kNetworkInterfaces
  <2>2. Len(Steps) = 6
    BY <2>1
  <2>3. \A n \in 1 .. 6 : Steps[n][2] \in NetIfaces /\ Steps[n][1] \in {"native", "route", "iproute"}
    BY <2>1
  <2>4. Steps[1] = <<"native", "end0">> /\ Steps[2] = <<"native", "eth0">>
    BY <2>1
  <2>5. \A n \in 1 .. 6 : n > 2 => Steps[n][1] \notin Kernels
    BY <2>1
  <2> QED BY <1>2, <2>2, <2>3, <2>4, <2>5
<1>3. CASE nvKind = "dns"
  BY <1>3 DEF Steps, kNetworkInterfaces
<1>4. CASE nvKind = "dhcp"
  BY <1>4 DEF Steps, kNetworkInterfaces
<1> QED BY <1>1, <1>2, <1>3, <1>4, NetVarsAssumption

\* Whatever a longer output left behind a shorter one, the lines are of the same kind.
LEMMA OutputTrue ==
  ASSUME NEW S, NEW old \in Seq(S), NEW out \in Seq(S)
  PROVE  OutputOf(old, out) \in Seq(S)
<1>1. SubSeq(old, Len(out) + 1, Len(old)) \in Seq(S)
  OBVIOUS
<1> QED BY <1>1, ConcatProperties DEF OutputOf

\* The line a command prints for an interface was true once.
LEMMA LineTrue ==
  ASSUME NetTypes, HistoryKept, NEW i \in NetIfaces, NEW v \in Versions, NEW f,
         nvKind = "gateway" => v = f
  PROVE  LineOf(i, v) \in Seq(TrueLines(f))
<1> DEFINE l == [iface |-> i, ver |-> v, val |-> truth[i, v]]
<1>1. ASSUME truth[i, v] # NoVal PROVE l \in TrueLines(f)
  <2>1. truth[i, v] \in NetVals \cup {LinkLocal}
    BY <1>1 DEF NetTypes
  <2> QED BY <1>1, <2>1 DEF TrueLines, HistoryKept
<1>2. CASE truth[i, v] # NoVal
  <2>1. LineOf(i, v) = <<l>> /\ l \in TrueLines(f)
    BY <1>1, <1>2 DEF LineOf
  <2> HIDE DEF l
  <2> QED BY <2>1
<1>3. CASE truth[i, v] = NoVal
  <2>1. LineOf(i, v) = <<>>
    BY <1>3, Zenon DEF LineOf
  <2> QED BY <2>1
<1> QED BY <1>2, <1>3

\* The line that heads a tool's output counts as true.
LEMMA FillerTrue == ASSUME NEW f PROVE <<Filler>> \in Seq(TrueLines(f))
<1>1. Filler \in TrueLines(f)
  BY DEF TrueLines
<1> QED BY <1>1

\* What a command prints is true as it prints it.
LEMMA PrintsTrue ==
  ASSUME NetTypes, HistoryKept, NEW i \in NetIfaces,
         NEW t \in {"ifconfig", "ip", "route", "iproute", "nmcli", "netstat", "ps"},
         nvKind = "gateway" => t \in {"route", "iproute"}
  PROVE  Prints(t, i) \in Seq(TrueLines(FileOf(t)))
<1> DEFINE f == FileOf(t)
           T == Seq(TrueLines(f))
<1>1. \A j \in NetIfaces : nvKind # "gateway" => LineOf(j, 4) \in T /\ LineOf(j, 6) \in T
  BY LineTrue DEF Versions
<1>2. \A j \in NetIfaces : nvKind # "gateway" => LinesOf(j) \in T
  BY <1>1, ConcatProperties DEF LinesOf
<1>3. nvVer \in Versions /\ (nvKind = "gateway" => nvVer = f)
  BY DEF NetTypes, FileOf
<1>4. \A j \in NetIfaces : LineOf(j, nvVer) \in T
  BY <1>3, LineTrue
<1>5. <<Filler>> \in T /\ "end0" \in NetIfaces /\ "eth0" \in NetIfaces
  BY FillerTrue DEF NetIfaces
<1>6. /\ \A p \in T, q \in T : p \o q \in T
      /\ \A p \in T, q \in T, r \in T : p \o q \o r \in T
  BY ConcatProperties
<1> HIDE DEF f, T
<1> SUFFICES Prints(t, i) \in T
  BY DEF f, T
<1>7. CASE t \in {"ifconfig", "nmcli"}
  BY <1>2, <1>5, <1>6, <1>7 DEF Prints
<1>8. CASE t = "ip"
  BY <1>4, <1>5, <1>6, <1>8 DEF Prints
<1>9. CASE t \in {"route", "netstat"}
  BY <1>4, <1>5, <1>6, <1>9 DEF Prints
<1>10. CASE t = "iproute"
  BY <1>4, <1>10 DEF Prints
<1>11. CASE t = "ps"
  BY <1>2, <1>5, <1>6, <1>11 DEF Prints
<1> QED BY <1>7, <1>8, <1>9, <1>10, <1>11

\* Converting a line keeps the value it is about.
LEMMA ConvertedTrue ==
  ASSUME MaskArithmetic, NEW t, NEW val, nvKind # "address" => val \in NetVals,
         NEW x \in Converted(t, val)
  PROVE  x[2] = Answered(val)[2]
<1>1. CASE nvKind = "address"
  BY <1>1 DEF Converted, Answered
<1>2. CASE nvKind = "netmask"
  <2>1. MaskOf(val) = CidrToNetmask(val)
    BY <1>2 DEF MaskArithmetic
  <2> QED BY <1>2, <2>1 DEF Converted, Answered
<1>3. CASE nvKind \notin {"address", "netmask"}
  <2>1. Converted(t, val) = {Answered(val)}
    BY <1>3 DEF Converted
  <2> QED BY <2>1
<1> QED BY <1>1, <1>2, <1>3

\* A line that a parser takes was true: for the IP version asked for, but of DHCP.
LEMMA ParsedTrue ==
  ASSUME MaskArithmetic, NetTypes, HistoryKept, NEW i \in NetIfaces, NEW t,
         \/ nvKind \in {"address", "netmask"} /\ t \in {"ifconfig", "ip"}
         \/ nvKind = "gateway" /\ t \in {"route", "iproute"}
         \/ nvKind = "dns" /\ t = "nmcli"
         \/ nvKind = "dhcp" /\ t \in {"netstat", "ps"},
         NEW lines \in Seq(TrueLines(FileOf(t))), NEW x \in Parsed(t, i, lines)
  PROVE  WasTrue(x)
<1> DEFINE all == {lines[n] : n \in DOMAIN lines}
           fit == CASE t \in {"ifconfig", "ip"} /\ nvKind = "address" -> ParseIpAddress(all, i)
                    [] t \in {"ifconfig", "ip"} /\ nvKind = "netmask" -> ParseNetmask(all, i)
                    [] t = "route" -> ParseGatewayFromRouteOutput(all, i)
                    [] t = "nmcli" -> ParseDns(all, i)
                    [] t = "netstat" -> ParseNetstat(all, i)
                    [] t = "ps" -> ParsePs(all, i)
                    [] t = "iproute" -> {lines[n] : n \in DOMAIN lines \intersect {1}} \ {Filler}
           at == {n \in DOMAIN lines : lines[n] \in fit}
<1>1. x \in UNION {Converted(t, lines[n].val) : n \in {m2 \in at : \A k \in at : m2 <= k}}
  BY Zenon DEF Parsed
<1> HIDE DEF fit
<1>2. PICK n \in DOMAIN lines : lines[n] \in fit /\ x \in Converted(t, lines[n].val)
  BY <1>1
<1> DEFINE l == lines[n]
<1>3. l \in TrueLines(FileOf(t)) /\ l \in all
  <2>1. ASSUME NEW S, NEW s \in Seq(S), NEW k \in DOMAIN s PROVE s[k] \in S
    OBVIOUS
  <2> QED BY <2>1
<1> HIDE DEF l, all
<1>4. i # Filler.iface /\ nvVer # Filler.ver
  <2>1. Filler.iface = "" /\ Filler.ver = 0
    BY DEF Filler
  <2>2. i # ""
    BY Zenon DEF NetIfaces
  <2>3. nvVer # 0
    BY DEF NetTypes, Versions
  <2> QED BY <2>1, <2>2, <2>3, Zenon
<1>5. l # Filler /\ (l.ver = nvVer \/ nvKind \in {"dhcp", "gateway"})
      /\ (nvKind = "address" => Usable(l.val))
  <2>0. l \in fit
    BY <1>2 DEF l
  <2>1. CASE nvKind = "address" /\ t \in {"ifconfig", "ip"}
    <3>1. l \in ParseIpAddress(all, i)
      BY <2>0, <2>1 DEF fit
    <3> QED BY <1>4, <2>1, <3>1 DEF ParseIpAddress
  <2>2. CASE nvKind = "netmask" /\ t \in {"ifconfig", "ip"}
    <3>1. l \in ParseNetmask(all, i)
      BY <2>0, <2>2 DEF fit
    <3> QED BY <1>4, <2>2, <3>1 DEF ParseNetmask
  <2>3. CASE nvKind = "gateway" /\ t = "route"
    <3>1. l \in ParseGatewayFromRouteOutput(all, i)
      BY <2>0, <2>3 DEF fit
    <3> QED BY <1>4, <2>3, <3>1 DEF ParseGatewayFromRouteOutput
  <2>4. CASE nvKind = "gateway" /\ t = "iproute"
    BY <2>0, <2>4 DEF fit
  <2>5. CASE nvKind = "dns" /\ t = "nmcli"
    <3>1. l \in ParseDns(all, i)
      BY <2>0, <2>5 DEF fit
    <3> QED BY <1>4, <2>5, <3>1 DEF ParseDns
  <2>6. CASE nvKind = "dhcp" /\ t = "netstat"
    <3>1. l \in ParseNetstat(all, i)
      BY <2>0, <2>6 DEF fit
    <3> QED BY <1>4, <2>6, <3>1 DEF ParseNetstat
  <2>7. CASE nvKind = "dhcp" /\ t = "ps"
    <3>1. l \in ParsePs(all, i)
      BY <2>0, <2>7 DEF fit
    <3> QED BY <1>4, <2>7, <3>1 DEF ParsePs
  <2> QED BY <2>1, <2>2, <2>3, <2>4, <2>5, <2>6, <2>7
<1>6. /\ l.val \in NetVals \cup {LinkLocal} /\ <<l.iface, l.ver, l.val>> \in ever
      /\ nvKind = "gateway" => l.ver = nvVer
  <2>1. nvKind = "gateway" => FileOf(t) = nvVer
    BY DEF FileOf
  <2> QED BY <1>3, <1>5, <2>1 DEF TrueLines
<1>7. Usable(l.val) /\ (nvKind # "address" => l.val \in NetVals)
  <2>1. nvKind # "address" => l.val # LinkLocal
    BY <1>6 DEF HistoryKept
  <2> QED BY <1>5, <1>6, <2>1, NetVarsAssumption DEF Usable
<1>8. x[2] = Answered(l.val)[2]
  BY <1>2, <1>7, ConvertedTrue DEF l
<1>9. l.ver = nvVer \/ nvKind = "dhcp"
  BY <1>5, <1>6
<1> DEFINE e == <<l.iface, l.ver, l.val>>
<1>10. e \in ever /\ e[2] = l.ver /\ e[3] = l.val
  BY <1>6
<1> HIDE DEF e
<1> QED BY <1>7, <1>8, <1>9, <1>10 DEF WasTrue

\* A step of the query ends it with a true answer, or with none, or goes on.
LEMMA AnswerStep ==
  ASSUME NetTypes, nvAt # 0, NEW vals, \A x \in vals : WasTrue(x), NetAnswer(vals),
         UNCHANGED <<nvKind, nvVer, ever, truth>>
  PROVE  NetTypes' /\ AnswerWasTrue'
<1>1. Steps' = Steps
  BY DEF Steps
<1>2. nvAt' \in 0 .. Len(Steps)
  BY StepsTable DEF NetAnswer, NetTypes
<1>3. NetTypes'
  BY <1>1, <1>2 DEF NetTypes
<1>4. CASE nvAt' # 0
  <2>1. ~Spoken'
    BY <1>4 DEF Spoken
  <2> QED BY <1>3, <2>1, Zenon DEF AnswerWasTrue
<1>5. CASE nvAt' = 0 /\ vals # {}
  <2>1. WasTrue(nvSaid')
    BY <1>5 DEF NetAnswer
  <2>2. PICK e \in ever : /\ e[2] = nvVer \/ nvKind = "dhcp"
                          /\ Usable(e[3]) /\ nvSaid'[2] = Answered(e[3])[2]
    BY <2>1 DEF WasTrue
  <2>3. Answered(e[3])' = Answered(e[3]) /\ Usable(e[3])'
    BY <2>2 DEF Answered, Usable
  <2>4. nvSaid'[2] = Answered(e[3])'[2]
    BY <2>2, <2>3, Zenon
  <2>5. e \in ever' /\ (e[2] = nvVer' \/ nvKind' = "dhcp")
    BY <2>2
  <2> QED BY <1>3, <2>3, <2>4, <2>5, Zenon DEF AnswerWasTrue
<1>6. CASE nvAt' = 0 /\ vals = {}
  <2>1. nvSaid'[1] \in {"no", "FAIL"}
    <3>1. nvAt = Len(Steps)
      BY <1>6, StepsTable DEF NetAnswer, NetTypes
    <3> QED BY <1>6, <3>1 DEF NetAnswer
  <2>2. ~Spoken'
    BY <2>1 DEF Spoken
  <2> QED BY <1>3, <2>2, Zenon DEF AnswerWasTrue
<1> QED BY <1>4, <1>5, <1>6

\* The kernel's own answer.
LEMMA NativeKeeps ==
  ASSUME NetInv, TryNative
  PROVE  NetInv'
<1> DEFINE i == Steps[nvAt][2]
           own == truth[i, nvVer]
<1>0. /\ nvAt # 0 /\ Steps[nvAt][1] \in Kernels
      /\ \/ NetAnswer(GetInterfaceInfoNative(i)) /\ UNCHANGED fault
         \/ NetAnswer({}) /\ fault' = TRUE
      /\ UNCHANGED <<nvKind, tools, truth, leases, scratch, nvVer, ever, during, steady, changes>>
  BY DEF TryNative, Kernels
<1>1. nvAt \in 1 .. Len(Steps) /\ i \in NetIfaces /\ nvVer \in Versions /\ nvKind \in NetKinds
  BY <1>0, StepsTable DEF NetInv, NetTypes
<1>2. nvKind # "dhcp" => nvAt \in {1, 2}
  BY <1>0, <1>1, StepsTable
<1>3. nvKind # "dhcp" => (nvAt = 1 => i = "end0") /\ (nvAt = 2 => i = "eth0") /\ Len(Steps) > 2
  <2>1. Len(Steps) > 2
    <3>1. Len(Steps) \in {4, 6}
      BY <1>1, StepsTable, Zenon
    <3> QED BY <3>1, SMTT(40)
  <2>2. nvKind # "dhcp" => Steps[1][2] = "end0" /\ Steps[2][2] = "eth0"
    BY <1>1, StepsTable
  <2> QED BY <2>1, <2>2, Zenon
<1>4. \A x \in GetInterfaceInfoNative(i) : WasTrue(x)
  <2> SUFFICES ASSUME Usable(own) PROVE WasTrue(Answered(own))
    BY DEF GetInterfaceInfoNative
  <2> DEFINE e == <<i, nvVer, own>>
  <2>1. e \in ever /\ e[2] = nvVer /\ e[3] = own
    BY <1>1 DEF NetInv, HistoryKept, Usable
  <2> HIDE DEF e, own
  <2> QED BY <2>1 DEF WasTrue
<1>5. NetTypes' /\ AnswerWasTrue'
  BY <1>0, <1>4, AnswerStep DEF NetInv
<1>6. HistoryKept' /\ FilesTrue'
  BY <1>0 DEF NetInv, HistoryKept, FilesTrue, TrueLines, Usable
<1>7. CASE NetAnswer({}) /\ fault' = TRUE
  BY <1>0, <1>5, <1>6, <1>7 DEF NetInv, SteadyPending, SteadyIsAnswered, Usable
<1>8. CASE Usable(own) /\ NetAnswer(GetInterfaceInfoNative(i)) /\ UNCHANGED fault
  <2>1. nvAt' = 0 /\ nvSaid' = Answered(own)
    BY <1>8 DEF NetAnswer, GetInterfaceInfoNative
  <2>2. PICK val : val = own
    OBVIOUS
  <2>3. Answered(val)' = Answered(val) /\ Usable(val)'
    BY <1>0, <1>8, <2>2 DEF Answered, Usable
  <2>4. val \in during' /\ nvSaid' = Answered(val)'
    <3>1. own \in during
      BY <1>0, <1>1 DEF NetInv, SteadyPending
    <3>2. nvSaid' = Answered(val)
      BY <2>1, <2>2, Zenon
    <3> QED BY <1>0, <2>2, <2>3, <3>1, <3>2, Zenon
  <2>5. SteadyIsAnswered'
    BY <2>3, <2>4, Zenon DEF SteadyIsAnswered
  <2>6. SteadyPending'
    BY <2>1 DEF SteadyPending
  <2> QED BY <1>5, <1>6, <2>5, <2>6 DEF NetInv
<1>9. CASE ~Usable(own) /\ NetAnswer(GetInterfaceInfoNative(i)) /\ UNCHANGED fault
  <2>1. \/ nvAt = Len(Steps) /\ nvAt' = 0
        \/ nvAt # Len(Steps) /\ nvAt' = nvAt + 1
    BY <1>9 DEF NetAnswer, GetInterfaceInfoNative
  <2>2. i \notin steady
    BY <1>0, <1>9 DEF NetInv, SteadyPending
  <2>3. (nvKind # "dhcp" /\ ~fault /\ steady # {}) => nvAt = 1 /\ steady \subseteq {"eth0"}
    <3> SUFFICES ASSUME nvKind # "dhcp" /\ ~fault /\ steady # {}
                 PROVE  nvAt = 1 /\ steady \subseteq {"eth0"}
      OBVIOUS
    <3>1. /\ steady \subseteq {"end0", "eth0"}
          /\ nvAt = 1 \/ (nvAt = 2 /\ steady \subseteq {"eth0"})
      BY <1>0 DEF NetInv, SteadyPending, NetIfaces
    <3>2. nvAt = 1 => "end0" \notin steady
      BY <1>3, <2>2
    <3>3. nvAt = 2 => "eth0" \notin steady
      BY <1>3, <2>2
    <3> QED BY <3>1, <3>2, <3>3
  <2>4. (nvKind # "dhcp" /\ ~fault /\ steady # {}) => nvAt' = 2 /\ steady \subseteq {"eth0"}
    <3>1. nvKind # "dhcp" => Len(Steps) > 2 /\ Len(Steps) \in Nat
      BY <1>1, StepsTable
    <3> HIDE DEF i, own
    <3> QED BY <2>1, <2>3, <3>1
  <2>5. SteadyPending'
    <3>1. nvAt # 0 /\ nvKind' = nvKind /\ fault' = fault /\ steady' = steady /\ truth' = truth
          /\ nvVer' = nvVer /\ during' = during
      BY <1>0, <1>9
    <3> HIDE DEF i, own
    <3> QED BY <2>4, <3>1 DEF NetInv, SteadyPending, Usable
  <2>6. SteadyIsAnswered'
    <3>1. nvKind' = nvKind /\ fault' = fault /\ steady' = steady
      BY <1>0, <1>9
    <3> HIDE DEF i, own
    <3>2. ~(nvAt' = 0 /\ nvKind' # "dhcp" /\ steady' # {} /\ ~fault')
      BY <2>4, <3>1
    <3> QED BY <3>2, Zenon DEF SteadyIsAnswered
  <2> QED BY <1>5, <1>6, <2>5, <2>6 DEF NetInv
<1> QED BY <1>0, <1>7, <1>8, <1>9

\* A source that is not the kernel's is only asked once no interface is steady, or
\* after a fault.
LEMMA NotNativeKeeps ==
  ASSUME NetInv, nvAt # 0, Steps[nvAt][1] \notin Kernels,
         NEW vals, \A x \in vals : WasTrue(x), NetAnswer(vals), FilesTrue',
         UNCHANGED <<nvKind, truth, leases, nvVer, ever, during, steady, fault>>
  PROVE  NetInv'
<1>1. NetTypes' /\ AnswerWasTrue'
  BY AnswerStep DEF NetInv
<1>2. nvKind = "dhcp" \/ fault \/ steady = {}
  BY StepsTable DEF NetInv, NetTypes, SteadyPending
<1>3. HistoryKept'
  BY DEF NetInv, HistoryKept, Usable
<1>4. SteadyPending'
  BY <1>2 DEF NetInv, SteadyPending, Usable
<1>5. SteadyIsAnswered'
  BY <1>2 DEF SteadyIsAnswered
<1> QED BY <1>1, <1>3, <1>4, <1>5 DEF NetInv

\* Running a command, or finding the lease file, keeps NetInv.
LEMMA CommandKeeps ==
  ASSUME NetInv, MaskArithmetic, TryExecuteCommand \/ CheckLease
  PROVE  NetInv'
<1> DEFINE t == Steps[nvAt][1]
           i == Steps[nvAt][2]
<1>0. nvAt # 0 /\ UNCHANGED <<nvKind, tools, truth, leases, nvVer, ever, during, steady, fault>>
  BY DEF TryExecuteCommand, CheckLease
<1>1. nvAt \in 1 .. Len(Steps) /\ i \in NetIfaces /\ nvKind \in NetKinds
  BY <1>0, StepsTable DEF NetInv, NetTypes
<1>2. \A f : TrueLines(f)' = TrueLines(f)
  BY <1>0 DEF TrueLines, Filler
<1>3. CASE CheckLease
  <2> DEFINE vals == IF <<i, nvVer>> \in leases THEN {<<"yes", 0>>} ELSE {}
  <2>1. t = "lease" /\ NetAnswer(vals) /\ UNCHANGED scratch
    BY <1>3 DEF CheckLease
  <2>2. nvKind = "dhcp" /\ t \notin Kernels
    BY <1>1, <2>1, StepsTable, NetVarsAssumption DEF Kernels
  <2>3. ASSUME <<i, nvVer>> \in leases PROVE WasTrue(<<"yes", 0>>)
    <3>1. PICK e \in ever : Usable(e[3])
      BY <2>2, <2>3 DEF NetInv, HistoryKept
    <3>2. Answered(e[3]) = <<"yes", 0>>
      BY <2>2 DEF Answered
    <3> QED BY <2>2, <3>1, <3>2 DEF WasTrue
  <2>4. \A x \in vals : WasTrue(x)
    BY <2>3
  <2>5. FilesTrue'
    BY <1>2, <2>1 DEF NetInv, FilesTrue
  <2> HIDE DEF vals
  <2> QED BY <1>0, <2>1, <2>2, <2>4, <2>5, NotNativeKeeps
<1>4. CASE TryExecuteCommand
  <2> DEFINE out == OutputOf(scratch[FileOf(t)], Prints(t, i))
  <2>1. /\ t \notin {"native", "resolv.conf", "lease"}
        /\ \/ /\ scratch' = [scratch EXCEPT ![FileOf(t)] = out]
              /\ NetAnswer(Parsed(t, i, scratch'[FileOf(t)])) \/ NetAnswer({})
           \/ NetAnswer({}) /\ UNCHANGED scratch
    BY <1>4 DEF TryExecuteCommand
  <2>2. \/ nvKind \in {"address", "netmask"} /\ t \in {"ifconfig", "ip"}
        \/ nvKind = "gateway" /\ t \in {"route", "iproute"}
        \/ nvKind = "dns" /\ t = "nmcli"
        \/ nvKind = "dhcp" /\ t \in {"netstat", "ps"}
    BY <1>1, <2>1, StepsTable, NetVarsAssumption
  <2>3. t \notin Kernels
    BY <2>1 DEF Kernels
  <2>4. FileOf(t) \in Files
    BY DEF FileOf, Files, NetInv, NetTypes
  <2>5. Prints(t, i) \in Seq(TrueLines(FileOf(t)))
    BY <1>1, <2>2, PrintsTrue DEF NetInv
  <2>6. out \in Seq(TrueLines(FileOf(t)))
    BY <2>4, <2>5, OutputTrue DEF NetInv, FilesTrue
  <2> HIDE DEF out
  <2>7. CASE scratch' = [scratch EXCEPT ![FileOf(t)] = out]
    <3>1. scratch'[FileOf(t)] = out
      BY <2>4, <2>7 DEF NetInv, FilesTrue
    <3>2. FilesTrue'
      <4>1. scratch' = [f \in Files |-> scratch'[f]]
        BY <2>7 DEF NetInv, FilesTrue
      <4>2. \A f \in Files : scratch'[f] \in Seq(TrueLines(f))
        BY <2>6, <2>7 DEF NetInv, FilesTrue
      <4>3. \A f \in Files : Seq(TrueLines(f))' = Seq(TrueLines(f))
        BY <1>2
      <4> QED BY <4>1, <4>2, <4>3 DEF FilesTrue
    <3>3. \A x \in Parsed(t, i, out) : WasTrue(x)
      BY <1>1, <2>2, <2>6, ParsedTrue DEF NetInv
    <3> QED BY <1>0, <2>1, <2>3, <2>7, <3>1, <3>2, <3>3, NotNativeKeeps
  <2>8. CASE NetAnswer({}) /\ UNCHANGED scratch
    <3>1. FilesTrue'
      BY <1>2, <2>8 DEF NetInv, FilesTrue
    <3> QED BY <1>0, <2>3, <2>8, <3>1, NotNativeKeeps
  <2> QED BY <2>1, <2>7, <2>8
<1> QED BY <1>3, <1>4

\* A query begins.
LEMMA QueryKeeps ==
  ASSUME NetInv, NEW v \in Versions, GetVarNet(v)
  PROVE  NetInv'
<1>0. /\ nvAt' = 1 /\ nvVer' = v /\ fault' = FALSE
      /\ during' = {truth[i, v] : i \in NetIfaces}
      /\ steady' = {i \in NetIfaces : Usable(truth[i, v])}
      /\ UNCHANGED <<nvKind, tools, truth, leases, scratch, ever, changes>>
  BY ZenonT(60) DEF GetVarNet
<1>a. /\ nvAt' = 1 /\ nvVer' = v
      /\ UNCHANGED <<nvKind, tools, truth, leases, scratch, ever, changes>>
  BY ZenonT(60) DEF GetVarNet
<1>1. Steps' = Steps /\ Len(Steps) \in {4, 6}
  BY <1>a, StepsTable DEF Steps, NetInv, NetTypes
<1>2. NetTypes'
  <2>1. nvAt' \in 0 .. Len(Steps')
    BY <1>a, <1>1, SMTT(40)
  <2> QED BY <1>a, <2>1 DEF NetInv, NetTypes
<1>3. HistoryKept' /\ FilesTrue'
  BY <1>0 DEF NetInv, HistoryKept, FilesTrue, TrueLines, Usable
<1>4. SteadyPending'
  BY <1>0 DEF SteadyPending, Usable
<1>5. AnswerWasTrue' /\ SteadyIsAnswered'
  <2>1. nvAt' # 0
    BY <1>a
  <2> QED BY <2>1, Zenon DEF AnswerWasTrue, SteadyIsAnswered, Spoken
<1> QED BY <1>2, <1>3, <1>4, <1>5 DEF NetInv

\* The network changes, at any point of a query or between two.
LEMMA ChangeKeeps ==
  ASSUME NetInv, NEW i \in NetIfaces, NEW v \in Versions, NetChange(i, v)
  PROVE  NetInv'
<1>0. PICK val \in NetVals \cup {NoVal} \cup (IF nvKind = "address" /\ v = 6 THEN {LinkLocal} ELSE {}) :
        truth' = [truth EXCEPT ![<<i, v>>] = val]
  BY DEF NetChange
<1>1. /\ ever' = ever \cup Ran(truth')
      /\ leases' = leases \cup {x \in NetIfaces \X Versions : truth'[x] # NoVal}
      /\ during' = IF nvAt # 0 THEN during \cup {truth'[j, nvVer] : j \in NetIfaces} ELSE during
      /\ steady' = IF nvAt # 0 /\ v = nvVer THEN steady \ {i} ELSE steady
      /\ UNCHANGED <<nvKind, tools, scratch, nvAt, nvVer, nvSaid, fault>>
  BY DEF NetChange
<1>2. Steps' = Steps
  BY <1>1 DEF Steps
<1>3. val \in NetVals \cup {NoVal, LinkLocal} /\ (nvKind # "address" => val # LinkLocal)
  BY NetVarsAssumption
<1>4. NetTypes'
  BY <1>0, <1>1, <1>2, <1>3 DEF NetInv, NetTypes
<1>5. \A j \in NetIfaces, w \in Versions :
        <<j, w, truth'[j, w]>> \in ever' /\ (nvKind # "address" => truth'[j, w] # LinkLocal)
  <2>1. ASSUME NEW j \in NetIfaces, NEW w \in Versions PROVE <<j, w, truth'[j, w]>> \in Ran(truth')
    <3> DEFINE x == <<j, w>>
    <3>1. x \in NetIfaces \X Versions /\ x[1] = j /\ x[2] = w
      BY <2>1
    <3>2. <<x[1], x[2], truth'[x]>> \in Ran(truth')
      BY <3>1 DEF Ran
    <3> QED BY <3>1, <3>2
  <2>2. ASSUME NEW j \in NetIfaces, NEW w \in Versions, nvKind # "address"
        PROVE  truth'[j, w] # LinkLocal
    <3>1. truth[j, w] # LinkLocal
      BY <2>2 DEF NetInv, HistoryKept
    <3>2. truth'[j, w] \in {truth[j, w], val}
      BY <1>0, <2>2 DEF NetInv, NetTypes
    <3> QED BY <1>3, <2>2, <3>1, <3>2
  <2> QED BY <1>1, <2>1, <2>2
<1>6. HistoryKept'
  <2>1. nvKind # "address" => \A e \in ever' : e[3] # LinkLocal
    <3>1. ASSUME nvKind # "address", NEW e \in Ran(truth') PROVE e[3] # LinkLocal
      <4>1. PICK x \in NetIfaces \X Versions : e = <<x[1], x[2], truth'[x]>>
        BY <3>1 DEF Ran
      <4>2. PICK j \in NetIfaces, w \in Versions : x = <<j, w>>
        BY <4>1
      <4>3. truth'[x] # LinkLocal
        BY <1>5, <3>1, <4>2
      <4> QED BY <4>1, <4>3
    <3> QED BY <1>1, <3>1 DEF NetInv, HistoryKept
  <2>2. (nvKind = "dhcp" /\ leases' # {}) => \E e \in ever' : Usable(e[3])
    <3>1. CASE leases # {}
      BY <1>1, <3>1 DEF NetInv, HistoryKept
    <3>2. ASSUME nvKind = "dhcp", leases = {}, leases' # {} PROVE \E e \in ever' : Usable(e[3])
      <4>1. PICK j \in NetIfaces, w \in Versions : truth'[j, w] # NoVal
        <5>1. PICK x \in NetIfaces \X Versions : truth'[x] # NoVal
          BY <1>1, <3>2
        <5>2. PICK j \in NetIfaces, w \in Versions : x = <<j, w>>
          BY <5>1
        <5> QED BY <5>1, <5>2
      <4> DEFINE e == <<j, w, truth'[j, w]>>
      <4>2. e \in ever' /\ e[3] = truth'[j, w]
        BY <1>5
      <4>3. Usable(truth'[j, w])
        BY <1>5, <3>2, <4>1 DEF Usable
      <4> HIDE DEF e
      <4> QED BY <4>2, <4>3
    <3> QED BY <3>1, <3>2
  <2> QED BY <1>1, <1>5, <2>1, <2>2 DEF HistoryKept, Usable
<1>7. FilesTrue'
  <2>1. \A f : TrueLines(f) \subseteq TrueLines(f)'
    BY <1>1 DEF TrueLines, Filler
  <2>2. ASSUME NEW S, NEW T, S \subseteq T, NEW s \in Seq(S) PROVE s \in Seq(T)
    BY <2>2
  <2>3. \A f \in Files : scratch[f] \in Seq(TrueLines(f)')
    BY <2>1, <2>2 DEF NetInv, FilesTrue
  <2> QED BY <1>1, <2>3 DEF NetInv, FilesTrue
<1>8. SteadyPending'
  <2> SUFFICES ASSUME nvAt # 0
               PROVE  /\ steady' \subseteq NetIfaces
                      /\ \A j \in steady' : Usable(truth'[j, nvVer])
                      /\ \A j \in NetIfaces : truth'[j, nvVer] \in during'
                      /\ (nvKind # "dhcp" /\ ~fault /\ steady' # {}) =>
                           nvAt = 1 \/ (nvAt = 2 /\ steady' \subseteq {"eth0"})
    BY <1>1 DEF SteadyPending, Usable
  <2>1. steady' \subseteq steady /\ steady \subseteq NetIfaces
    BY <1>1 DEF NetInv, SteadyPending
  <2>2. ASSUME NEW j \in steady' PROVE Usable(truth'[j, nvVer])
    <3>1. <<j, nvVer>> # <<i, v>>
      BY <1>1, <2>2
    <3>2. truth'[j, nvVer] = truth[j, nvVer]
      BY <1>0, <2>1, <2>2, <3>1 DEF NetInv, NetTypes
    <3> QED BY <2>1, <2>2, <3>2 DEF NetInv, SteadyPending
  <2>3. \A j \in NetIfaces : truth'[j, nvVer] \in during'
    BY <1>1
  <2>4. (nvKind # "dhcp" /\ ~fault /\ steady' # {}) =>
           nvAt = 1 \/ (nvAt = 2 /\ steady' \subseteq {"eth0"})
    BY <2>1 DEF NetInv, SteadyPending
  <2> QED BY <2>1, <2>2, <2>3, <2>4
<1>9. \A x : Answered(x)' = Answered(x) /\ Usable(x)' = Usable(x)
  BY <1>1 DEF Answered, Usable
<1>10. AnswerWasTrue'
  <2> SUFFICES ASSUME Spoken'
               PROVE  \E e \in ever' : /\ e[2] = nvVer' \/ nvKind' = "dhcp"
                                       /\ Usable(e[3])' /\ nvSaid'[2] = Answered(e[3])'[2]
    BY Zenon DEF AnswerWasTrue
  <2>1. Spoken
    BY <1>1 DEF Spoken
  <2>2. PICK e \in ever : /\ e[2] = nvVer \/ nvKind = "dhcp"
                          /\ Usable(e[3]) /\ nvSaid[2] = Answered(e[3])[2]
    BY <2>1, Zenon DEF NetInv, AnswerWasTrue
  <2>3. e \in ever' /\ (e[2] = nvVer' \/ nvKind' = "dhcp") /\ nvSaid' = nvSaid
    BY <1>1, <2>2
  <2> QED BY <1>9, <2>2, <2>3, Zenon
<1>11. SteadyIsAnswered'
  <2> SUFFICES ASSUME nvAt' = 0 /\ nvSaid'[1] # "none" /\ nvKind' # "dhcp" /\ steady' # {} /\ ~fault'
               PROVE  \E x \in during' : Usable(x)' /\ nvSaid' = Answered(x)'
    BY Zenon DEF SteadyIsAnswered
  <2>1. nvAt = 0 /\ nvSaid[1] # "none" /\ nvKind # "dhcp" /\ steady # {} /\ ~fault /\ during' = during
    BY <1>1
  <2>2. PICK x \in during : Usable(x) /\ nvSaid = Answered(x)
    BY <2>1, Zenon DEF NetInv, SteadyIsAnswered
  <2> QED BY <1>1, <1>9, <2>1, <2>2, Zenon
<1> QED BY <1>4, <1>6, <1>7, <1>8, <1>10, <1>11 DEF NetInv

\* NetInv is an invariant of NetVars.
LEMMA NetInvHolds == ASSUME MaskArithmetic PROVE NetSpec => []NetInv
<1>1. NetInit => NetInv
  <2> SUFFICES ASSUME NetInit PROVE NetInv
    OBVIOUS
  <2>1. nvAt = 0 /\ nvSaid[1] = "none" /\ leases = {} /\ ever = {} /\ nvKind \in NetKinds
    BY DEF NetInit
  <2>2. NetTypes
    BY StepsTable DEF NetInit, NetTypes, Versions
  <2>3. HistoryKept
    BY <2>1, NetVarsAssumption DEF NetInit, HistoryKept
  <2>4. FilesTrue
    BY DEF NetInit, FilesTrue
  <2>5. SteadyPending /\ AnswerWasTrue /\ SteadyIsAnswered
    BY <2>1, Zenon DEF SteadyPending, AnswerWasTrue, SteadyIsAnswered, Spoken
  <2> QED BY <2>2, <2>3, <2>4, <2>5 DEF NetInv
<1>2. ASSUME NetInv, UNCHANGED nvVars PROVE NetInv'
  BY <1>2, ZenonT(60) DEF nvVars, NetInv, NetTypes, Steps, HistoryKept, FilesTrue, TrueLines, SteadyPending,
              AnswerWasTrue, SteadyIsAnswered, Spoken, Answered, Usable, MaskOf
<1>3. MaskArithmetic => (NetInv /\ [NetNext]_nvVars => NetInv')
  BY <1>2, QueryKeeps, NativeKeeps, CommandKeeps, ChangeKeeps DEF NetNext
<1> QED BY <1>1, <1>3, PTL DEF NetSpec

\* What getvar says of the network was true of it at some time, for the IP version
\* asked for, and an interface that keeps its value is answered for: for any set of
\* values, any installed commands and any number of changes under the query.
THEOREM NetworkAlwaysAsTold == ASSUME MaskArithmetic PROVE NetSpec => []NetworkAsTold
<1>1. NetInv => NetworkAsTold
  BY DEF NetInv, NetworkAsTold
<1> QED BY NetInvHolds, <1>1, PTL
----------------------------------------------------------------------------
\* The bits a word can have programmed: the four octets, or the two, of an
\* address; a customer row is not restricted.
BitsOf(w) ==
  IF w[1] \in Ifaces
  THEN 0 .. (IF w[2] = 0 THEN OctetBits + OctetBits + OctetBits + OctetBits - 1
                         ELSE OctetBits + OctetBits - 1)
  ELSE Nat

\* Words of OTP with the bits they can have.
Fits(f) == DOMAIN f \subseteq OtpWords /\ \A w \in DOMAIN f : f[w] \subseteq BitsOf(w)

\* The words of a request are blank or already as requested.
Burnable(words) == \A w \in DOMAIN words : otp[w] = {} \/ otp[w] = words[w]

RowsInv ==
  /\ otp = [w \in OtpWords |-> otp[w]] /\ Fits(otp)
  /\ Fits(req)
  /\ rowPc = "burn" => Burnable(req)
  /\ AckedIsHeld

\* A step as WriteOnce sees it.
OnceStep == Once!WriteOnceNext \/ UNCHANGED <<otp, acked>>
----------------------------------------------------------------------------
\* Where an octet's bit goes in its word.
LEMMA Position ==
  ASSUME NEW o \in 0 .. 5
  PROVE  OctetBits * (o % 4) =
           CASE o \in {0, 4} -> 0
             [] o \in {1, 5} -> OctetBits
             [] o = 2 -> OctetBits + OctetBits
             [] o = 3 -> OctetBits + OctetBits + OctetBits
<1>1. OctetBits \in Nat
  BY OtpRowsAssumption
<1>2. CASE o = 0
  BY <1>1, <1>2
<1>3. CASE o = 1
  BY <1>1, <1>3
<1>4. CASE o = 2
  BY <1>1, <1>4
<1>5. CASE o = 3
  BY <1>1, <1>5
<1>6. CASE o = 4
  BY <1>1, <1>6
<1>7. CASE o = 5
  BY <1>1, <1>7
<1> QED BY <1>2, <1>3, <1>4, <1>5, <1>6, <1>7

\* Every bit of a word is a bit of one of its octets.
LEMMA Octet ==
  ASSUME NEW i \in Ifaces, NEW k \in {0, 1}, NEW n \in BitsOf(<<i, k>>)
  PROVE  \E o \in 0 .. 5 : \E b \in 0 .. OctetBits - 1 :
           o \div 4 = k /\ n = OctetBits * (o % 4) + b
<1>1. OctetBits \in Nat /\ OctetBits > 0
  BY OtpRowsAssumption
<1>2. CASE k = 0
  <2>1. n \in 0 .. OctetBits + OctetBits + OctetBits + OctetBits - 1
    BY <1>2 DEF BitsOf
  <2>2. \/ n \in 0 .. OctetBits - 1
        \/ n - OctetBits \in 0 .. OctetBits - 1
        \/ n - (OctetBits + OctetBits) \in 0 .. OctetBits - 1
        \/ n - (OctetBits + OctetBits + OctetBits) \in 0 .. OctetBits - 1
    BY <1>1, <2>1
  <2>3. CASE n \in 0 .. OctetBits - 1
    <3>1. 0 \in 0 .. 5 /\ 0 \div 4 = 0 /\ n = OctetBits * (0 % 4) + n
      BY <1>1, <2>1, Position
    <3> QED BY <1>2, <2>3, <3>1
  <2>4. CASE n - OctetBits \in 0 .. OctetBits - 1
    <3>1. 1 \in 0 .. 5 /\ 1 \div 4 = 0 /\ n = OctetBits * (1 % 4) + (n - OctetBits)
      BY <1>1, <2>1, Position
    <3> QED BY <1>2, <2>4, <3>1
  <2>5. CASE n - (OctetBits + OctetBits) \in 0 .. OctetBits - 1
    <3>1. 2 \in 0 .. 5 /\ 2 \div 4 = 0
          /\ n = OctetBits * (2 % 4) + (n - (OctetBits + OctetBits))
      BY <1>1, <2>1, Position
    <3> QED BY <1>2, <2>5, <3>1
  <2>6. CASE n - (OctetBits + OctetBits + OctetBits) \in 0 .. OctetBits - 1
    <3>1. 3 \in 0 .. 5 /\ 3 \div 4 = 0
          /\ n = OctetBits * (3 % 4) + (n - (OctetBits + OctetBits + OctetBits))
      BY <1>1, <2>1, Position
    <3> QED BY <1>2, <2>6, <3>1
  <2> QED BY <2>2, <2>3, <2>4, <2>5, <2>6
<1>3. CASE k = 1
  <2>1. n \in 0 .. OctetBits + OctetBits - 1
    BY <1>3 DEF BitsOf
  <2>2. n \in 0 .. OctetBits - 1 \/ n - OctetBits \in 0 .. OctetBits - 1
    BY <1>1, <2>1
  <2>3. CASE n \in 0 .. OctetBits - 1
    <3>1. 4 \in 0 .. 5 /\ 4 \div 4 = 1 /\ n = OctetBits * (4 % 4) + n
      BY <1>1, <2>1, Position
    <3> QED BY <1>3, <2>3, <3>1
  <2>4. CASE n - OctetBits \in 0 .. OctetBits - 1
    <3>1. 5 \in 0 .. 5 /\ 5 \div 4 = 1 /\ n = OctetBits * (5 % 4) + (n - OctetBits)
      BY <1>1, <2>1, Position
    <3> QED BY <1>3, <2>4, <3>1
  <2> QED BY <2>2, <2>3, <2>4
<1> QED BY <1>2, <1>3

\* A bit of an octet is a bit of the octet's word.
LEMMA OctetFits ==
  ASSUME NEW i \in Ifaces, NEW k \in {0, 1}, NEW o \in 0 .. 5, NEW b \in 0 .. OctetBits - 1,
         o \div 4 = k
  PROVE  OctetBits * (o % 4) + b \in BitsOf(<<i, k>>)
<1>1. OctetBits \in Nat /\ OctetBits > 0
  BY OtpRowsAssumption
<1>2. k = 0 => o \in {0, 1, 2, 3}
  OBVIOUS
<1>3. k = 1 => o \in {4, 5}
  OBVIOUS
<1>4. CASE k = 0
  <2>1. BitsOf(<<i, k>>) = 0 .. OctetBits + OctetBits + OctetBits + OctetBits - 1
    BY <1>4 DEF BitsOf
  <2> QED BY <1>1, <1>2, <1>4, <2>1, Position, SMTT(40)
<1>5. CASE k = 1
  <2>1. BitsOf(<<i, k>>) = 0 .. OctetBits + OctetBits - 1
    BY <1>5 DEF BitsOf
  <2> QED BY <1>1, <1>3, <1>5, <2>1, Position, SMTT(40)
<1> QED BY <1>4, <1>5

\* The words of an interface, one by one.
LEMMA MacWordsAre ==
  ASSUME NEW i
  PROVE  /\ MacWords(i) = {<<i, 0>>, <<i, 1>>}
         /\ \A w \in MacWords(i) : w[1] = i /\ w[2] \in {0, 1} /\ w = <<i, w[2]>>
         /\ i \in Ifaces => MacWords(i) \subseteq OtpWords
<1>1. MacWords(i) = {<<i, 0>>, <<i, 1>>}
  BY DEF MacWords
<1>2. i \in Ifaces => MacWords(i) \subseteq OtpWords
  BY Zenon DEF OtpWords
<1> QED BY <1>1, <1>2

\* What a word of MacToWords has programmed.
LEMMA MacBit ==
  ASSUME NEW i, NEW mac, NEW w \in MacWords(i), NEW n
  PROVE  n \in MacToWords(i, mac)[w] <=>
           \E o \in 0 .. 5 : o \div 4 = w[2] /\ \E b \in mac[o] : n = OctetBits * (o % 4) + b
<1> DEFINE octets == {o2 \in 0 .. 5 : o2 \div 4 = w[2]}
           bits(o) == {OctetBits * (o % 4) + b : b \in mac[o]}
<1>1. MacToWords(i, mac)[w] = UNION {bits(o) : o \in octets}
  BY Zenon DEF MacToWords
<1>2. n \in UNION {bits(o) : o \in octets} <=> \E o \in octets : n \in bits(o)
  BY Zenon
<1>3. \A o : n \in bits(o) <=> \E b \in mac[o] : n = OctetBits * (o % 4) + b
  BY Zenon
<1>4. \A o : o \in octets <=> o \in 0 .. 5 /\ o \div 4 = w[2]
  BY Zenon
<1> HIDE DEF octets, bits
<1> QED BY <1>1, <1>2, <1>3, <1>4, Zenon

\* The words of an address have only bits that its octets can have.
LEMMA MacToWordsFits ==
  ASSUME NEW i \in Ifaces, NEW mac \in TryMacs
  PROVE  Fits(MacToWords(i, mac)) /\ DOMAIN MacToWords(i, mac) = MacWords(i)
<1>1. DOMAIN MacToWords(i, mac) = MacWords(i)
  BY DEF MacToWords
<1>2. ASSUME NEW w \in MacWords(i), NEW n \in MacToWords(i, mac)[w]
      PROVE  n \in BitsOf(w)
  <2>1. PICK o \in 0 .. 5 : o \div 4 = w[2] /\ \E b \in mac[o] : n = OctetBits * (o % 4) + b
    BY <1>2, MacBit
  <2>2. PICK b \in mac[o] : n = OctetBits * (o % 4) + b
    BY <2>1
  <2>3. b \in 0 .. OctetBits - 1
    BY OtpRowsAssumption
  <2>4. w = <<i, w[2]>> /\ w[2] \in {0, 1}
    BY MacWordsAre
  <2>5. OctetBits * (o % 4) + b \in BitsOf(<<i, w[2]>>)
    BY <2>1, <2>3, <2>4, OctetFits
  <2> QED BY <2>2, <2>4, <2>5
<1> QED BY <1>1, <1>2, MacWordsAre DEF Fits

\* MacFromWords loses nothing of words that an address can be in: read back, the
\* address gives the same words.
LEMMA MacRoundTrip ==
  ASSUME NEW i \in Ifaces, Fits(otp), DOMAIN otp = OtpWords, NEW w \in MacWords(i)
  PROVE  MacToWords(i, GetCustomerMac(i))[w] = otp[w]
<1> DEFINE mac == GetCustomerMac(i)
<1>1. w = <<i, w[2]>> /\ w[2] \in {0, 1} /\ w \in OtpWords
  BY MacWordsAre
<1>2. otp[w] \subseteq BitsOf(<<i, w[2]>>)
  BY <1>1 DEF Fits
<1>3. ASSUME NEW o \in 0 .. 5, o \div 4 = w[2], NEW b
      PROVE  b \in mac[o] <=> b \in 0 .. OctetBits - 1 /\ OctetBits * (o % 4) + b \in otp[w]
  <2>1. <<i, o \div 4>> = w
    BY <1>1, <1>3
  <2>2. mac[o] = {c \in 0 .. OctetBits - 1 :
                    OctetBits * (o % 4) + c \in Held(MacWords(i))[<<i, o \div 4>>]}
    BY DEF GetCustomerMac, MacFromWords
  <2>3. Held(MacWords(i))[w] = otp[w]
    BY DEF Held
  <2> QED BY <2>1, <2>2, <2>3
<1> HIDE DEF mac
<1>4. ASSUME NEW n \in otp[w] PROVE n \in MacToWords(i, mac)[w]
  <2>1. PICK o \in 0 .. 5 : \E b \in 0 .. OctetBits - 1 :
               o \div 4 = w[2] /\ n = OctetBits * (o % 4) + b
    BY <1>1, <1>2, <1>4, Octet, ZenonT(60)
  <2>2. PICK b \in 0 .. OctetBits - 1 : o \div 4 = w[2] /\ n = OctetBits * (o % 4) + b
    BY <2>1
  <2>3. b \in mac[o]
    BY <1>3, <1>4, <2>2
  <2> QED BY <2>2, <2>3, MacBit
<1>5. ASSUME NEW n \in MacToWords(i, mac)[w] PROVE n \in otp[w]
  <2>1. PICK o \in 0 .. 5 : o \div 4 = w[2] /\ \E b \in mac[o] : n = OctetBits * (o % 4) + b
    BY <1>5, MacBit
  <2> QED BY <1>3, <2>1
<1>6. MacToWords(i, mac)[w] = otp[w]
  BY <1>4, <1>5
<1> QED BY <1>6 DEF mac

\* An address that reads blank is blank in every bit of its words.
LEMMA BlankIsBlank ==
  ASSUME NEW i \in Ifaces, Fits(otp), DOMAIN otp = OtpWords, MacIsBlank(GetCustomerMac(i)),
         NEW w \in MacWords(i)
  PROVE  otp[w] = {}
<1>1. \A n : n \notin MacToWords(i, GetCustomerMac(i))[w]
  BY MacBit DEF MacIsBlank
<1> QED BY <1>1, MacRoundTrip

\* A row of the customer region is a word, and no word of an address.
LEMMA RowFits ==
  ASSUME NEW r \in 0 .. CustomerRows - 1
  PROVE  RowWord(r) \in OtpWords /\ BitsOf(RowWord(r)) = Nat
BY OtpRowsAssumption, Zenon DEF RowWord, OtpWords, BitsOf

\* WriteCustomerOtp's request is one for words of OTP.
LEMMA RowRequestFits ==
  ASSUME NEW start \in 0 .. CustomerRows, NEW values \in RowValues,
         InCustomerRegion(start, Len(values))
  PROVE  Fits(RowRequest(start, values))
<1>1. PICK n \in 1 .. CustomerRows + 1 : values \in [1 .. n -> TryWords]
  BY DEF RowValues
<1>2. CustomerRows \in Nat /\ TryWords \subseteq SUBSET Nat
  BY OtpRowsAssumption
<1>3. Len(values) = n /\ n \in Nat
  BY <1>1, <1>2
<1>4. start + n - 1 < CustomerRows
  BY <1>2, <1>3 DEF InCustomerRegion
<1>5. DOMAIN RowRequest(start, values) = {RowWord(r) : r \in start .. start + n - 1}
  BY <1>3 DEF RowRequest, RowsFrom
<1>6. ASSUME NEW r \in start .. start + n - 1
      PROVE  /\ RowWord(r) \in OtpWords
             /\ RowRequest(start, values)[RowWord(r)] \subseteq BitsOf(RowWord(r))
  <2>1. r \in 0 .. CustomerRows - 1 /\ r - start + 1 \in 1 .. n
    BY <1>2, <1>3, <1>4
  <2>2. RowWord(r)[2] = r
    BY DEF RowWord
  <2>3. RowRequest(start, values)[RowWord(r)] = values[r - start + 1]
    BY <1>3, <1>5, <2>2 DEF RowRequest, RowsFrom
  <2>4. values[r - start + 1] \subseteq Nat
    BY <1>1, <1>2, <2>1, ZenonT(60)
  <2> QED BY <2>1, <2>3, <2>4, RowFits
<1> QED BY <1>5, <1>6 DEF Fits
----------------------------------------------------------------------------
\* A command that changes neither the words nor what was said of them.
LEMMA QuietKeeps ==
  ASSUME RowsInv, Quiet
  PROVE  RowsInv' /\ OnceStep
BY DEF RowsInv, Quiet, Fits, Burnable, AckedIsHeld, OnceStep

\* A success is reported of words that hold what was asked for.
LEMMA SucceedKeeps ==
  ASSUME RowsInv, NEW cmd, NEW words, Succeed(cmd, words), UNCHANGED otp,
         \A w \in DOMAIN words : otp[w] = words[w]
  PROVE  AckedIsHeld' /\ Once!Acknowledge
<1>1. \A w \in OtpWords : acked'[w] \in {acked[w], otp[w]}
  BY DEF Succeed
<1> QED BY <1>1 DEF RowsInv, AckedIsHeld, Once!Acknowledge

\* The decision before a write, where a match means that the words hold what is
\* asked for and where only blank or matching words are not refused.
LEMMA DecideKeeps ==
  ASSUME RowsInv, NEW cmd, NEW want, NEW matches \in BOOLEAN, NEW refused \in BOOLEAN,
         Decide(cmd, want, matches, refused), Fits(want),
         matches => \A w \in DOMAIN want : otp[w] = want[w],
         ~refused => Burnable(want)
  PROVE  RowsInv' /\ OnceStep
<1>1. CASE RowsFail(cmd)
  BY <1>1, QuietKeeps DEF RowsFail
<1>2. CASE matches /\ Succeed(cmd, want) /\ UNCHANGED <<otp, rowPc, req>>
  <2>1. AckedIsHeld' /\ Once!Acknowledge
    BY <1>2, SucceedKeeps
  <2> QED BY <1>2, <2>1 DEF RowsInv, Fits, Burnable, OnceStep, Once!WriteOnceNext
<1>3. CASE ~refused /\ rowPc' = "burn" /\ req' = want /\ UNCHANGED <<otp, acked, said>>
  BY <1>3 DEF RowsInv, Fits, Burnable, AckedIsHeld, OnceStep
<1> QED BY <1>1, <1>2, <1>3 DEF Decide

\* oem mac-set keeps RowsInv and is a step of WriteOnce.
LEMMA MacSetKeeps ==
  ASSUME RowsInv, NEW i, NEW mac \in TryMacs \union {Malformed}, MacSet(i, mac)
  PROVE  RowsInv' /\ OnceStep
<1>1. CASE RowsFail("mac set")
  BY <1>1, QuietKeeps DEF RowsFail
<1>2. CASE i \in Ifaces /\ mac \in TryMacs /\ SetCustomerMac(i, mac) /\ ValidateMac(mac)
  <2> DEFINE current == GetCustomerMac(i)
             want == MacToWords(i, mac)
  <2>1. Decide("mac set", want, current = mac, ~MacIsBlank(current))
    BY <1>2 DEF SetCustomerMac
  <2>2. Fits(want) /\ DOMAIN want = MacWords(i)
    BY <1>2, MacToWordsFits
  <2>3. Fits(otp) /\ DOMAIN otp = OtpWords
    BY DEF RowsInv
  <2>4. current = mac => \A w \in DOMAIN want : otp[w] = want[w]
    BY <1>2, <2>2, <2>3, MacRoundTrip
  <2>5. MacIsBlank(current) => Burnable(want)
    BY <1>2, <2>2, <2>3, BlankIsBlank DEF Burnable
  <2> HIDE DEF current, want
  <2> QED BY <2>1, <2>2, <2>4, <2>5, DecideKeeps
<1> QED BY <1>1, <1>2 DEF MacSet, SetCustomerMac

\* So does oem otp-set.
LEMMA OtpSetKeeps ==
  ASSUME RowsInv, NEW start \in 0 .. CustomerRows, NEW values \in RowValues, OtpSet(start, values)
  PROVE  RowsInv' /\ OnceStep
<1>1. CASE RowsFail("otp set")
  BY <1>1, QuietKeeps DEF RowsFail
<1>2. CASE InCustomerRegion(start, Len(values)) /\ WriteCustomerOtp(start, values)
  <2> DEFINE want == RowRequest(start, values)
             refused == \E w \in DOMAIN want : otp[w] # want[w] /\ otp[w] # {}
             matches == Held(DOMAIN want) = want
  <2>1. Decide("otp set", want, matches, refused)
    BY <1>2 DEF WriteCustomerOtp
  <2>2. Fits(want)
    BY <1>2, RowRequestFits
  <2>3. matches => \A w \in DOMAIN want : otp[w] = want[w]
    BY DEF Held
  <2>4. ~refused => Burnable(want)
    BY DEF Burnable
  <2>5. matches \in BOOLEAN /\ refused \in BOOLEAN
    OBVIOUS
  <2> HIDE DEF want, refused, matches
  <2> QED BY <2>1, <2>2, <2>3, <2>4, <2>5, DecideKeeps
<1> QED BY <1>1, <1>2 DEF OtpSet

\* Whatever part of the request the firmware programs, a word that was not blank
\* keeps its value.
LEMMA MboxPropertyKeeps ==
  ASSUME RowsInv, NEW ok \in BOOLEAN, MboxProperty(ok)
  PROVE  RowsInv' /\ OnceStep
<1>1. PICK burnt \in [DOMAIN req -> SUBSET UNION {req[w] : w \in DOMAIN req}] :
        /\ \A w \in DOMAIN req : burnt[w] \subseteq req[w]
        /\ otp' = [w \in OtpWords |-> IF w \in DOMAIN req THEN otp[w] \union burnt[w] ELSE otp[w]]
  BY DEF MboxProperty
<1>2. UNCHANGED acked /\ Burnable(req) /\ rowPc' # "burn" /\ req' \in {req, NoWords}
  BY DEF MboxProperty, RowsInv
<1>3. \A w \in OtpWords : otp[w] # {} => otp'[w] = otp[w]
  BY <1>1, <1>2 DEF Burnable
<1>4. \A w \in OtpWords : otp'[w] \subseteq BitsOf(w)
  <2>1. \A w \in OtpWords : otp[w] \subseteq BitsOf(w)
    BY DEF RowsInv, Fits
  <2>2. \A w \in DOMAIN req : req[w] \subseteq BitsOf(w)
    BY DEF RowsInv, Fits
  <2> QED BY <1>1, <2>1, <2>2
<1>5. otp' = [w \in OtpWords |-> otp'[w]]
  BY <1>1
<1>6. Fits(otp)'
  BY <1>4, <1>5 DEF Fits, BitsOf
<1>7. Fits(req)'
  BY <1>2 DEF RowsInv, Fits, NoWords
<1>8. AckedIsHeld'
  BY <1>2, <1>3 DEF RowsInv, AckedIsHeld
<1>9. Once!Program
  BY <1>2, <1>3 DEF Once!Program
<1> QED BY <1>2, <1>5, <1>6, <1>7, <1>8, <1>9 DEF RowsInv, OnceStep, Once!WriteOnceNext

\* So does reading the rows back.
LEMMA ReadBackKeeps ==
  ASSUME RowsInv, ReadBack
  PROVE  RowsInv' /\ OnceStep
<1>1. UNCHANGED otp /\ rowPc' = "idle" /\ req' = NoWords
  BY DEF ReadBack
<1>2. (Fits(req))' /\ (Fits(otp))'
  BY <1>1 DEF RowsInv, Fits, NoWords
<1>3. CASE UNCHANGED acked
  BY <1>1, <1>2, <1>3 DEF RowsInv, AckedIsHeld, OnceStep
<1>4. CASE Held(DOMAIN req) = req /\ Succeed("set", req)
  <2>1. \A w \in DOMAIN req : otp[w] = req[w]
    BY <1>4 DEF Held
  <2>2. AckedIsHeld' /\ Once!Acknowledge
    BY <1>1, <1>4, <2>1, SucceedKeeps
  <2> QED BY <1>1, <1>2, <2>2 DEF RowsInv, OnceStep, Once!WriteOnceNext
<1> QED BY <1>3, <1>4 DEF ReadBack

\* So does losing power.
LEMMA PowerCutKeeps ==
  ASSUME RowsInv, PowerCut
  PROVE  RowsInv' /\ OnceStep
BY DEF PowerCut, RowsInv, Fits, NoWords, AckedIsHeld, OnceStep

\* So does every step.
LEMMA RowsStep == RowsInv /\ [RowsNext]_rowVars => RowsInv' /\ OnceStep
<1> SUFFICES ASSUME RowsInv, [RowsNext]_rowVars PROVE RowsInv' /\ OnceStep
  OBVIOUS
<1>1. CASE UNCHANGED rowVars
  BY <1>1, QuietKeeps DEF rowVars, Quiet
<1>2. CASE \E i \in Ifaces \union {"unknown"} : MacGet(i)
  BY <1>2, QuietKeeps DEF MacGet
<1>3. CASE \E mac \in TryMacs \union {Malformed} : MacCheck(mac)
  BY <1>3, QuietKeeps DEF MacCheck
<1>4. CASE \E start \in 0 .. CustomerRows, count \in 0 .. CustomerRows + 1 : OtpGet(start, count)
  BY <1>4, QuietKeeps DEF OtpGet
<1> QED
  BY <1>1, <1>2, <1>3, <1>4, MacSetKeeps, OtpSetKeeps, MboxPropertyKeeps, ReadBackKeeps,
     PowerCutKeeps DEF RowsNext

\* RowsInv holds of a blank board, which WriteOnce starts from too.
LEMMA RowsInvInit == RowsInit => RowsInv /\ Once!WriteOnceInit
BY DEF RowsInit, RowsInv, Fits, NoWords, Burnable, AckedIsHeld, Once!WriteOnceInit

\* RowsInv is an invariant of OtpRows.
LEMMA RowsInvHolds == RowsSpec => []RowsInv
BY RowsInvInit, RowsStep, PTL DEF RowsSpec

\* A word that `set` reported as programmed holds the reported value ever after,
\* whatever part of later requests the firmware programs and wherever power goes.
THEOREM AckedAlwaysHeld == RowsSpec => []AckedIsHeld
<1>1. RowsInv => AckedIsHeld
  BY DEF RowsInv
<1> QED BY RowsInvHolds, <1>1, PTL

\* oem mac set and oem otp set implement write-once words: each step of theirs
\* programs blank words only, or reports of words what they hold, or is a stutter.
THEOREM RowsImplementWriteOnce == RowsSpec => ImplementsWriteOnce
<1>1. RowsInv /\ [RowsNext]_rowVars => [Once!WriteOnceNext]_<<otp, acked>>
  BY RowsStep DEF OnceStep
<1> QED
  BY RowsInvInit, RowsInvHolds, <1>1, PTL DEF RowsSpec, ImplementsWriteOnce, Once!WriteOnceSpec
============================================================================
