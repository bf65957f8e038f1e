------------------------------- MODULE Staged -------------------------------
(***************************************************************************)
(* The staging buffer of the control session and the commands that fill or *)
(* use it (commands.cpp): download, upload, oem download-file and          *)
(* upload-file (file_write.cpp), oem eeprom-update, -verify and -read      *)
(* (eeprom.cpp).                                                           *)
(*                                                                         *)
(* A payload is a record: its name, its size and the MFG_VER printed in it *)
(* (0 if none).  The chip and the file may fail at every access and power  *)
(* may go at any moment.                                                   *)
(***************************************************************************)
EXTENDS Integers

CONSTANTS
  Payloads,     \* what a host downloads
  Factory,      \* what the chip holds at first
  Torn,         \* what an interrupted write leaves
  Half,         \* a buffer that is being filled
  ChipSize,     \* the probed flash size
  MinImageSize, MaxImageSize,
  BoardMinBootVer, \* chosen/rpi-min-boot-ver
  VerMod,       \* where ImageMfgVer's result wraps: 2^32
  NoData,       \* an empty buffer, no file
  Unknown       \* nothing is claimed

ASSUME StagedAssumption ==
  /\ ChipSize \in Nat /\ MinImageSize \in Nat /\ MaxImageSize \in Nat
  /\ BoardMinBootVer \in Nat /\ VerMod \in Nat \ {0}
  /\ \A p \in Payloads \union {Factory, Torn, Half} : p.size \in Nat \ {0} /\ p.ver \in Nat
  /\ Half \notin Payloads \union {Factory, Torn, NoData}

VARIABLES
  stBuf,    \* device->download_data()
  chip,     \* the EEPROM
  file,     \* the file at the path the host uses
  stPc,     \* where the handler is
  chipSaid, \* history: the image eeprom-update last reported, or Unknown
  fileSaid, \* history: the same for download-file
  stSaid    \* the last reply: [cmd, r]

stVars == <<stBuf, chip, file, stPc, chipSaid, fileSaid, stSaid>>

StagedInit ==
  /\ stBuf = NoData /\ chip = Factory /\ file = NoData
  /\ stPc = "idle" /\ chipSaid = Factory /\ fileSaid = NoData
  /\ stSaid = [cmd |-> "none", r |-> "none"]

Says(cmd, r) == stPc' = "idle" /\ stSaid' = [cmd |-> cmd, r |-> r]
Goes(step) == stPc' = step /\ UNCHANGED stSaid
Fails(cmd) == Says(cmd, "FAIL") /\ UNCHANGED <<stBuf, chip, file, chipSaid, fileSaid>>
----------------------------------------------------------------------------
\* DownloadHandler: the whole payload, or nothing (Session models the phases).
StageDownload(p) ==
  /\ stPc = "idle"
  /\ stBuf' = p /\ Says("download", "OKAY")
  /\ UNCHANGED <<chip, file, chipSaid, fileSaid>>

\* UploadHandler: whatever the buffer holds, which is then cleared.
StageUpload ==
  /\ stPc = "idle"
  /\ \/ /\ stBuf # NoData
        /\ stBuf' = NoData /\ Says("upload", "OKAY")
        /\ UNCHANGED <<chip, file, chipSaid, fileSaid>>
     \/ stBuf = NoData /\ Fails("upload")
----------------------------------------------------------------------------
\* ImageMfgVer: the printed number in 32 bits.
ImageMfgVer(p) == p.ver % VerMod

\* Mutant of CheckMinBootVer: an image without MFG_VER passes.
CheckMinBootVerLax(p) == p.ver = 0 \/ BoardMinBootVer <= ImageMfgVer(p)

CheckMinBootVer(p) == BoardMinBootVer = 0 \/ BoardMinBootVer <= ImageMfgVer(p)
Plausible(p) == MinImageSize <= p.size /\ p.size <= MaxImageSize

\* FlashSession::Open: the chip's size must be plausible too.
Probed == MinImageSize <= ChipSize /\ ChipSize <= MaxImageSize

\* oem eeprom-update: refused, or the chip is rewritten in place.
EepromUpdate ==
  /\ stPc = "idle"
  /\ \/ /\ stBuf # NoData /\ Plausible(stBuf) /\ CheckMinBootVer(stBuf) /\ Probed
        /\ stBuf.size = ChipSize
        /\ chip' = Torn /\ chipSaid' = Unknown
        /\ Goes("image_write")
        /\ UNCHANGED <<stBuf, file, fileSaid>>
     \/ Fails("eeprom-update")

\* Mutant of ImageWrite: VERIFY_AFTER_WRITE is not set.
ImageWriteUnverified ==
  /\ stPc = "image_write"
  /\ chip' \in {stBuf, Torn}
  /\ chipSaid' = stBuf /\ Says("eeprom-update", "OKAY")
  /\ UNCHANGED <<stBuf, file, fileSaid>>

\* flashrom_image_write with its verification of the whole chip.
ImageWrite ==
  /\ stPc = "image_write"
  /\ \/ chip' = stBuf /\ chipSaid' = stBuf /\ Says("eeprom-update", "OKAY")
     \/ chip' \in {stBuf, Torn} /\ UNCHANGED chipSaid /\ Says("eeprom-update", "FAIL")
  /\ UNCHANGED <<stBuf, file, fileSaid>>

\* oem eeprom-verify: a match settles what the chip holds as an update does.
EepromVerify ==
  /\ stPc = "idle"
  /\ \/ /\ stBuf # NoData /\ Plausible(stBuf) /\ Probed
        /\ stBuf.size = ChipSize /\ chip = stBuf
        /\ chipSaid' = stBuf /\ Says("eeprom-verify", "OKAY")
        /\ UNCHANGED <<stBuf, chip, file, fileSaid>>
     \/ Fails("eeprom-verify")

\* oem eeprom-read: the chip's content replaces the buffer, once it is read.
EepromRead ==
  /\ stPc = "idle"
  /\ \/ /\ Probed
        /\ stBuf' = chip /\ Says("eeprom-read", "OKAY")
        /\ UNCHANGED <<chip, file, chipSaid, fileSaid>>
     \/ Fails("eeprom-read")
----------------------------------------------------------------------------
\* WriteFile: an empty buffer or a bad mode is refused first; the open
\* truncates, and a mode the filesystem does not keep comes after it.
WriteFileOpen ==
  /\ stPc = "idle"
  /\ \/ /\ stBuf # NoData
        /\ file' = Torn /\ fileSaid' = Unknown
        /\ Goes("write") \/ Says("download-file", "FAIL")
        /\ UNCHANGED <<stBuf, chip, chipSaid>>
     \/ Fails("download-file")

\* write, fsync and close; the buffer is cleared only on success.
WriteFileEnd ==
  /\ stPc = "write"
  /\ \/ /\ file' = stBuf /\ fileSaid' = stBuf /\ stBuf' = NoData
        /\ Says("download-file", "OKAY")
     \/ /\ file' \in {stBuf, Torn} /\ UNCHANGED <<stBuf, fileSaid>>
        /\ Says("download-file", "FAIL")
  /\ UNCHANGED <<chip, chipSaid>>

\* oem upload-file: the buffer takes the file's size, then its bytes.
UploadFile ==
  /\ stPc = "idle"
  /\ \/ /\ file # NoData
        /\ stBuf' = Half
        /\ Goes("fread")
        /\ UNCHANGED <<chip, file, chipSaid, fileSaid>>
     \/ Fails("upload-file")

\* Mutant of FreadLoop: what fread returns is not added to the cursor.
FreadLoopStuck == stPc = "fread" /\ UNCHANGED stVars

\* The fread loop: where the file holds less than its size said (sysfs, or a
\* file cut in the meantime), fread returns 0 and the loop goes round for ever.
FreadLoop ==
  /\ stPc = "fread"
  /\ \/ stBuf' = file /\ Says("upload-file", "OKAY")
     \/ stPc' = "fread forever" /\ UNCHANGED <<stBuf, stSaid>>
  /\ UNCHANGED <<chip, file, chipSaid, fileSaid>>
----------------------------------------------------------------------------
\* The host goes and another comes with a buffer of its own.
NextSession ==
  /\ stPc = "idle"
  /\ stBuf' = NoData /\ stSaid' = [cmd |-> "none", r |-> "none"]
  /\ UNCHANGED <<chip, file, stPc, chipSaid, fileSaid>>

StagedPowerCut ==
  /\ stPc' = "idle" /\ stBuf' = NoData
  /\ stSaid' = [cmd |-> "none", r |-> "none"]
  /\ UNCHANGED <<chip, file, chipSaid, fileSaid>>

StagedHandler == ImageWrite \/ WriteFileEnd \/ FreadLoop

StagedNext ==
  \/ \E p \in Payloads : StageDownload(p)
  \/ StageUpload \/ EepromUpdate \/ EepromVerify \/ EepromRead
  \/ WriteFileOpen \/ UploadFile
  \/ StagedHandler
  \/ NextSession \/ StagedPowerCut

\* The session's thread goes on with the command it is running.
StagedFairness == WF_stVars(StagedHandler)
StagedSpec == StagedInit /\ [][StagedNext]_stVars /\ StagedFairness
----------------------------------------------------------------------------
\* The chip holds what eeprom-update or eeprom-verify last reported, until the
\* next update begins: an interrupted or failed write is never behind an OKAY.
EepromAsReported == chipSaid # Unknown => chip = chipSaid

\* An image older than the board's minimum is never written, a version number
\* that does not fit 32 bits and an image that names none included.
NoDowngrade == chip \in {Factory, Torn} \/ chip.ver >= BoardMinBootVer

\* The file holds what download-file last reported, and a command that fails
\* before it has anything to write leaves the file alone.
FileAsReported == fileSaid # Unknown => file = fileSaid

\* Between commands the buffer is never one that a failed or unfinished command
\* was filling, so upload and eeprom-update work on whole data.
BufferIsWhole == stPc = "idle" => stBuf # Half

\* No OKAY is behind half a write: the chip, the file and the buffer are what
\* the last command said of them.
ReportsAreTrue == EepromAsReported /\ FileAsReported /\ BufferIsWhole

\* Every command ends: the chip is written and read back, the file is written,
\* the file to upload is read to its end.  The one exception is an upload-file
\* of a file that is shorter than its size said (commands.cpp, oem_cmd_upload_file).
StagedCommandEnds == stPc # "idle" ~> stPc \in {"idle", "fread forever"}
============================================================================
