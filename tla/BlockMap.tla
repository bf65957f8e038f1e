------------------------------ MODULE BlockMap ------------------------------
(***************************************************************************)
(* oem bmap-load and bmap-verify (commands.cpp): a map of block ranges and *)
(* their hashes is staged, loaded for one block device and compared with   *)
(* what that device's storage holds.  The loaded map (g_bmap_state) is a   *)
(* static: it outlives the session.  In split mode TCP workers flash the   *)
(* disks meanwhile, a flash's unaligned tail through the page cache.       *)
(*                                                                         *)
(* A disk is a function from block numbers to contents, a hash is the      *)
(* sequence of contents it was computed over.                              *)
(***************************************************************************)
EXTENDS Integers, Sequences

CONSTANTS
  MapDisks,     \* block devices
  DiskBlocks,   \* blocks of each
  BlockBits,    \* width of a block number: 32
  Contents,     \* what a block may hold
  Maps,         \* maps a host stages: sequences of [first, last, sum]
  MaxWrites,    \* bound: blocks the workers write
  NoMap

ASSUME BlockMapAssumption ==
  /\ DiskBlocks \in Nat /\ BlockBits \in Nat /\ 2 ^ BlockBits \in Nat /\ MaxWrites \in Nat
  /\ Maps \subseteq Seq([first : Nat, last : Nat, sum : Seq(Contents)])

\* A map's hash was computed over the blocks of its range.  Only a range as long as
\* block numbers are wide needs this: its length is computed as 0, and the hash
\* of no blocks at all would match.
ASSUME HashAssumption ==
  \A m \in Maps : \A i \in 1 .. Len(m) :
     m[i].last - m[i].first + 1 >= 2 ^ BlockBits => Len(m[i].sum) = m[i].last - m[i].first + 1

VARIABLES
  mapBuf,    \* the staged map
  loaded,    \* g_bmap_state: [dev, ranges]
  medium,    \* what the storage holds
  cached,    \* pages not yet written back: NoMap where there is none
  mapPc,     \* "idle", "load", or "read" while bmap-verify reads
  range,     \* the range bmap-verify is at, and what it has read of it
  read,
  mapFor,    \* history: the map last loaded for each disk
  quiet,     \* history: nobody wrote the disk since bmap-verify began
  writes,    \* blocks written by the workers, up to MaxWrites
  mapSaid    \* what bmap-verify last said

mapVars == <<mapBuf, loaded, medium, cached, mapPc, range, read, mapFor, quiet, writes, mapSaid>>

Blocks == 0 .. DiskBlocks - 1

BlockMapInit ==
  /\ mapBuf = NoMap /\ loaded = [dev |-> NoMap, ranges |-> <<>>]
  /\ \E c \in Contents : medium = [d \in MapDisks |-> [b \in Blocks |-> c]]
  /\ cached = [d \in MapDisks |-> [b \in Blocks |-> NoMap]]
  /\ mapPc = "idle" /\ range = 1 /\ read = <<>>
  /\ mapFor = [d \in MapDisks |-> NoMap] /\ quiet = TRUE /\ writes = 0 /\ mapSaid = "none"
----------------------------------------------------------------------------
\* The host stages a map with download.
StageMap(m) ==
  /\ mapPc = "idle" /\ mapBuf' = m /\ mapSaid' = "none"
  /\ UNCHANGED <<loaded, medium, cached, mapPc, range, read, mapFor, quiet, writes>>

\* The header and every range, in the order of the code's tests.
WellFormed(m) == m # NoMap /\ \A i \in DOMAIN m : m[i].first <= m[i].last

\* Mutant of BmapLoad: the device is stored before the ranges are checked.
BmapLoadEarly(d) ==
  /\ mapPc = "idle" /\ mapBuf # NoMap
  /\ loaded' = [dev |-> d, ranges |-> IF WellFormed(mapBuf) THEN mapBuf ELSE loaded.ranges]
  /\ mapFor' = IF WellFormed(mapBuf) THEN [mapFor EXCEPT ![d] = mapBuf] ELSE mapFor
  /\ mapSaid' = "none"
  /\ UNCHANGED <<mapBuf, medium, cached, mapPc, range, read, quiet, writes>>

\* oem bmap-load: everything is checked before the state is replaced.
BmapLoad(d) ==
  /\ mapPc = "idle" /\ WellFormed(mapBuf)
  /\ loaded' = [dev |-> d, ranges |-> mapBuf]
  /\ mapFor' = [mapFor EXCEPT ![d] = mapBuf]
  /\ mapSaid' = "none"
  /\ UNCHANGED <<mapBuf, medium, cached, mapPc, range, read, quiet, writes>>

VerifySays(r) == mapPc' = "idle" /\ mapSaid' = r

\* Writing a dirty page back may leave something else on a failing card.
Flushed(d, s) ==
  \A b \in Blocks : s[b] # medium[d][b] => cached[d][b] # NoMap

\* oem bmap-verify: the loaded map must be for this disk; dirty pages are
\* flushed and dropped before the first read.
BmapVerify(d) ==
  /\ mapPc = "idle"
  /\ \/ /\ loaded.ranges # <<>> /\ loaded.dev = d
        /\ \E s \in [Blocks -> Contents] : Flushed(d, s) /\ medium' = [medium EXCEPT ![d] = s]
        /\ cached' = [cached EXCEPT ![d] = [b \in Blocks |-> NoMap]]
        /\ mapPc' = "read" /\ range' = 1 /\ read' = <<>> /\ quiet' = TRUE /\ mapSaid' = "none"
     \/ VerifySays("FAIL") /\ UNCHANGED <<medium, cached, range, read, quiet>>
  /\ UNCHANGED <<mapBuf, loaded, mapFor, writes>>

\* end_block - start_block + 1 is computed in the width of a block number.
RangeBlocks(r) == (r.last - r.first + 1) % 2 ^ BlockBits

\* A read comes from the page cache where it has the page.
PageOrBlock(d, b) == IF cached[d][b] # NoMap THEN cached[d][b] ELSE medium[d][b]

\* One read of the range, or the end of the disk, or an error.
VerifyRead ==
  LET r == loaded.ranges[range]
      b == r.first + Len(read)
  IN /\ mapPc = "read" /\ Len(read) < RangeBlocks(r)
     /\ \/ /\ b \in Blocks
           /\ read' = Append(read, PageOrBlock(loaded.dev, b))
           /\ UNCHANGED <<mapPc, mapSaid>>
        \/ VerifySays("FAIL") /\ UNCHANGED read
     /\ UNCHANGED <<mapBuf, loaded, medium, cached, range, mapFor, quiet, writes>>

\* The digest is compared; the last range that matches ends the command.
VerifyRange ==
  LET r == loaded.ranges[range]
  IN /\ mapPc = "read" /\ Len(read) = RangeBlocks(r)
     /\ range' = range + 1 /\ read' = <<>>
     /\ IF read # r.sum THEN VerifySays("FAIL")
        ELSE IF range = Len(loaded.ranges) THEN VerifySays("OKAY") ELSE UNCHANGED <<mapPc, mapSaid>>
     /\ UNCHANGED <<mapBuf, loaded, medium, cached, mapFor, quiet, writes>>
----------------------------------------------------------------------------
\* A TCP worker's flash writes a block of the disk, past the cache or in it.
DiskWritten(d, b) ==
  /\ writes < MaxWrites /\ writes' = writes + 1
  /\ \E c \in Contents :
       \/ medium' = [medium EXCEPT ![d][b] = c] /\ cached' = [cached EXCEPT ![d][b] = NoMap]
       \/ cached' = [cached EXCEPT ![d][b] = c] /\ UNCHANGED medium
  /\ quiet' = (quiet /\ d # loaded.dev)
  /\ UNCHANGED <<mapBuf, loaded, mapPc, range, read, mapFor, mapSaid>>

\* The host goes and another comes: the buffer is the session's, the map is not.
MapSessionEnds ==
  /\ mapPc = "idle" /\ mapBuf' = NoMap /\ mapSaid' = "none"
  /\ UNCHANGED <<loaded, medium, cached, mapPc, range, read, mapFor, quiet, writes>>

VerifyStep == VerifyRead \/ VerifyRange

BlockMapNext ==
  \/ \E m \in Maps : StageMap(m)
  \/ \E d \in MapDisks : BmapLoad(d) \/ BmapVerify(d)
  \/ VerifyStep
  \/ \E d \in MapDisks, b \in Blocks : DiskWritten(d, b)
  \/ MapSessionEnds

\* The session's thread goes on with the verification.
BlockMapFairness == WF_mapVars(VerifyStep)
BlockMapSpec == BlockMapInit /\ [][BlockMapNext]_mapVars /\ BlockMapFairness
----------------------------------------------------------------------------
\* When nobody wrote the disk since bmap-verify began, its OKAY means that the
\* storage, not the page cache, holds every range of the map that was loaded
\* for this very disk, in this session or an earlier one.
VerifiedMeansHeld ==
  mapSaid = "OKAY" /\ quiet =>
     /\ mapFor[loaded.dev] # NoMap
     /\ \A i \in DOMAIN mapFor[loaded.dev] :
          LET r == mapFor[loaded.dev][i]
          IN /\ r.last \in Blocks
             /\ \A b \in r.first .. r.last : medium[loaded.dev][b] = r.sum[b - r.first + 1]

\* bmap-verify ends, also for a map that names blocks the disk does not have.
VerifyEnds == mapPc = "read" ~> mapPc = "idle"
============================================================================
