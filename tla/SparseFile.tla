------------------------------ MODULE SparseFile ------------------------------
(***************************************************************************)
(* libsparse, from an image file on the host to the blocks the device      *)
(* writes.  The host reads an image into a list of backed blocks           *)
(* (backed_block.cpp), cuts the list into sparse files that fit the        *)
(* device's download limit (sparse.cpp), and sends each one; the device    *)
(* parses what arrives (sparse_read.cpp) and writes it out                 *)
(* (output_file.cpp, flashing.cpp).  The payload of a block is abstracted  *)
(* to where it comes from; every length is the code's own byte count.      *)
(***************************************************************************)
EXTENDS Integers, Sequences, SequencesExt

CONSTANTS BlockSize,    \* s->block_size
          ImageBlocks,  \* DIV_ROUND_UP(s->len, s->block_size)
          TailLens,     \* the bytes the image may have in its last block
          Limits,       \* the device's max-download-size, or -S SIZE
          Sources,      \* what the image is read from: "raw", "sparse", "super"
          RunLens,      \* the lengths, in blocks, of an image's chunks and extents
          Grain         \* a raw image changes between data and fill every Grain blocks

SparseHeader == 28      \* sizeof(sparse_header_t)
ChunkHeader == 12       \* sizeof(chunk_header_t)
FillLen == 4            \* sizeof(uint32_t)

(* The two passes of resparse_file need a limit that holds the overhead    *)
(* and eight blocks: move_chunks_up_to_len splits when more than an eighth *)
(* is left, and a split below one block would cut nothing off.             *)
ASSUME SparseAssumption ==
    /\ BlockSize \in Nat /\ BlockSize > 0 /\ BlockSize % 4 = 0
    /\ ImageBlocks \in Nat \ {0}
    /\ TailLens \subseteq 1..BlockSize
    /\ Sources \subseteq {"raw", "sparse", "super"}
    /\ RunLens \subseteq Nat \ {0} /\ Grain \in Nat \ {0}
    /\ Limits \subseteq Nat
    /\ \A l \in Limits : l >= SparseHeader + 2 * ChunkHeader + FillLen + 8 * BlockSize

VARIABLES sfSource,  \* the kind of image
          sfImage,   \* what each of its blocks holds, as far as it was read
          sfTail,    \* bytes in its last block
          sfFile,    \* its length in bytes, as far as it was read
          sfLimit,   \* get_sparse_limit's limit
          sfList,    \* backed_block_list::data_blocks of the image
          sfUsed,    \* backed_block_list::last_used: an index of sfList, 0 for null
          sfTmp,     \* sparse_file_resparse's tmp
          sfCount,   \* the number of files the first pass reported
          sfPieces,  \* the files of the second pass, still to be sent
          sfDone,    \* how many were sent
          sfWire,    \* the chunks of the file the device is writing
          sfSeek,    \* the device's file offset, in blocks
          sfDisk,    \* the device's partition, by block
          sfPc

sfVars == <<sfSource, sfImage, sfTail, sfFile, sfLimit, sfList, sfUsed, sfTmp,
            sfCount, sfPieces, sfDone, sfWire, sfSeek, sfDisk, sfPc>>

Skip == <<"skip", 0>>
Old == <<"old", 0>>
DivUp(n) == (n + BlockSize - 1) \div BlockSize
AlignDown(n) == BlockSize * (n \div BlockSize)

(* sparse_file::len of the image.                                          *)
ExpandedLen == (ImageBlocks - 1) * BlockSize + sfTail

----------------------------------------------------------------------------
(* backed_block.cpp.  A backed block has a first block number, a length in *)
(* bytes, a type, and the offset of its bytes in their source (for a fill, *)
(* the value).                                                             *)
Backed(block, len, type, off) == [block |-> block, len |-> len, type |-> type, off |-> off]

(* What the backed block puts at block number b.                           *)
CellAt(bb, b) ==
    <<bb.type, IF bb.type = "fill" THEN bb.off ELSE bb.off + (b - bb.block) * BlockSize>>
Covers(bb, b) == b >= bb.block /\ b < bb.block + DivUp(bb.len)

(* merge_bb's tests: same type, adjacent, and one source.                  *)
Mergeable(a, b) ==
    /\ a.type = b.type
    /\ a.block + a.len \div BlockSize = b.block
    /\ CASE a.type = "data" -> FALSE
         [] a.type = "fill" -> a.off = b.off
         [] a.type = "fd" -> a.off + a.len = b.off

merge_bb(l, i) ==
    IF i < 1 \/ i >= Len(l) \/ ~Mergeable(l[i], l[i + 1]) THEN l
    ELSE SubSeq(l, 1, i - 1) \o <<[l[i] EXCEPT !.len = @ + l[i + 1].len]>> \o SubSeq(l, i + 2, Len(l))

(* queue_bb: keep the list sorted, starting the search at the block that   *)
(* was queued last when the new one lies beyond it, then merge with the    *)
(* neighbours.  Returns the list and the new last_used.                    *)
queue_bb(l, used, bb) ==
    IF l = <<>> THEN [list |-> <<bb>>, used |-> used]
    ELSE IF l[1].block > bb.block
    THEN [list |-> <<bb>> \o l, used |-> IF used = 0 THEN 0 ELSE used + 1]
    ELSE LET from == IF used # 0 /\ bb.block > l[used].block THEN used ELSE 1
             at == CHOOSE i \in from..Len(l) :
                       /\ i = Len(l) \/ l[i + 1].block >= bb.block
                       /\ \A j \in from..(i - 1) : l[j + 1].block < bb.block
             put == SubSeq(l, 1, at) \o <<bb>> \o SubSeq(l, at + 1, Len(l))
             right == merge_bb(put, at + 1)
             both == merge_bb(right, at)
         IN [list |-> both, used |-> IF both = right THEN at + 1 ELSE at]

(* Mutant: the part cut off keeps the offset of the whole.                 *)
backed_block_split_offset(bb, max_len) ==
    LET cut == AlignDown(max_len)
    IN IF bb.len <= cut THEN <<bb>>
       ELSE <<[bb EXCEPT !.len = cut],
              Backed(bb.block + cut \div BlockSize, bb.len - cut, bb.type, bb.off)>>
(* backed_block_split: cut a block at max_len, rounded down to a block.    *)
(* Returns the one or two blocks that result.                              *)
backed_block_split(bb, max_len) ==
    LET cut == AlignDown(max_len)
    IN IF bb.len <= cut THEN <<bb>>
       ELSE <<[bb EXCEPT !.len = cut],
              Backed(bb.block + cut \div BlockSize, bb.len - cut, bb.type,
                     IF bb.type = "fill" THEN bb.off ELSE bb.off + cut)>>

(* backed_block_list_move of a whole segment into another list.            *)
backed_block_list_move(seg, to) ==
    IF seg = <<>> THEN to
    ELSE IF to = <<>> THEN seg
    ELSE LET at == CHOOSE i \in 1..Len(to) :
                       /\ i = Len(to) \/ to[i + 1].block > seg[1].block
                       /\ \A j \in 1..(i - 1) : to[j + 1].block <= seg[1].block
         IN SubSeq(to, 1, at) \o seg \o SubSeq(to, at + 1, Len(to))

----------------------------------------------------------------------------
(* The encoding: what sparse.cpp and output_file.cpp write for a list.     *)

(* Where the blocks before index i of the list end.                        *)
EndBefore(l, i) == IF i = 1 THEN 0 ELSE l[i - 1].block + DivUp(l[i - 1].len)
GapBefore(l, i) == l[i].block > EndBefore(l, i)

(* write_sparse_fill_chunk, write_sparse_data_chunk, write_sparse_fd_chunk *)
ChunkBytes(bb) == ChunkHeader + IF bb.type = "fill" THEN FillLen ELSE BlockSize * DivUp(bb.len)

(* The bytes of the first n backed blocks with the skip chunks before them *)
BytesUpTo(l, n) ==
    LET f[i \in 0..n] == IF i = 0 THEN 0
                         ELSE f[i - 1] + ChunkBytes(l[i]) + IF GapBefore(l, i) THEN ChunkHeader ELSE 0
    IN f[n]

(* sparse_count_chunks, which the file header announces                    *)
sparse_count_chunks(l) ==
    Len(l) + Cardinality({i \in 1..Len(l) : GapBefore(l, i)})
    + IF EndBefore(l, Len(l) + 1) < ImageBlocks THEN 1 ELSE 0

(* write_all_blocks pads to the length of the image with a skip chunk;     *)
(* write_sparse_skip_chunk refuses one that is no multiple of the block    *)
(* size, and nobody looks at its result.                                   *)
Padding(l) == ExpandedLen - EndBefore(l, Len(l) + 1) * BlockSize
PadWritten(l) == Padding(l) > 0 /\ Padding(l) % BlockSize = 0
SkipChunk(from, blocks) == Backed(from, blocks * BlockSize, "skip", 0)
write_all_blocks(l) ==
    FlattenSeq([i \in 1..Len(l) |->
                   IF GapBefore(l, i)
                   THEN <<SkipChunk(EndBefore(l, i), l[i].block - EndBefore(l, i)), l[i]>>
                   ELSE <<l[i]>>])
    \o IF PadWritten(l) THEN <<SkipChunk(EndBefore(l, Len(l) + 1), Padding(l) \div BlockSize)>> ELSE <<>>

(* sparse_file_len(s, true, false)                                         *)
sparse_file_len(l) == SparseHeader + BytesUpTo(l, Len(l)) + IF PadWritten(l) THEN ChunkHeader ELSE 0

----------------------------------------------------------------------------
(* The device, sparse_file_import_buf: the announced number of chunks must *)
(* be there, each raw one must hold a byte of payload, and their blocks    *)
(* must add up to total_blks.                                              *)
TotalBlocks(chunks) ==
    LET f[i \in 0..Len(chunks)] == IF i = 0 THEN 0 ELSE f[i - 1] + DivUp(chunks[i].len)
    IN f[Len(chunks)]
Accepted(l, chunks) ==
    /\ sparse_count_chunks(l) = Len(chunks)
    /\ TotalBlocks(chunks) = ImageBlocks
    /\ \A i \in 1..Len(chunks) : chunks[i].type = "skip" \/ chunks[i].len > 0

----------------------------------------------------------------------------
SparseInit ==
    /\ sfSource \in Sources
    /\ sfTail \in IF sfSource = "raw" THEN TailLens ELSE {BlockSize}
    /\ sfLimit \in Limits
    /\ sfImage = <<>>
    /\ sfFile = IF sfSource = "sparse" THEN SparseHeader ELSE 0
    /\ sfList = <<>> /\ sfUsed = 0 /\ sfTmp = <<>>
    /\ sfCount = 0 /\ sfPieces = <<>> /\ sfDone = 0 /\ sfWire = <<>> /\ sfSeek = 0
    /\ sfDisk = [b \in 0..(ImageBlocks - 1) |-> Old]
    /\ sfPc = "import"

(* Blocks read so far, and the next block's number.                        *)
At == Len(sfImage)

(* One sparse_file_add_*: queue a backed block and remember what the image *)
(* holds there.                                                            *)
RunsHere == {n \in 1..(ImageBlocks - At) : n \in RunLens \/ n = ImageBlocks - At}
AddBlock(bb) ==
    LET q == queue_bb(sfList, sfUsed, bb)
    IN /\ sfList' = q.list /\ sfUsed' = q.used
       /\ sfImage' = sfImage \o [i \in 1..DivUp(bb.len) |-> CellAt(bb, At + i - 1)]

(* do_sparse_file_read_normal: a whole block of one repeated word becomes  *)
(* a fill, any other block is left in the file.                            *)
ReadBlock ==
    /\ sfPc = "import" /\ sfSource = "raw" /\ At < ImageBlocks
    /\ LET to_read == IF At = ImageBlocks - 1 THEN sfTail ELSE BlockSize
       IN /\ \/ /\ to_read = BlockSize
                /\ At % Grain # 0 => sfImage[At][1] = "fill"
                /\ AddBlock(Backed(At, to_read, "fill", (At \div Grain) % 3 \div 2))
             \/ /\ At % Grain # 0 /\ to_read = BlockSize => sfImage[At][1] = "fd"
                /\ AddBlock(Backed(At, to_read, "fd", At * BlockSize))
          /\ sfFile' = sfFile + to_read
    /\ UNCHANGED <<sfSource, sfTail, sfLimit, sfTmp, sfCount, sfPieces, sfDone, sfWire, sfSeek, sfDisk, sfPc>>

(* process_chunk on the host: a raw, fill or skip chunk of n blocks of a   *)
(* sparse image file.                                                      *)
ProcessChunk ==
    /\ sfPc = "import" /\ sfSource = "sparse" /\ At < ImageBlocks
    /\ \E n \in RunsHere :
          LET len == n * BlockSize
              data == sfFile + ChunkHeader
          IN \/ AddBlock(Backed(At, len, "fd", data)) /\ sfFile' = data + len
             \/ AddBlock(Backed(At, len, "fill", 0)) /\ sfFile' = data + FillLen
             \/ /\ sfImage' = sfImage \o [i \in 1..n |-> Skip]
                /\ sfFile' = data
                /\ UNCHANGED <<sfList, sfUsed>>
    /\ UNCHANGED <<sfSource, sfTail, sfLimit, sfTmp, sfCount, sfPieces, sfDone, sfWire, sfSeek, sfDisk, sfPc>>

(* SuperFlashHelper::GetSparseLayout: one extent of the super partition    *)
(* layout: don't care, zero, metadata in memory, or a partition's image.   *)
AddExtent ==
    /\ sfPc = "import" /\ sfSource = "super" /\ At < ImageBlocks
    /\ \E n \in RunsHere :
          LET len == n * BlockSize
          IN /\ \/ AddBlock(Backed(At, len, "fill", 0))
                \/ AddBlock(Backed(At, len, "data", 0))
                \/ \E off \in {0, At * BlockSize} : AddBlock(Backed(At, len, "fd", off))
                \/ sfImage' = sfImage \o [i \in 1..n |-> Skip] /\ UNCHANGED <<sfList, sfUsed>>
             /\ sfFile' = sfFile + len
    /\ UNCHANGED <<sfSource, sfTail, sfLimit, sfTmp, sfCount, sfPieces, sfDone, sfWire, sfSeek, sfDisk, sfPc>>

(* get_sparse_limit in load_buf_fd and FlashSuperLayoutTask::Run: a file   *)
(* beyond the limit is resparsed, any other is sent as it is.              *)
Loaded ==
    /\ sfPc = "import" /\ At = ImageBlocks
    /\ IF sfFile > sfLimit THEN sfPc' = "count" /\ UNCHANGED sfPieces
       ELSE sfPc' = "send" /\ sfPieces' = <<sfList>>
    /\ UNCHANGED <<sfSource, sfImage, sfTail, sfFile, sfLimit, sfList, sfUsed, sfTmp, sfCount,
                   sfDone, sfWire, sfSeek, sfDisk>>

(* move_chunks_up_to_len: the backed blocks of the next file, what stays   *)
(* behind, and whether the walk stopped before the end of the list.        *)
move_chunks_up_to_len(l, max_len) ==
    LET len == max_len - (SparseHeader + 2 * ChunkHeader + FillLen)
        over == {i \in 1..Len(l) : BytesUpTo(l, i) > len}
        stop == CHOOSE i \in over : \A j \in over : i <= j
        room == len - (BytesUpTo(l, stop - 1) + ChunkHeader)
        split == backed_block_split(l[stop], room)
    IN IF over = {} THEN [moved |-> l, left |-> <<>>, more |-> FALSE]
       ELSE IF stop = 1 \/ room > len \div 8
       THEN [moved |-> SubSeq(l, 1, stop - 1) \o <<split[1]>>,
             left |-> Tail(split) \o SubSeq(l, stop + 1, Len(l)), more |-> TRUE]
       ELSE [moved |-> SubSeq(l, 1, stop - 1), left |-> SubSeq(l, stop, Len(l)), more |-> TRUE]

(* The bound on the turns of the loop: one for each block, the one that    *)
(* finds the list empty, and one more that must never be needed.           *)
MaxPieces == ImageBlocks + 2

(* One turn of sparse_file_resparse in the pass that only counts: the      *)
(* blocks go to tmp, and back into the image's list at the end.            *)
CountPiece ==
    /\ sfPc = "count" /\ sfCount < MaxPieces
    /\ LET m == move_chunks_up_to_len(sfList, sfLimit)
           tmp == backed_block_list_move(m.moved, sfTmp)
       IN /\ sfCount' = sfCount + 1
          /\ IF m.more THEN sfList' = m.left /\ sfTmp' = tmp /\ sfPc' = sfPc
             ELSE sfList' = backed_block_list_move(tmp, m.left) /\ sfTmp' = <<>> /\ sfPc' = "resparse"
    /\ sfUsed' = 0
    /\ UNCHANGED <<sfSource, sfImage, sfTail, sfFile, sfLimit, sfPieces, sfDone, sfWire, sfSeek, sfDisk>>

(* The same turn in the pass that fills out_s, which holds sfCount files;  *)
(* what does not fit goes back into the image's list.                      *)
ResparsePiece ==
    /\ sfPc = "resparse"
    /\ LET m == move_chunks_up_to_len(sfList, sfLimit)
           fits == Len(sfPieces) < sfCount
           tmp == IF fits THEN sfTmp ELSE backed_block_list_move(m.moved, sfTmp)
       IN /\ sfPieces' = IF fits THEN Append(sfPieces, m.moved) ELSE sfPieces
          /\ IF m.more THEN sfList' = m.left /\ sfTmp' = tmp /\ sfPc' = sfPc
             ELSE sfList' = backed_block_list_move(tmp, m.left) /\ sfTmp' = <<>> /\ sfPc' = "send"
    /\ UNCHANGED <<sfSource, sfImage, sfTail, sfFile, sfLimit, sfUsed, sfCount, sfDone, sfWire, sfSeek, sfDisk>>

(* flash_partition_files sends the next file; FlashBlockDevice seeks to the *)
(* start of the partition and parses it all before it writes, and Epilog   *)
(* ends the client when the device refuses it.  A raw image within the     *)
(* limit is sent as it is and written by FlashRawData.                     *)
FlashPiece ==
    /\ sfPc = "send" /\ sfDone < Len(sfPieces)
    /\ IF sfSource = "raw" /\ sfFile <= sfLimit
       THEN /\ sfDisk' = [b \in 0..(ImageBlocks - 1) |-> sfImage[b + 1]]
            /\ UNCHANGED <<sfWire, sfSeek, sfPc>>
       ELSE LET l == sfPieces[sfDone + 1]
                chunks == write_all_blocks(l)
            IN /\ IF Accepted(l, chunks) THEN sfWire' = chunks /\ sfSeek' = 0 /\ sfPc' = "write"
                  ELSE sfPc' = "failed" /\ UNCHANGED <<sfWire, sfSeek>>
               /\ UNCHANGED sfDisk
    /\ sfDone' = sfDone + 1
    /\ UNCHANGED <<sfSource, sfImage, sfTail, sfFile, sfLimit, sfList, sfUsed, sfTmp, sfCount, sfPieces>>

(* sparse_file_callback on the device: the next chunk goes where the ones  *)
(* before it ended; write_normal_skip_chunk only moves the file offset.    *)
WriteChunk ==
    /\ sfPc = "write"
    /\ IF sfWire = <<>> THEN sfPc' = "send" /\ UNCHANGED <<sfWire, sfSeek, sfDisk>>
       ELSE LET bb == [Head(sfWire) EXCEPT !.block = sfSeek]
            IN /\ sfDisk' = [b \in 0..(ImageBlocks - 1) |->
                                IF bb.type # "skip" /\ Covers(bb, b) THEN CellAt(bb, b) ELSE sfDisk[b]]
               /\ sfSeek' = sfSeek + DivUp(bb.len)
               /\ sfWire' = Tail(sfWire)
               /\ UNCHANGED sfPc
    /\ UNCHANGED <<sfSource, sfImage, sfTail, sfFile, sfLimit, sfList, sfUsed, sfTmp, sfCount,
                   sfPieces, sfDone>>

Flashed ==
    /\ sfPc = "send" /\ sfDone = Len(sfPieces)
    /\ sfPc' = "done"
    /\ UNCHANGED <<sfSource, sfImage, sfTail, sfFile, sfLimit, sfList, sfUsed, sfTmp, sfCount,
                   sfPieces, sfDone, sfWire, sfSeek, sfDisk>>

SparseNext ==
    \/ ReadBlock \/ ProcessChunk \/ AddExtent \/ Loaded
    \/ CountPiece \/ ResparsePiece \/ FlashPiece \/ WriteChunk \/ Flashed

(* The client is one thread that never stops between these steps.          *)
SparseFairness == WF_sfVars(SparseNext)
SparseSpec == SparseInit /\ [][SparseNext]_sfVars /\ SparseFairness

----------------------------------------------------------------------------
(* Every backed block list is sorted, without overlaps, and no two blocks  *)
(* start at the same place: merge_bb asserts it, the search of queue_bb    *)
(* and write_all_blocks rely on it, whatever was merged, split and moved   *)
(* between the lists before.                                               *)
ListsInOrder ==
    \A l \in {sfList, sfTmp} \cup {sfPieces[i] : i \in 1..Len(sfPieces)} :
        \A i \in 1..(Len(l) - 1) : l[i].len > 0 /\ l[i].block + DivUp(l[i].len) <= l[i + 1].block

(* No file that is sent is larger than the limit it was cut for: the       *)
(* device refuses a download above max-download-size.  The chunk header of *)
(* a leading skip is not counted when a block is split; the overhead the   *)
(* code reserves for a checksum it never writes is what pays for it.       *)
PiecesFit ==
    sfPc = "send" /\ sfFile > sfLimit =>
        \A i \in 1..Len(sfPieces) : sparse_file_len(sfPieces[i]) <= sfLimit

(* When the client is done the partition holds the image, and the blocks   *)
(* the image does not care for are as they were: nothing was lost, doubled *)
(* or displaced by merging, by the splits the counting pass leaves in the  *)
(* list for the second pass, or by an array sized from the first pass.     *)
ImageArrives ==
    sfPc = "done" =>
        \A b \in 0..(ImageBlocks - 1) :
            sfDisk[b] = IF sfImage[b + 1] = Skip THEN Old ELSE sfImage[b + 1]

(* The device accepts every file the client cuts (sparse.h: data whose     *)
(* length is no multiple of the block size is padded with zeros).          *)
PiecesAccepted == sfPc # "failed"

(* An image gets through in pieces: the lists stay in order while they are *)
(* cut, every piece fits the limit and is accepted, and together they      *)
(* leave the image on the partition.                                       *)
ImageGetsThrough == ListsInOrder /\ PiecesFit /\ PiecesAccepted /\ ImageArrives

(* Cutting ends: every turn of the resparse loop takes at least one block  *)
(* off the list, so that the client gets to send and to finish.            *)
FlashEnds == sfPc # "import" ~> sfPc \in {"done", "failed"}

=============================================================================
