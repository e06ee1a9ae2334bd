----------------------------- MODULE FileSystem -----------------------------
(***************************************************************************)
(* The read-only boot filesystem of fs.c as pure operators over a boot     *)
(* image given by CONSTANTS: the directory entries of the boot block, the  *)
(* inodes (length and data-block numbers) and the data blocks.  Byte       *)
(* contents are model values.  Unsigned 32-bit arithmetic is kept modulo   *)
(* 2^UINT_BITS, with UINT_BITS scaled down together with BLOCK_SIZE so     *)
(* that offsets near the wrap are reachable.                               *)
(***************************************************************************)
EXTENDS Integers, Sequences, SequencesExt

CONSTANTS
    BLOCK_SIZE,     \* 4096 in fs.h
    MAX_FILES,      \* 63 in fs.h: the bound read_data puts on inode and block indices
    UINT_BITS,      \* width of uint32_t
    Dentries,       \* boot_block.files[0 .. num_dir_entries-1]: [name, type, nr_inode]
    InodeLen,       \* inode -> length in bytes
    InodeBlocks,    \* inode -> data block numbers, inodes[0], inodes[1], ...
    DataBlocks      \* data block number -> its BLOCK_SIZE bytes

USER_RTC == 0
DIR == 1
REGULAR == 2

NumDataBlocks == Len(DataBlocks)  \* boot_block_stats.num_data_blocks
UMOD == 2^UINT_BITS
U(x) == x % UMOD                  \* a value stored in a uint32_t
S(x) == IF U(x) >= UMOD \div 2 THEN U(x) - UMOD ELSE U(x)   \* ... read back as int32_t

\* inode_struct->inodes[j]; DataBlocks are numbered from 0
BlockEntry(inode, j) == InodeBlocks[inode][j + 1]
Block(b) == DataBlocks[b + 1]

(***************************************************************************)
(* read_dentry_by_name: the index of the first entry with that name, or    *)
(* -1.  Names are model values, all shorter than the 32-byte limit.        *)
(***************************************************************************)
read_dentry_by_name(name) ==
    IF \E i \in 1..Len(Dentries) : Dentries[i].name = name
    THEN CHOOSE i \in 1..Len(Dentries) :
            Dentries[i].name = name /\ \A k \in 1..i-1 : Dentries[k].name # name
    ELSE -1

\* read_dentry_by_index: the entry, or -1 past the last one
read_dentry_by_index(index) ==
    IF index >= Len(Dentries) THEN -1 ELSE Dentries[index + 1]

(***************************************************************************)
(* read_data(inode, offset, buf, length): the value it returns and the     *)
(* memcpy calls it makes, as <<block, start, count>> triples, in order.    *)
(* offset and length are uint32_t; end - offset is returned as int32_t.    *)
(***************************************************************************)
Seg(b, from, count) == [blk |-> b, from |-> from, count |-> count]
Fail == [ret |-> -1, segs |-> << >>]

\* mutant: the middle-block loop starts at start_blk_idx instead of start_blk_idx + 1
read_data_middle_from_start(inode, offset, length) ==
    LET end  == IF U(offset + length) >= InodeLen[inode]
                THEN InodeLen[inode] ELSE U(offset + length)
        sb == offset \div BLOCK_SIZE
        so == offset - sb * BLOCK_SIZE
        eb == end \div BLOCK_SIZE
        eo == end - eb * BLOCK_SIZE
        seg(j, from, count) == Seg(BlockEntry(inode, j), from, count)
    IN CASE inode >= MAX_FILES -> Fail
         [] InodeLen[inode] <= offset -> [ret |-> 0, segs |-> << >>]
         [] sb >= MAX_FILES \/ eb >= MAX_FILES -> Fail
         [] \E j \in sb..eb : BlockEntry(inode, j) >= NumDataBlocks -> Fail
         [] eb # sb ->
              [ret |-> S(end - offset),
               segs |-> << seg(sb, so, BLOCK_SIZE - so) >>
                        \o [k \in 1..(eb - sb) |-> seg(sb + k - 1, 0, BLOCK_SIZE)]
                        \o << seg(eb, 0, eo) >>]
         [] OTHER ->
              [ret |-> S(end - offset), segs |-> << seg(sb, so, U(eo - so)) >>]

read_data(inode, offset, length) ==
    LET end  == IF U(offset + length) >= InodeLen[inode]
                THEN InodeLen[inode] ELSE U(offset + length)
        sb == offset \div BLOCK_SIZE
        so == offset - sb * BLOCK_SIZE
        eb == end \div BLOCK_SIZE
        eo == end - eb * BLOCK_SIZE
        seg(j, from, count) == Seg(BlockEntry(inode, j), from, count)
    IN CASE inode >= MAX_FILES -> Fail
         [] InodeLen[inode] <= offset -> [ret |-> 0, segs |-> << >>]
         [] sb >= MAX_FILES \/ eb >= MAX_FILES -> Fail
         [] \E j \in sb..eb : BlockEntry(inode, j) >= NumDataBlocks -> Fail
         [] eb # sb ->
              [ret |-> S(end - offset),
               segs |-> << seg(sb, so, BLOCK_SIZE - so) >>
                        \o [k \in 1..(eb - sb - 1) |-> seg(sb + k, 0, BLOCK_SIZE)]
                        \o << seg(eb, 0, eo) >>]
         [] OTHER ->
              [ret |-> S(end - offset), segs |-> << seg(sb, so, U(eo - so)) >>]

\* every memcpy stays inside the data block it copies from
SegsInBounds(segs) ==
    \A k \in DOMAIN segs : segs[k].from + segs[k].count <= BLOCK_SIZE

\* the bytes the memcpy calls put in buf (meaningful when SegsInBounds)
Copied(segs) ==
    FlattenSeq([k \in DOMAIN segs |->
                  SubSeq(Block(segs[k].blk), segs[k].from + 1,
                         segs[k].from + segs[k].count)])

(***************************************************************************)
(* Reference: the file's bytes are its blocks in order, cut at its length. *)
(***************************************************************************)
FileContent(inode) ==
    SubSeq(FlattenSeq([k \in DOMAIN InodeBlocks[inode] |->
                         Block(InodeBlocks[inode][k])]),
           1, InodeLen[inode])

=============================================================================
