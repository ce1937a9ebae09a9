------------------------------ MODULE FileData ------------------------------
(***************************************************************************)
(* The reads of the file system image in fs.c: read_data, which collects   *)
(* the bytes of a file from its data blocks, and the lookups of the boot   *)
(* block, read_dentry_by_name and read_dentry_by_index.                    *)
(*                                                                         *)
(* A byte of a data block is named by its address, block * BLOCK + place,  *)
(* so that a copy which runs past the end of a block is seen to return     *)
(* bytes of the block stored after it.  Positions and lengths are assumed  *)
(* to stay below 2^31: no sum of two wraps around.                         *)
(***************************************************************************)
EXTENDS Integers, Sequences, SequencesExt, Folds

CONSTANTS
    BLOCK,               \* bytes of a data block (fs.c:3 and KB4)
    INODE_BLOCKS,        \* block numbers an inode has room for (types.h)
    DIRECTORY_ENTRIES    \* entries of the boot block (fs.h:9)

ASSUME FileDataAssumption ==
    /\ BLOCK \in Nat \ {0}
    /\ INODE_BLOCKS \in Nat
    /\ DIRECTORY_ENTRIES \in Nat

(* An inode: the length of the file and the numbers of its data blocks.    *)
IsInode(inode) ==
    /\ inode.length \in Nat
    /\ inode.blocks \in Seq(Nat)
    /\ Len(inode.blocks) * BLOCK >= inode.length

-----------------------------------------------------------------------------
(* read_data.                                                              *)

TooBig(inode) == inode.length > BLOCK * INODE_BLOCKS

(* The request reaches past the end of the file.                           *)
Clipped(inode, offset, length) == offset + length > inode.length

(* How many bytes the call returns.                                        *)
BytesRead(inode, offset, length) ==
    IF Clipped(inode, offset, length) THEN inode.length - offset ELSE length

(* Whole blocks still to be copied, counted before the offset's blocks are *)
(* skipped: to the end of the request, but for a clipped request only its  *)
(* own bytes are counted (all of the file's when it starts at its start).  *)
BlockCount(inode, offset, length) ==
    IF Clipped(inode, offset, length)
      THEN (inode.length - offset) \div BLOCK
      ELSE (offset + length) \div BLOCK

(* The blocks the loop skips; an offset of exactly one block is not.       *)
Skipped(offset) == IF offset = 0 THEN 0 ELSE (offset - 1) \div BLOCK

(* Mutant: the offset in the block is not added (Bug Log.txt:18).          *)
CopyFromBlockStart(inode, i, off, n) ==
    [k \in 1 .. n |-> inode.blocks[i + 1] * BLOCK + k - 1]

(* memcpy of n bytes from place off of the i-th block, counted from 0.     *)
CopyFrom(inode, i, off, n) ==
    [k \in 1 .. n |-> inode.blocks[i + 1] * BLOCK + off + k - 1]

(* The variables of the copy loop: bytes_to_read, block_count, offset, i.  *)
Loops == [left : Int, blocks : Int, off : Nat, i : Nat]

NextBlock(x) ==
    [left |-> x.left - (BLOCK - x.off), blocks |-> x.blocks - 1, off |-> 0, i |-> x.i + 1]

(* The copy loop: whole blocks while the count lasts, the first from the   *)
(* offset on, and then all that remains from a single block.               *)
CopyBlocks(inode, x) ==
    LET copy[y \in Loops] ==
            IF y.left = 0 THEN <<>>
            ELSE IF y.blocks > 0
              THEN CopyFrom(inode, y.i, y.off, BLOCK - y.off) \o copy[NextBlock(y)]
              ELSE CopyFrom(inode, y.i, y.off, y.left)
    IN  copy[x]

(* What the loop begins with.                                              *)
FirstBlock(inode, offset, length) ==
    [left   |-> BytesRead(inode, offset, length),
     blocks |-> BlockCount(inode, offset, length) - Skipped(offset),
     off    |-> offset - BLOCK * Skipped(offset),
     i      |-> Skipped(offset)]

(* The bytes read_data stores in the buffer; its return value is their     *)
(* number.  A file too big for an inode gives -1, which fs_read turns into *)
(* 0 bytes.                                                                *)
ReadData(inode, offset, length) ==
    IF inode.length = offset \/ TooBig(inode)
      THEN <<>>
      ELSE CopyBlocks(inode, FirstBlock(inode, offset, length))

-----------------------------------------------------------------------------
(* The boot block: a sequence of entries [name, type, inode].              *)

(* read_dentry_by_name: the first entry of that name in the whole table,   *)
(* of which the unused entries have the empty name.                        *)
EntryNamed(table, fname) ==
    SelectInSeq(table, LAMBDA entry : entry.name = fname)

(* read_dentry_by_index is limited by the number of inodes.                *)
HasEntryAt(boot, index) == index < boot.num_inodes

(* read_dir stores a name with strncpy, filled up with NULs to size bytes, *)
(* and returns its length.                                                 *)
read_dir(name, size, nul) ==
    [k \in 1 .. size |-> IF k <= Len(name) THEN name[k] ELSE nul]

-----------------------------------------------------------------------------
(* What the reads are for.                                                 *)

ByteAt(inode, p) == (inode.blocks[(p \div BLOCK) + 1] * BLOCK) + (p % BLOCK)

(* The bytes of the file from offset on, at most length of them.           *)
FileBytes(inode, offset, length) ==
    LET left == inode.length - offset
        n == IF length < left THEN length ELSE left
    IN  [k \in 1 .. n |-> ByteAt(inode, offset + k - 1)]

(* A request that starts within the file, reaches past its end and does    *)
(* not start at its beginning counts its blocks from the wrong place.      *)
CountsFromTheStart(inode, offset, length) ==
    offset = 0 \/ ~Clipped(inode, offset, length)

BlocksFollowEachOther(inode) ==
    \A i \in 1 .. Len(inode.blocks) - 1 :
        inode.blocks[i + 1] = inode.blocks[i] + 1
=============================================================================
