------------------------------ MODULE FileSystem ------------------------------
(***************************************************************************)
(* The read-only file system of the MP3 kernel (filesystem.c): its image in *)
(* memory, the look-up of directory entries and the read operations behind  *)
(* a file descriptor.  Bytes and characters are members of a small set; a   *)
(* name is the sequence of its characters, at most NAME_BYTES of them.      *)
(***************************************************************************)
EXTENDS Integers, Sequences

CONSTANTS
  NUM_MAX_FILES,     \* entries of the boot block (63 in filesystem.h)
  NAME_BYTES,        \* bytes of a name (32)
  BYTES_4KB,         \* bytes of a data block (4096)
  direntries,        \* the boot block's entries in use, first to last
  inodes,            \* by inode number from 0: length and data_block_num
  data_blocks        \* by block number: their bytes

dir_count == Len(direntries)

\* One entry short of a full boot block: read_dentry_by_index accepts the index
\* dir_count, and the entry there is zero only inside the block.
ASSUME DirectoryAssumption == NUM_MAX_FILES \in Nat /\ dir_count < NUM_MAX_FILES
ASSUME BlockAssumption == BYTES_4KB \in Nat \ {0}
ASSUME NameAssumption == NAME_BYTES \in Nat \ {0}

IsSequence(s) == s \in Seq({s[i] : i \in DOMAIN s})

\* What a read call gives: its bytes, or -1 (ok is FALSE).
Read(bytes) == [ok |-> TRUE, bytes |-> bytes]
Failed      == [ok |-> FALSE, bytes |-> <<>>]

ZeroEntry == [file_name |-> <<>>, file_type |-> 0, inode_num |-> 0]

\* Fault: the entry behind the last is refused, as its comment promises.
read_dentry_by_index_strict(index) ==
  IF index >= dir_count THEN {} ELSE {direntries[index + 1]}

\* The entry found, or none.
read_dentry_by_index(index) ==
  IF index > dir_count \/ NUM_MAX_FILES < index THEN {}
  ELSE {IF index = dir_count THEN ZeroEntry ELSE direntries[index + 1]}

\* What strncmp and strncpy look at.
NamePart(name) == SubSeq(name, 1, IF Len(name) < NAME_BYTES THEN Len(name)
                                  ELSE NAME_BYTES)
SameName(fname, name) == NamePart(fname) = NamePart(name)

\* The image is whole: an entry of a file has an inode, an inode a table of
\* blocks that covers its length, and a block all its bytes; "." is a directory.
ASSUME ImageAssumption ==
  /\ IsSequence(direntries)
  /\ \A i \in 1..dir_count :
       LET entry == direntries[i] IN
       /\ IsSequence(entry.file_name)
       /\ entry.file_type \in 0..2
       /\ entry.file_type = 2 => entry.inode_num \in DOMAIN inodes
       /\ SameName(<<".">>, entry.file_name) => entry.file_type = 1
  /\ \A n \in DOMAIN inodes :
       LET table == inodes[n].data_block_num IN
       /\ IsSequence(table)
       /\ inodes[n].length \in 0..(Len(table) * BYTES_4KB)
       /\ \A i \in 1..Len(table) : table[i] \in DOMAIN data_blocks
  /\ \A b \in DOMAIN data_blocks :
       IsSequence(data_blocks[b]) /\ Len(data_blocks[b]) = BYTES_4KB

\* The first entry of that name, or none.
read_dentry_by_name(fname) ==
  LET found == {i \in 1..dir_count : SameName(fname, direntries[i].file_name)}
  IN IF found = {} THEN {}
     ELSE read_dentry_by_index((CHOOSE i \in found : \A j \in found : i <= j) - 1)

\* A byte of a file, through the inode's table of blocks.
ByteAt(inode, at) ==
  data_blocks[inodes[inode].data_block_num[(at \div BYTES_4KB) + 1]]
             [(at % BYTES_4KB) + 1]

\* The bytes copied: none at the end of the file or behind it, and none beyond
\* its length.  An inode number out of range fails.
read_data(inode, offset, length) ==
  LET stop == IF offset + length < inodes[inode].length THEN offset + length
              ELSE inodes[inode].length
  IN IF inode \notin DOMAIN inodes THEN Failed
     ELSE IF offset >= inodes[inode].length THEN Read(<<>>)
     ELSE Read([i \in 1..(stop - offset) |-> ByteAt(inode, offset + i - 1)])

-----------------------------------------------------------------------------
(* Descriptors: the entry of `fda' is [fop, inode_idx, file_position] *)

Descriptor(dentry) ==
  [fop |-> CASE dentry.file_type = 0 -> "rtc"
             [] dentry.file_type = 1 -> "directories"
             [] dentry.file_type = 2 -> "files",
   inode_idx |-> dentry.inode_num, file_position |-> 0]

\* A read gives its result and the descriptor as it leaves it.
Moved(d, n) == [d EXCEPT !.file_position = @ + n]

file_read(d, num_bytes) ==
  LET r == IF num_bytes <= 0 THEN Failed
           ELSE read_data(d.inode_idx, d.file_position, num_bytes)
  IN [result |-> r, d |-> IF r.ok THEN Moved(d, Len(r.bytes)) ELSE d]

\* A name a call, whatever the size of the buffer; strncpy leaves no byte of an
\* earlier name within NAME_BYTES.  A position beyond the directory fails.
directory_read(d) ==
  LET entry == read_dentry_by_index(d.file_position)
  IN IF entry = {} THEN [result |-> Failed, d |-> d]
     ELSE [result |-> Read(NamePart((CHOOSE e \in entry : TRUE).file_name)),
           d |-> Moved(d, 1)]

=============================================================================
