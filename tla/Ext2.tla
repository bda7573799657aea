-------------------------------- MODULE Ext2 --------------------------------
(***************************************************************************)
(* The ext2 driver, src/fs/ext2: where an inode is on the disk, the        *)
(* listing of a directory and the loading of a file.                       *)
(*                                                                         *)
(* Sizes are in kilobytes.  A unit of file data is <<b, u>>, kilobyte u of *)
(* block b; a directory block is its entries and whether the record of the *)
(* last one reaches the end of the block; an indirect block is PerBlock    *)
(* block numbers.  A name is a value: the escaping of blanks is left out.  *)
(* The disk is read at the address the code computes: the inode found is   *)
(* the one that lives there.                                               *)
(***************************************************************************)
EXTENDS Integers, Sequences, Functions

CONSTANTS
  Volumes,     \* the ext2 volumes considered
  Direct,      \* 12: direct blocks of an inode
  PerBlock,    \* block numbers in an indirect block: bs / 4
  BufSize,     \* 4: databuf in kilobytes
  Names,
  DeadStack,   \* what may be read of grblock once its frame is gone
  Null

NoInode == [mode |-> "none", size |-> 0, block |-> [n \in 1 .. Direct + 2 |-> 0]]
Junk == <<-1, 0>>    \* a unit of memory that was never written

Inode == [mode : {"none", "dir", "reg"}, size : Nat, block : [1 .. Direct + 2 -> Nat]]
DirEntry == [name : Names, inode : Nat, type : {"reg", "dir"}]

\* The inode tables of volume v begin behind the first block and end in their
\* groups, where there is a backup and where there is none.
TablesFit(v) ==
  LET table == v.table - (IF v.bs = 1 THEN 1 ELSE 0)
  IN /\ table >= 0
     /\ \A off \in {table, 2} : off * (8 * v.bs) + v.ipg <= v.bpg * (8 * v.bs)

\* The directories of volume v: each block has entries, and an entry that is in
\* use has its inode, of its type.
DirsKept(v) ==
  /\ v.dir \in [DOMAIN v.dir -> [entries : Seq(DirEntry), closed : BOOLEAN]]
  /\ \A b \in DOMAIN v.dir : v.dir[b].entries # <<>>
  /\ \A n \in DOMAIN v.inode, m \in 1 .. Direct :
       v.inode[n].mode = "dir" /\ v.inode[n].block[m] # 0 => v.inode[n].block[m] \in DOMAIN v.dir
  /\ \A b \in DOMAIN v.dir : \A m \in DOMAIN v.dir[b].entries :
       LET e == v.dir[b].entries[m]
       IN e.inode # 0 => e.inode \in DOMAIN v.inode /\ v.inode[e.inode].mode = e.type

\* The files of volume v: indirect blocks hold block numbers, and a file without
\* a double indirect block has no more data than the other blocks hold.
FilesKept(v) ==
  /\ v.ind \in [DOMAIN v.ind -> [1 .. PerBlock -> Nat]]
  /\ \A n \in DOMAIN v.inode :
       /\ \A m \in {Direct + 1, Direct + 2} : v.inode[n].block[m] # 0 => v.inode[n].block[m] \in DOMAIN v.ind
       /\ v.inode[n].block[Direct + 2] = 0 => v.inode[n].size <= (Direct + PerBlock) * v.bs

\* A volume as mke2fs and a working system leave it.
Consistent(v) ==
  /\ v.bs \in {1, 2, 4} /\ v.ipg \in Nat \ {0} /\ v.bpg \in Nat /\ v.table \in Nat
  /\ TablesFit(v)
  /\ v.inode \in [DOMAIN v.inode -> Inode] /\ DOMAIN v.inode \subseteq Nat \ {0}
  /\ v.dirs \subseteq DOMAIN v.inode
  /\ DirsKept(v) /\ FilesKept(v)

ASSUME Ext2Assumption ==
  /\ Direct \in Nat \ {0} /\ PerBlock \in Nat \ {0} /\ BufSize \in Nat \ {0}
  /\ Null \notin Names \union {"listing", "loaded"}
  /\ \A v \in Volumes : Consistent(v)

VARIABLES
  vol,         \* the mounted volume, never written
  pc,
  goal,        \* the name to load, Null for a listing
  intab,       \* the inode being read
  inode_table, \* what grblock->inode_table reads
  k, j, l,     \* the loop counters: block, entry or pointer
  item_index,  \* nodes of the listing that were left behind
  listing,     \* ext2_file_prop: the filled nodes
  databuf, mem,\* the block buffer and what the call has loaded to memory
  answer       \* what the last call returned

vars == <<vol, pc, goal, intab, inode_table, k, j, l, item_index, listing, databuf, mem, answer>>

-----------------------------------------------------------------------------
Small == vol.bs * 8            \* small_size: inodes in a block
SuperGroups == {0, 1, 3, 9, 27, 81, 243, 5, 25, 125, 625, 7, 49, 343}

\* Mutant: the groups without a backup are taken for ones with it.
inode_to_lba_Bug(n, table) ==
  ((n \div vol.ipg) * vol.bpg * Small + (n % vol.ipg) - 1 + table * Small) \div 4 - 2

\* Sector of inode n, without the two of SUPER_BLOCK_OFFSET: the groups with a
\* backup of the superblock are laid out like group 0, the others begin with
\* the two bitmaps.
inode_to_lba(n, table) ==
  LET i == (n % vol.ipg) - 1
      g == n \div vol.ipg
  IN IF g \in SuperGroups
     THEN (g * vol.bpg * Small + i + table * Small) \div 4 - 2
     ELSE (g * vol.bpg * Small + i + 2 * Small) \div 4 + (IF vol.bs = 1 THEN 2 ELSE 0) - 2

\* Slot of inode n in its sector; C's remainder of -1 is -1.
get_index(n) == IF n % vol.ipg = 0 THEN -1 ELSE ((n % vol.ipg) - 1) % 4

\* Where mke2fs puts inode n: <<sector, slot>>.
HasBackup(g) == g = 0 \/ \E b \in {3, 5, 7}, e \in 0 .. 6 : g = b ^ e

\* Up to group 728 the code's list has the groups with a backup.
ASSUME BackupGroups == \A g \in 0 .. 728 : HasBackup(g) <=> g \in SuperGroups

FirstBlock(g) == g * vol.bpg + (IF vol.bs = 1 THEN 1 ELSE 0)
Home(n) ==
  LET g == (n - 1) \div vol.ipg
      i == (n - 1) % vol.ipg
      table == FirstBlock(g) + (IF HasBackup(g) THEN vol.table - FirstBlock(0) ELSE 2)
  IN <<table * 2 * vol.bs + i \div 4, i % 4>>

\* Sector of the group descriptors, without SUPER_BLOCK_OFFSET; the block size
\* comes from the superblock.
gdoffset == IF vol.bs = 4 THEN 6 ELSE 2

\* The first group's inode_table as the code reads it: the descriptors are in
\* the block behind the superblock's.
ext2_rd_superblock == IF gdoffset + 2 = (FirstBlock(0) + 1) * 2 * vol.bs THEN vol.table ELSE 0

\* What the code may take for inode n: the inode that lives where it looks, or
\* anything when the slot is before the buffer.
InodeAt(n, table) ==
  IF get_index(n) = -1
  THEN {NoInode} \union Range(vol.inode)
  ELSE LET here == {m \in DOMAIN vol.inode : Home(m) = <<inode_to_lba(n, table) + 2, get_index(n)>>}
       IN IF here = {} THEN {NoInode} ELSE {vol.inode[m] : m \in here}

\* databuf after reading block b: bs kilobytes of it are new, none on an error.
ext2_rd_block(b) ==
  [u \in 1 .. BufSize |-> IF u <= vol.bs /\ b \notin vol.bad THEN <<b, u>> ELSE databuf[u]]

Init ==
  /\ vol \in Volumes
  /\ pc = "idle" /\ goal = Null
  /\ intab = NoInode /\ inode_table = vol.table
  /\ k = 1 /\ j = 1 /\ l = 1
  /\ item_index = 0
  /\ listing = <<>>
  /\ databuf = [u \in 1 .. BufSize |-> Junk] /\ mem = <<>>
  /\ answer = Null

-----------------------------------------------------------------------------
\* init_ext2 of directory n, for a listing or to look a name up: the superblock
\* and the group descriptor are read (ext2_rd_superblock, ext2_rd_inode).
init_ext2(n, name) ==
  /\ pc = "idle"
  /\ goal' = name
  /\ inode_table' = ext2_rd_superblock /\ intab' \in InodeAt(n, inode_table')
  /\ IF intab'.mode = "dir" THEN pc' = "rd_dir" /\ item_index' = 0
                            ELSE pc' = "listed" /\ UNCHANGED item_index
  /\ k' = 1 /\ j' = 1 /\ listing' = <<>>
  /\ databuf' = [u \in 1 .. BufSize |-> Junk] /\ mem' = <<>>   \* local to the call
  /\ answer' = Null
  /\ UNCHANGED <<vol, l>>

\* Node item_index + 1 of the listing is filled, whatever it held.
Filled(entry) ==
  {SubSeq(listing, 1, item_index)
     \o <<[name |-> entry.name, inode |-> entry.inode, type |-> entry.type, size |-> found.size]>>
   : found \in InodeAt(entry.inode, inode_table)}

DirBlock == vol.dir[intab.block[k]]

\* Mutant: the node after the last entry of a block is lost too.
ext2_rd_dir_Bug ==
  /\ pc = "rd_dir" /\ k <= Direct /\ intab.block[k] # 0
  /\ listing' \in Filled(DirBlock.entries[j])
  /\ IF j = Len(DirBlock.entries)
     THEN k' = k + 1 /\ j' = 1 /\ UNCHANGED item_index
     ELSE j' = j + 1 /\ UNCHANGED <<k, item_index>>
  /\ UNCHANGED <<vol, pc, goal, intab, inode_table, l, databuf, mem, answer>>

\* One entry of a directory block.  The last one, whose record reaches the end
\* of the block, leaves ext2_temp where it is; a record of length 0 ends the
\* block too, behind a new node.
ext2_rd_dir ==
  /\ pc = "rd_dir" /\ k <= Direct /\ intab.block[k] # 0
  /\ listing' \in Filled(DirBlock.entries[j])
  /\ IF j = Len(DirBlock.entries)
     THEN /\ k' = k + 1 /\ j' = 1
          /\ item_index' = IF DirBlock.closed THEN item_index ELSE item_index + 1
     ELSE /\ j' = j + 1 /\ item_index' = item_index + 1
          /\ UNCHANGED k
  /\ UNCHANGED <<vol, pc, goal, intab, inode_table, l, databuf, mem, answer>>

rd_dir_skip ==
  /\ pc = "rd_dir" /\ k <= Direct /\ intab.block[k] = 0
  /\ k' = k + 1
  /\ UNCHANGED <<vol, pc, goal, intab, inode_table, j, l, item_index, listing, databuf, mem, answer>>

rd_dir_done ==
  /\ pc = "rd_dir" /\ k > Direct
  /\ pc' = "listed"
  /\ UNCHANGED <<vol, goal, intab, inode_table, k, j, l, item_index, listing, databuf, mem, answer>>

Return(value) == pc' = "idle" /\ answer' = value

\* The listing is what was asked for.
chdir_return ==
  /\ pc = "listed" /\ goal = Null
  /\ Return("listing")
  /\ UNCHANGED <<vol, goal, intab, inode_table, k, j, l, item_index, listing, databuf, mem>>

\* The first node called name; the empty last node has no name.
Found(name, n) ==
  /\ n \in DOMAIN listing /\ listing[n].name = name
  /\ \A m \in 1 .. n - 1 : listing[m].name # name

\* ext2_loadfile, with the result of the search.
ext2_loadfile ==
  /\ pc = "listed" /\ goal # Null
  /\ \/ /\ \A n \in DOMAIN listing : listing[n].name # goal
        /\ Return("FIL_NOT_FOUND")
     \/ \E n \in DOMAIN listing :
          /\ Found(goal, n) /\ listing[n].type # "reg"
          /\ Return("NOT_REG_FILE")
  /\ UNCHANGED <<vol, goal, intab, inode_table, k, j, l, item_index, listing, databuf, mem>>

\* ext2_load_file reads the inode again, through a grblock that points into the
\* frame ext2_rd_inode had.
ext2_load_file ==
  /\ pc = "listed" /\ goal # Null
  /\ \E n \in DOMAIN listing :
       /\ Found(goal, n) /\ listing[n].type = "reg"
       /\ inode_table' \in {vol.table} \union DeadStack
       /\ intab' \in InodeAt(listing[n].inode, inode_table')
  /\ k' = 1
  /\ IF intab'.mode = "reg" THEN pc' = "rd_file" /\ UNCHANGED answer
                            ELSE Return("loaded")
  /\ UNCHANGED <<vol, goal, j, l, item_index, listing, databuf, mem>>

-----------------------------------------------------------------------------
\* A block is read and all of databuf copied, whatever the block size.
Copy(b) == databuf' = ext2_rd_block(b) /\ mem' = mem \o databuf'

\* Mutant: the last direct block is not read.
rd_file_direct_Bug ==
  /\ pc = "rd_file" /\ k <= Direct
  /\ IF k < Direct /\ intab.block[k] # 0 THEN Copy(intab.block[k]) ELSE UNCHANGED <<databuf, mem>>
  /\ k' = k + 1
  /\ UNCHANGED <<vol, pc, goal, intab, inode_table, j, l, item_index, listing, answer>>

\* The direct blocks; one that is 0 is left out.
rd_file_direct ==
  /\ pc = "rd_file" /\ k <= Direct
  /\ IF intab.block[k] # 0 THEN Copy(intab.block[k]) ELSE UNCHANGED <<databuf, mem>>
  /\ k' = k + 1
  /\ UNCHANGED <<vol, pc, goal, intab, inode_table, j, l, item_index, listing, answer>>

\* On to the indirect blocks.
rd_file_indirect ==
  /\ pc = "rd_file" /\ k > Direct
  /\ pc' = "single" /\ j' = 1
  /\ UNCHANGED <<vol, goal, intab, inode_table, k, l, item_index, listing, databuf, mem, answer>>

\* Mutant: the pointer loop does not advance.
rd_file_single_Bug ==
  /\ pc = "single"
  /\ IF intab.block[Direct + 1] # 0 /\ j <= PerBlock
     THEN databuf' = ext2_rd_block(vol.ind[intab.block[Direct + 1]][j]) /\ UNCHANGED <<pc, mem, j, l>>
     ELSE pc' = "double" /\ j' = 1 /\ l' = 1 /\ UNCHANGED <<databuf, mem>>
  /\ UNCHANGED <<vol, goal, intab, inode_table, k, item_index, listing, answer>>

\* All pointers of the single indirect block are followed, unused ones too.
rd_file_single ==
  /\ pc = "single"
  /\ IF intab.block[Direct + 1] # 0 /\ j <= PerBlock
     THEN /\ Copy(vol.ind[intab.block[Direct + 1]][j])
          /\ j' = j + 1
          /\ UNCHANGED <<pc, l>>
     ELSE /\ pc' = "double" /\ j' = 1 /\ l' = 1
          /\ UNCHANGED <<databuf, mem>>
  /\ UNCHANGED <<vol, goal, intab, inode_table, k, item_index, listing, answer>>

\* The double indirect block: the block of pointers itself is copied, once for
\* each of its pointers (what is read through dind is never used).
rd_file_double ==
  /\ pc = "double"
  /\ IF intab.block[Direct + 2] # 0 /\ j <= PerBlock
     THEN /\ Copy(vol.ind[intab.block[Direct + 2]][j])
          /\ IF l < PerBlock THEN l' = l + 1 /\ UNCHANGED j
                             ELSE l' = 1 /\ j' = j + 1
          /\ UNCHANGED <<pc, answer>>
     ELSE Return("loaded") /\ j' = 1 /\ l' = 1 /\ UNCHANGED <<databuf, mem>>
  /\ UNCHANGED <<vol, goal, intab, inode_table, k, item_index, listing>>

rd_dir == ext2_rd_dir \/ rd_dir_skip \/ rd_dir_done
rd_file == rd_file_direct \/ rd_file_indirect \/ rd_file_single \/ rd_file_double
Step == rd_dir \/ chdir_return \/ ext2_loadfile \/ ext2_load_file \/ rd_file

Next == Step \/ \E n \in vol.dirs, name \in Names \union {Null} : init_ext2(n, name)

\* One thread with interrupts off: a call that can take a step takes it.
Spec == Init /\ [][Next]_vars /\ WF_vars(Step)

-----------------------------------------------------------------------------
Node == [name : Names, inode : Nat, type : {"reg", "dir"}, size : Nat]

\* Every variable has its type.
TypeOK ==
  /\ pc \in {"idle", "rd_dir", "listed", "rd_file", "single", "double"}
  /\ goal \in Names \union {Null}
  /\ k \in 1 .. Direct + 1 /\ j \in Nat /\ l \in 1 .. PerBlock
  /\ item_index \in Nat
  /\ listing \in Seq(Node)
  /\ answer \in {Null, "listing", "FIL_NOT_FOUND", "NOT_REG_FILE", "loaded"}

\* An inode the address arithmetic knows: not the last one of its group, and
\* before group 729, the first backup that is missing from the code's list.
Addressable(n) == n % vol.ipg # 0 /\ n \div vol.ipg < 729

\* "Converts an inode number to a LBA address": the inode read for a number is
\* the one mke2fs put there, in groups with and without a backup.
InodeFound ==
  \A n \in DOMAIN vol.inode : Addressable(n) => InodeAt(n, ext2_rd_superblock) = {vol.inode[n]}

\* The block of a directory that has only one.
OnlyBlock(n) == vol.dir[vol.inode[n].block[1]]
OneBlock(n) ==
  /\ vol.inode[n].mode = "dir" /\ vol.inode[n].block[1] # 0
  /\ \A m \in 2 .. Direct : vol.inode[n].block[m] = 0
  /\ \A m \in DOMAIN OnlyBlock(n).entries : Addressable(OnlyBlock(n).entries[m].inode)

\* "Reads the directory entry for current working directory": the listing of a
\* directory of one block is its entries in order, each with its file's size.
ListingRight ==
  \A n \in vol.dirs :
    answer = "listing" /\ OneBlock(n) /\ intab = vol.inode[n] =>
      LET entries == OnlyBlock(n).entries
      IN /\ Len(listing) = Len(entries)
         /\ \A m \in DOMAIN entries :
              listing[m] = [name |-> entries[m].name, inode |-> entries[m].inode, type |-> entries[m].type,
                            size |-> vol.inode[entries[m].inode].size]

\* Block m of file f, from 1, through the direct and the single indirect ones.
BlockOf(f, m) == IF m <= Direct THEN f.block[m] ELSE vol.ind[f.block[Direct + 1]][m - Direct]

\* A file without holes, unreadable blocks or a double indirect block.
Readable(f) ==
  /\ f.block[Direct + 2] = 0
  /\ f.size > Direct * vol.bs => f.block[Direct + 1] # 0
  /\ \A m \in 1 .. (f.size + vol.bs - 1) \div vol.bs : BlockOf(f, m) \notin {0} \union vol.bad

\* Memory begins with the data of file f.
InMemory(f) ==
  /\ Len(mem) >= f.size
  /\ \A u \in 1 .. f.size :
       mem[u] = <<BlockOf(f, (u - 1) \div vol.bs + 1), ((u - 1) % vol.bs) + 1>>

\* The file that was asked for.
Wanted(f) ==
  \E n \in DOMAIN listing :
    Found(goal, n) /\ Addressable(listing[n].inode) /\ f = vol.inode[listing[n].inode]

\* "loads any file whose inode number is given as argument to any memory
\* location": a readable file on a volume of 4 kilobyte blocks is in memory
\* from its first byte on once it is loaded, if the group descriptor is still
\* in its dead frame.
FileRight ==
  \A f \in Range(vol.inode) :
    answer = "loaded" /\ inode_table = vol.table /\ vol.bs = BufSize /\ Wanted(f) /\ Readable(f)
      => InMemory(f)

\* Every listing and every loading ends.
CallsReturn == (pc # "idle") ~> (pc = "idle")
=============================================================================
