------------------------------- MODULE MCExt2 -------------------------------
(***************************************************************************)
(* Volumes for Ext2: blocks of 1, 2 and 4 kilobytes; a root directory      *)
(* with a file and a directory, whose inodes are in groups with and        *)
(* without a backup or are the last of a group; directories of one and two *)
(* blocks; files with direct, indirect, missing and unreadable blocks.     *)
(***************************************************************************)
EXTENDS Ext2

Blocks(f) == [n \in 1 .. Direct + 2 |-> IF n \in DOMAIN f THEN f[n] ELSE 0]

Entry(name, inode, type) == [name |-> name, inode |-> inode, type |-> type]

\* Block 10 is the root's, 11 its second one, 12 that of the subdirectory.
DirBlocks(fileInode, dirInode, closed) ==
  [b \in {10, 11, 12} |->
     IF b = 10 THEN [entries |-> <<Entry("dot", 2, "dir"), Entry("d", dirInode, "dir"), Entry("f", fileInode, "reg")>>,
                     closed |-> closed]
     ELSE IF b = 11 THEN [entries |-> <<Entry("x", 0, "reg"), Entry("g", fileInode, "reg")>>, closed |-> TRUE]
     ELSE [entries |-> <<Entry("dot", dirInode, "dir"), Entry("f", fileInode, "reg")>>, closed |-> TRUE]]

\* Files: block 20 on; 30 and 31 are blocks of pointers.
Files(bs) ==
  {[mode |-> "reg", size |-> 1, block |-> Blocks(<<20>>)],
   [mode |-> "reg", size |-> 2 * bs, block |-> Blocks(<<20, 21>>)],
   [mode |-> "reg", size |-> 2 * bs + 1, block |-> Blocks(<<20, 21, 30>>)],
   [mode |-> "reg", size |-> 2 * bs, block |-> Blocks(<<0, 21>>)],
   [mode |-> "reg", size |-> 2 * bs, block |-> Blocks(<<20, 25>>)],
   [mode |-> "reg", size |-> 5 * bs, block |-> Blocks(<<20, 21, 30, 31>>)]}

Volume(bs, file, fileInode, dirInode, rootBlocks, closed) ==
  [bs |-> bs, ipg |-> 8 * bs, bpg |-> 16, table |-> IF bs = 1 THEN 5 ELSE 4,
   inode |-> [n \in {2, fileInode, dirInode} |->
                IF n = 2 THEN [mode |-> "dir", size |-> bs, block |-> Blocks(rootBlocks)]
                ELSE IF n = fileInode THEN file
                ELSE [mode |-> "dir", size |-> bs, block |-> Blocks(<<12>>)]],
   dir |-> DirBlocks(fileInode, dirInode, closed),
   ind |-> [b \in {30, 31} |-> IF b = 30 THEN <<22, 0>> ELSE <<32, 33>>],
   bad |-> {25}, dirs |-> {2, dirInode}]

\* The file's inode in group 0, 1 (backup), 2 and 4 (none), 625, or last of group 0.
FileInodes(bs) == {5, 8 * bs + 3, 16 * bs + 6, 32 * bs + 7, 625 * 8 * bs + 2, 8 * bs}

SomeVolumes ==
  UNION {{Volume(bs, file, fi, di, root[1], root[2])
            : file \in Files(bs), fi \in FileInodes(bs), di \in {6, 16 * bs + 3},
              root \in {<< <<10>>, TRUE>>, << <<10, 11>>, TRUE>>, << <<10, 11>>, FALSE>>, << <<0, 10>>, TRUE>>}}
         : bs \in {1, 2, 4}}
=============================================================================
