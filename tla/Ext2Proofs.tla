----------------------------- MODULE Ext2Proofs -----------------------------
(***************************************************************************)
(* The ext2 driver on every consistent volume: where an inode is, the      *)
(* listing of a directory and what a load leaves in memory.                *)
(***************************************************************************)
EXTENDS Ext2, SequenceTheorems, TLAPS

-----------------------------------------------------------------------------
\* Quotient and remainder, from the number they make.
LEMMA DivIs ==
  ASSUME NEW n \in Int, NEW m \in Nat \ {0}, NEW q \in Int, NEW r \in 0 .. m - 1, n = q * m + r
  PROVE  n \div m = q /\ n % m = r
  OBVIOUS

\* The number, from its quotient and remainder.
LEMMA DivSplit ==
  ASSUME NEW n \in Nat, NEW m \in Nat \ {0}
  PROVE  /\ n \div m \in Nat /\ n % m \in 0 .. m - 1
         /\ n = (n \div m) * m + (n % m)
  OBVIOUS

\* The product of two numbers is one.
LEMMA Product == \A a, b \in Nat : a * b \in Nat
  OBVIOUS

\* Group and index of inode n, counted from 0 or, as the code does, from 1.
LEMMA FromOne ==
  ASSUME NEW n \in Nat \ {0}, NEW p \in Nat \ {0}, n % p # 0
  PROVE  (n - 1) \div p = n \div p /\ (n - 1) % p = (n % p) - 1
<1>1. PICK q \in Nat, r \in 0 .. p - 1 : q = n \div p /\ r = n % p /\ n = q * p + r
  BY DivSplit
<1>2. n - 1 = q * p + (r - 1) /\ r - 1 \in 0 .. p - 1 /\ n - 1 \in Int
  <2>1. q * p \in Nat
    BY Product
  <2> QED BY <1>1, <2>1
<1>3. PICK N \in Int, R \in 0 .. p - 1 : N = n - 1 /\ R = r - 1 /\ N = q * p + R
  BY <1>2
<1>4. N \div p = q /\ N % p = R
  <2>1. q \in Int /\ N = q * p + R
    BY <1>3
  <2> QED BY <2>1, DivIs, Zenon
<1> QED BY <1>1, <1>3, <1>4

-----------------------------------------------------------------------------
\* The volume's numbers.
LEMMA VolFacts ==
  ASSUME vol \in Volumes
  PROVE  /\ vol.bs \in {1, 2, 4} /\ vol.ipg \in Nat \ {0} /\ vol.bpg \in Nat /\ vol.table \in Nat
         /\ DOMAIN vol.inode \subseteq Nat \ {0}
         /\ Consistent(vol) /\ TablesFit(vol) /\ DirsKept(vol) /\ FilesKept(vol)
  BY Ext2Assumption DEF Consistent

\* Offset of group g's inode table from the first block of the group.
Off(g) == IF HasBackup(g) THEN vol.table - FirstBlock(0) ELSE 2

\* The tables end in their groups.
LEMMA OffFits ==
  ASSUME vol \in Volumes, NEW g
  PROVE  Off(g) \in Nat /\ Off(g) * (8 * vol.bs) + vol.ipg <= vol.bpg * (8 * vol.bs)
<1>1. FirstBlock(0) = IF vol.bs = 1 THEN 1 ELSE 0
  BY VolFacts DEF FirstBlock
<1>2. Off(g) \in {vol.table - (IF vol.bs = 1 THEN 1 ELSE 0), 2}
  BY <1>1 DEF Off
<1> QED BY <1>2, VolFacts DEF TablesFit

\* The place of inode n as one number: slots from the start of the disk.
LEMMA HomeSlot ==
  ASSUME vol \in Volumes, NEW n \in Nat \ {0}
  PROVE  LET g == (n - 1) \div vol.ipg
             i == (n - 1) % vol.ipg
         IN /\ g \in Nat /\ i \in 0 .. vol.ipg - 1 /\ n = g * vol.ipg + i + 1
            /\ Home(n)[1] \in Int /\ Home(n)[2] \in Int
            /\ 4 * Home(n)[1] + Home(n)[2] = (FirstBlock(g) + Off(g)) * (8 * vol.bs) + i
<1>0. PICK N \in Nat : N = n - 1
  OBVIOUS
<1>1. PICK g \in Nat, i \in 0 .. vol.ipg - 1 :
        g = (n - 1) \div vol.ipg /\ i = (n - 1) % vol.ipg /\ n - 1 = g * vol.ipg + i
  <2>1. vol.ipg \in Nat \ {0}
    BY VolFacts
  <2>2. /\ N \div vol.ipg \in Nat /\ N % vol.ipg \in 0 .. vol.ipg - 1
        /\ N = (N \div vol.ipg) * vol.ipg + (N % vol.ipg)
    BY <2>1, DivSplit, Zenon
  <2> QED BY <1>0, <2>2, Zenon
<1>2. PICK t \in Int : t = FirstBlock(g) + Off(g)
  <2>1. g * vol.bpg \in Nat
    BY VolFacts, Product
  <2> QED BY <2>1, OffFits DEF FirstBlock
<1>3. Home(n) = <<t * 2 * vol.bs + i \div 4, i % 4>>
  BY <1>1, <1>2 DEF Home, Off
<1>4. i \in Nat /\ i = 4 * (i \div 4) + (i % 4) /\ i \div 4 \in Nat /\ i % 4 \in Nat
  BY VolFacts
<1>5. t * 2 * vol.bs \in Int /\ 4 * (t * 2 * vol.bs) = t * (8 * vol.bs)
  BY VolFacts
<1>6. n = g * vol.ipg + i + 1
  BY <1>1, VolFacts, Product
<1>7. 4 * Home(n)[1] + Home(n)[2] = t * (8 * vol.bs) + i /\ Home(n)[1] \in Int /\ Home(n)[2] \in Int
  <2>1. PICK x \in Int, y \in Int : x = t * 2 * vol.bs /\ y = t * (8 * vol.bs) /\ 4 * x = y
    BY <1>5, VolFacts
  <2> QED BY <1>3, <1>4, <2>1
<1> QED BY <1>1, <1>2, <1>6, <1>7

\* No two inodes have the same place.
LEMMA HomeInjective ==
  ASSUME vol \in Volumes, NEW m \in Nat \ {0}, NEW n \in Nat \ {0}, Home(m) = Home(n)
  PROVE  m = n
<1>1. PICK g \in Nat, i \in 0 .. vol.ipg - 1 :
        /\ m = g * vol.ipg + i + 1
        /\ 4 * Home(m)[1] + Home(m)[2] = (FirstBlock(g) + Off(g)) * (8 * vol.bs) + i
  BY HomeSlot
<1>2. PICK h \in Nat, j0 \in 0 .. vol.ipg - 1 :
        /\ n = h * vol.ipg + j0 + 1
        /\ 4 * Home(n)[1] + Home(n)[2] = (FirstBlock(h) + Off(h)) * (8 * vol.bs) + j0
  BY HomeSlot
<1>3. (FirstBlock(g) + Off(g)) * (8 * vol.bs) + i = (FirstBlock(h) + Off(h)) * (8 * vol.bs) + j0
  BY <1>1, <1>2
<1>4. ASSUME NEW a \in Nat, NEW b \in Nat, NEW x \in 0 .. vol.ipg - 1, NEW y \in 0 .. vol.ipg - 1, a < b
      PROVE  (FirstBlock(a) + Off(a)) * (8 * vol.bs) + x < (FirstBlock(b) + Off(b)) * (8 * vol.bs) + y
  <2>1. PICK p \in Nat, q \in Nat : p = a * vol.bpg /\ q = b * vol.bpg /\ q >= p + vol.bpg
    <3>1. PICK c \in Nat : b = a + 1 + c
      <4>1. b - a - 1 \in Nat /\ b = a + 1 + (b - a - 1)
        BY <1>4
      <4> QED BY <4>1
    <3>2. b * vol.bpg = a * vol.bpg + vol.bpg + c * vol.bpg
      BY <3>1, VolFacts
    <3>3. a * vol.bpg \in Nat /\ c * vol.bpg \in Nat /\ b * vol.bpg \in Nat
      BY VolFacts, Product
    <3> QED BY <3>2, <3>3, VolFacts
  <2>2. PICK f \in Nat : f = IF vol.bs = 1 THEN 1 ELSE 0
    OBVIOUS
  <2>3. FirstBlock(a) = p + f /\ FirstBlock(b) = q + f
    BY <2>1, <2>2 DEF FirstBlock
  <2>4. PICK u \in Nat, v \in Nat : /\ u = Off(a) /\ v = Off(b)
                                    /\ u * (8 * vol.bs) + vol.ipg <= vol.bpg * (8 * vol.bs)
    BY OffFits
  <2>5. (p + f + u) * (8 * vol.bs) + x < (q + f + v) * (8 * vol.bs) + y
    <3>1. CASE vol.bs = 1
      BY <3>1, <2>1, <2>4, VolFacts
    <3>2. CASE vol.bs = 2
      BY <3>2, <2>1, <2>4, VolFacts
    <3>3. CASE vol.bs = 4
      BY <3>3, <2>1, <2>4, VolFacts
    <3> QED BY <3>1, <3>2, <3>3, VolFacts
  <2> QED BY <2>3, <2>4, <2>5
<1>5. ASSUME NEW a \in Nat, NEW x \in 0 .. vol.ipg - 1
      PROVE  (FirstBlock(a) + Off(a)) * (8 * vol.bs) + x \in Int
  <2>1. a * vol.bpg \in Nat
    BY VolFacts, Product
  <2>2. PICK t \in Nat : t = FirstBlock(a) + Off(a)
    BY <2>1, OffFits DEF FirstBlock
  <2> QED BY <2>2, VolFacts
<1>6. ~(g < h) /\ ~(h < g)
  BY <1>3, <1>4, <1>5
<1>7. g = h
  BY <1>6
<1>8. i = j0
  <2>1. PICK z \in Int : z = (FirstBlock(g) + Off(g)) * (8 * vol.bs)
    <3>1. 0 \in 0 .. vol.ipg - 1
      BY VolFacts
    <3>2. g * vol.bpg \in Nat
      BY VolFacts, Product
    <3>3. PICK t \in Nat : t = FirstBlock(g) + Off(g)
      BY <3>2, OffFits DEF FirstBlock
    <3> QED BY <3>3, VolFacts
  <2> QED BY <2>1, <1>3, <1>7
<1> QED BY <1>1, <1>2, <1>7, <1>8

\* The sector and slot the code computes are where mke2fs puts the inode.
LEMMA AddressRight ==
  ASSUME vol \in Volumes, NEW n \in Nat \ {0}, Addressable(n)
  PROVE  Home(n) = <<inode_to_lba(n, vol.table) + 2, get_index(n)>> /\ get_index(n) # -1
<1>1. PICK g \in Nat, i \in Nat :
        /\ g = n \div vol.ipg /\ i = (n % vol.ipg) - 1
        /\ (n - 1) \div vol.ipg = g /\ (n - 1) % vol.ipg = i
  <2>1. n % vol.ipg # 0 /\ n % vol.ipg \in 0 .. vol.ipg - 1 /\ n \div vol.ipg \in Nat
    BY VolFacts, DivSplit DEF Addressable
  <2>2. (n - 1) \div vol.ipg = n \div vol.ipg /\ (n - 1) % vol.ipg = (n % vol.ipg) - 1
    BY <2>1, VolFacts, FromOne
  <2>3. (n % vol.ipg) - 1 \in Nat
    BY <2>1, VolFacts
  <2> QED BY <2>1, <2>2, <2>3
<1>2. g \in 0 .. 728
  BY <1>1 DEF Addressable
<1>3. HasBackup(g) <=> g \in SuperGroups
  BY <1>2, BackupGroups
<1>4. get_index(n) = i % 4 /\ i % 4 \in 0 .. 3
  BY <1>1 DEF get_index, Addressable
<1>5. PICK p \in Nat : p = g * vol.bpg
  BY VolFacts, Product
<1>6. PICK f \in Nat : f = (IF vol.bs = 1 THEN 1 ELSE 0) /\ FirstBlock(g) = p + f /\ FirstBlock(0) = f
  BY <1>5, VolFacts DEF FirstBlock
<1>7. CASE g \in SuperGroups
  <2>1. inode_to_lba(n, vol.table) = (p * Small + i + vol.table * Small) \div 4 - 2
    BY <1>1, <1>5, <1>7 DEF inode_to_lba
  <2>2. Home(n) = <<(p + f + (vol.table - f)) * 2 * vol.bs + i \div 4, i % 4>>
    BY <1>1, <1>3, <1>6, <1>7 DEF Home
  <2>3. PICK t \in Nat : t = vol.table
    BY VolFacts
  <2>4. (p * (vol.bs * 8) + i + t * (vol.bs * 8)) \div 4 - 2 + 2 = (p + f + (t - f)) * 2 * vol.bs + i \div 4
    <3>1. CASE vol.bs = 1
      BY <3>1
    <3>2. CASE vol.bs = 2
      BY <3>2
    <3>3. CASE vol.bs = 4
      BY <3>3
    <3> QED BY <3>1, <3>2, <3>3, VolFacts
  <2> QED BY <2>1, <2>2, <2>3, <2>4, <1>4 DEF Small
<1>8. CASE g \notin SuperGroups
  <2>1. inode_to_lba(n, vol.table) = (p * Small + i + 2 * Small) \div 4 + (IF vol.bs = 1 THEN 2 ELSE 0) - 2
    BY <1>1, <1>5, <1>8 DEF inode_to_lba
  <2>2. Home(n) = <<(p + f + 2) * 2 * vol.bs + i \div 4, i % 4>>
    BY <1>1, <1>3, <1>6, <1>8 DEF Home
  <2>3. (p * (vol.bs * 8) + i + 2 * (vol.bs * 8)) \div 4 + (IF vol.bs = 1 THEN 2 ELSE 0) - 2 + 2
          = (p + f + 2) * 2 * vol.bs + i \div 4
    <3>1. CASE vol.bs = 1
      BY <3>1, <1>6
    <3>2. CASE vol.bs = 2
      BY <3>2, <1>6
    <3>3. CASE vol.bs = 4
      BY <3>3, <1>6
    <3> QED BY <3>1, <3>2, <3>3, VolFacts
  <2> QED BY <2>1, <2>2, <2>3, <1>4 DEF Small
<1> QED BY <1>7, <1>8

\* Reading an inode that is on the volume finds it, and no other.
LEMMA InodeAtIs ==
  ASSUME vol \in Volumes, NEW n \in DOMAIN vol.inode, Addressable(n)
  PROVE  InodeAt(n, vol.table) = {vol.inode[n]}
<1>1. n \in Nat \ {0} /\ DOMAIN vol.inode \subseteq Nat \ {0}
  BY VolFacts
<1>2. Home(n) = <<inode_to_lba(n, vol.table) + 2, get_index(n)>> /\ get_index(n) # -1
  BY <1>1, AddressRight
<1>3. {m \in DOMAIN vol.inode : Home(m) = <<inode_to_lba(n, vol.table) + 2, get_index(n)>>} = {n}
  BY <1>1, <1>2, HomeInjective
<1> QED BY <1>2, <1>3 DEF InodeAt

\* The descriptors are behind the superblock for every block size.
LEMMA SuperblockRight == ASSUME vol \in Volumes PROVE ext2_rd_superblock = vol.table
<1>1. FirstBlock(0) = IF vol.bs = 1 THEN 1 ELSE 0
  BY VolFacts DEF FirstBlock
<1> QED BY <1>1, VolFacts DEF ext2_rd_superblock, gdoffset

\* The volume is never written.
LEMMA VolKept == Next => vol' = vol
  BY DEF Next, Step, rd_dir, rd_file, init_ext2, ext2_rd_dir, rd_dir_skip, rd_dir_done, chdir_return, ext2_loadfile,
         ext2_load_file, rd_file_direct, rd_file_indirect, rd_file_single, rd_file_double

\* On every consistent volume the inode read for a number is the one mke2fs put
\* there (inode_to_lba, get_index, ext2_rd_superblock).
THEOREM InodesFound == Spec => []InodeFound
<1>1. Init => vol \in Volumes
  BY DEF Init
<1>2. vol \in Volumes /\ [Next]_vars => (vol \in Volumes)'
  BY VolKept DEF vars
<1>3. vol \in Volumes => InodeFound
  BY InodeAtIs, SuperblockRight DEF InodeFound
<1> QED BY <1>1, <1>2, <1>3, PTL DEF Spec

-----------------------------------------------------------------------------
Unit == Int \X Int

\* The types, with those of the buffers and of the inode that is read.
Types ==
  /\ TypeOK /\ vol \in Volumes
  /\ intab \in {NoInode} \union Range(vol.inode)
  /\ databuf \in [1 .. BufSize -> Unit] /\ mem \in Seq(Unit)
  /\ answer # Null => pc = "idle"

\* The scan of a directory is at an entry of a block of it, with a node to fill;
\* nothing has been loaded yet.
ScanAt ==
  /\ pc = "rd_dir" =>
       /\ intab.mode = "dir" /\ inode_table = vol.table /\ item_index <= Len(listing)
       /\ j = 1 \/ (k <= Direct /\ intab.block[k] # 0 /\ j \in DOMAIN DirBlock.entries)
  /\ pc \in {"rd_dir", "listed"} => mem = <<>>

\* A node of the listing that is in use has its inode, of its type.
Listed ==
  \A m \in DOMAIN listing :
    listing[m].inode # 0 =>
      listing[m].inode \in DOMAIN vol.inode /\ vol.inode[listing[m].inode].mode = listing[m].type

\* The node of entry m of directory n.
NodeOf(n, m) ==
  LET e == OnlyBlock(n).entries[m]
  IN [name |-> e.name, inode |-> e.inode, type |-> e.type, size |-> vol.inode[e.inode].size]

\* The listing of a directory of one block so far.
ListedSoFar ==
  \A n \in vol.dirs :
    OneBlock(n) /\ intab = vol.inode[n] /\ (pc \in {"rd_dir", "listed"} \/ answer = "listing") =>
      /\ \A m \in DOMAIN listing : listing[m] = NodeOf(n, m)
      /\ IF pc = "rd_dir" /\ k = 1 THEN item_index = j - 1 /\ Len(listing) = j - 1
                                   ELSE Len(listing) = Len(OnlyBlock(n).entries)

Loading == pc \in {"rd_file", "single", "double"} \/ answer = "loaded"

\* What is loaded is what was asked for, if the group descriptor was still there.
LoadsWanted ==
  Loading /\ inode_table = vol.table =>
    \A n \in DOMAIN listing :
      Found(goal, n) /\ Addressable(listing[n].inode)
        => intab = vol.inode[listing[n].inode] /\ intab.mode = "reg"

\* The blocks file f has data in, and the first c blocks of it in memory.
Need(f) == (f.size + vol.bs - 1) \div vol.bs
Got(f, c) == \A b \in 1 .. c, u \in 1 .. vol.bs : mem[(b - 1) * vol.bs + u] = <<BlockOf(f, b), u>>
Complete(f) == Len(mem) >= Need(f) * vol.bs /\ Got(f, Need(f))

\* c blocks of f have been gone through: they are in memory without a gap as
\* far as there is data in them.
Through(f, c) ==
  /\ c <= Need(f) => Len(mem) = c * vol.bs /\ Got(f, c)
  /\ c >= Need(f) => Complete(f)

LoadedSoFar ==
  vol.bs = BufSize /\ Readable(intab) =>
    /\ pc = "rd_file" => Through(intab, k - 1)
    /\ pc = "single" => Through(intab, Direct + j - 1)
    /\ pc = "double" \/ (answer = "loaded" /\ intab.mode = "reg") => Complete(intab)

LoadTypes ==
  /\ pc \in {"rd_file", "single", "double"} => intab.mode = "reg"
  /\ pc \in {"single", "double"} => j \in 1 .. PerBlock + 1

\* The inductive invariant.
Ext2Inv == Types /\ ScanAt /\ Listed /\ ListedSoFar /\ LoadsWanted /\ LoadTypes /\ LoadedSoFar

\* The constants.
LEMMA Sizes ==
  /\ Direct \in Nat /\ Direct >= 1 /\ PerBlock \in Nat /\ PerBlock >= 1 /\ BufSize \in Nat /\ BufSize >= 1
  /\ Null \notin Names /\ Null # "listing" /\ Null # "loaded"
  BY Ext2Assumption

\* An inode of the volume, or none, is an inode.
LEMMA InodeTypes ==
  ASSUME vol \in Volumes, NEW f \in {NoInode} \union Range(vol.inode)
  PROVE  /\ f \in Inode
         /\ f.mode \in {"none", "dir", "reg"} /\ f.size \in Nat /\ \A m \in 1 .. Direct + 2 : f.block[m] \in Nat
         /\ f.mode # "none" => \E n \in DOMAIN vol.inode : f = vol.inode[n]
<1>1. vol.inode \in [DOMAIN vol.inode -> Inode]
  BY VolFacts DEF Consistent
<1>2. NoInode \in Inode /\ NoInode.mode = "none"
  BY Sizes DEF NoInode, Inode
<1>3. f = NoInode \/ \E n \in DOMAIN vol.inode : f = vol.inode[n]
  BY DEF Range
<1>4. f \in Inode
  BY <1>1, <1>2, <1>3
<1>5. f.mode \in {"none", "dir", "reg"} /\ f.size \in Nat /\ \A m \in 1 .. Direct + 2 : f.block[m] \in Nat
  BY <1>4 DEF Inode
<1> QED BY <1>2, <1>3, <1>4, <1>5

\* Reading an inode gives one, or none.
LEMMA InodeAtTypes ==
  ASSUME NEW n, NEW table
  PROVE  InodeAt(n, table) \subseteq {NoInode} \union Range(vol.inode)
<1>1. \A m \in DOMAIN vol.inode : vol.inode[m] \in Range(vol.inode)
  BY DEF Range
<1> QED BY <1>1 DEF InodeAt

\* The entries of a block of a directory.
LEMMA EntryFacts ==
  ASSUME vol \in Volumes, NEW b \in DOMAIN vol.dir
  PROVE  /\ vol.dir[b].entries \in Seq(DirEntry) /\ Len(vol.dir[b].entries) \in Nat
         /\ Len(vol.dir[b].entries) >= 1 /\ DOMAIN vol.dir[b].entries = 1 .. Len(vol.dir[b].entries)
         /\ \A m \in DOMAIN vol.dir[b].entries :
              LET e == vol.dir[b].entries[m]
              IN e \in DirEntry /\ (e.inode # 0 => e.inode \in DOMAIN vol.inode /\ vol.inode[e.inode].mode = e.type)
<1>1. DirsKept(vol)
  BY VolFacts
<1>2. vol.dir[b].entries \in Seq(DirEntry)
  <2>1. vol.dir[b] \in [entries : Seq(DirEntry), closed : BOOLEAN]
    BY <1>1 DEF DirsKept
  <2> QED BY <2>1
<1>3. vol.dir[b].entries # <<>>
  BY <1>1 DEF DirsKept
<1>4. PICK es \in Seq(DirEntry) : es = vol.dir[b].entries
  BY <1>2
<1>5. Len(es) \in Nat /\ Len(es) >= 1 /\ DOMAIN es = 1 .. Len(es) /\ \A m \in DOMAIN es : es[m] \in DirEntry
  BY <1>3, <1>4
<1>6. \A m \in DOMAIN vol.dir[b].entries :
        LET e == vol.dir[b].entries[m]
        IN e.inode # 0 => e.inode \in DOMAIN vol.inode /\ vol.inode[e.inode].mode = e.type
  BY <1>1 DEF DirsKept
<1> QED BY <1>4, <1>5, <1>6

\* The block a scan is in, and the entry it is at.
LEMMA ScanFacts ==
  ASSUME Types, ScanAt, pc = "rd_dir", k <= Direct, intab.block[k] # 0
  PROVE  intab.block[k] \in DOMAIN vol.dir /\ j \in DOMAIN DirBlock.entries
<1>1. vol \in Volumes /\ k \in 1 .. Direct + 1 /\ intab.mode = "dir"
  BY DEF Types, TypeOK, ScanAt
<1>2. PICK n \in DOMAIN vol.inode : intab = vol.inode[n]
  BY <1>1, InodeTypes DEF Types
<1>3. k \in 1 .. Direct
  BY <1>1, Sizes
<1>4. intab.block[k] \in DOMAIN vol.dir
  BY <1>1, <1>2, <1>3, VolFacts DEF DirsKept
<1>5. 1 \in DOMAIN DirBlock.entries
  BY <1>1, <1>4, EntryFacts DEF DirBlock
<1> QED BY <1>4, <1>5 DEF ScanAt

-----------------------------------------------------------------------------
\* Nothing has been read at the start.
LEMMA InitInv == Init => Ext2Inv
<1> SUFFICES ASSUME Init PROVE Ext2Inv
  OBVIOUS
<1>1. Junk \in Unit
  BY DEF Junk, Unit
<1>2. Types
  BY <1>1, Sizes DEF Init, Types, TypeOK
<1>3. ScanAt /\ Listed /\ ListedSoFar /\ LoadsWanted /\ LoadTypes /\ LoadedSoFar
  BY Sizes DEF Init, ScanAt, Listed, ListedSoFar, LoadsWanted, LoadTypes, LoadedSoFar, Loading
<1> QED BY <1>2, <1>3 DEF Ext2Inv

\* A call begins.
LEMMA CallInv ==
  ASSUME Ext2Inv, NEW n \in vol.dirs, NEW name \in Names \union {Null}, init_ext2(n, name)
  PROVE  Ext2Inv'
<1>1. Types
  BY DEF Ext2Inv
<1>2. /\ vol' = vol /\ vol \in Volumes /\ goal' = name /\ inode_table' = vol.table /\ intab' \in InodeAt(n, inode_table')
      /\ k' = 1 /\ j' = 1 /\ l' = l /\ listing' = <<>> /\ mem' = <<>> /\ answer' = Null
      /\ databuf' = [u \in 1 .. BufSize |-> Junk]
      /\ IF intab'.mode = "dir" THEN pc' = "rd_dir" /\ item_index' = 0
                                ELSE pc' = "listed" /\ UNCHANGED item_index
  BY <1>1, SuperblockRight DEF init_ext2, Types
<1>3. intab' \in {NoInode} \union Range(vol.inode)
  BY <1>2, InodeAtTypes
<1>4. Junk \in Unit
  BY DEF Junk, Unit
<1>5. Types'
  BY <1>1, <1>2, <1>3, <1>4, Sizes DEF Types, TypeOK
<1>6. ScanAt'
  BY <1>2 DEF ScanAt
<1>7. Listed' /\ LoadsWanted' /\ LoadTypes' /\ LoadedSoFar'
  BY <1>2, Sizes DEF Listed, LoadsWanted, Loading, LoadTypes, LoadedSoFar
<1>8. ListedSoFar'
  <2>1. CASE pc' = "rd_dir"
    BY <1>2, <2>1 DEF ListedSoFar
  <2>2. CASE pc' = "listed" /\ intab'.mode # "dir"
    BY <2>2 DEF ListedSoFar, OneBlock
  <2> QED BY <1>2, <2>1, <2>2
<1> QED BY <1>5, <1>6, <1>7, <1>8 DEF Ext2Inv

\* What a step that leaves the volume alone keeps.
LEMMA DirKept ==
  ASSUME vol' = vol, NEW n
  PROVE  /\ OneBlock(n)' <=> OneBlock(n)
         /\ OnlyBlock(n)' = OnlyBlock(n)
         /\ \A m : NodeOf(n, m)' = NodeOf(n, m)
<1>1. OnlyBlock(n)' = OnlyBlock(n)
  BY DEF OnlyBlock
<1>2. \A m : NodeOf(n, m)' = NodeOf(n, m)
  BY DEF OnlyBlock, NodeOf
<1>3. OneBlock(n)' <=> OneBlock(n)
  BY DEF OneBlock, OnlyBlock, Addressable
<1> QED BY <1>1, <1>2, <1>3

\* A directory scan goes on: what was loaded before is of no concern.
LEMMA NoLoad ==
  ASSUME Types, pc = "rd_dir" \/ pc = "listed", pc' = "rd_dir" \/ pc' = "listed", answer' = answer
  PROVE  LoadsWanted' /\ LoadTypes' /\ LoadedSoFar' /\ answer = Null
<1>1. answer = Null
  BY DEF Types
<1> QED BY <1>1, Sizes DEF LoadsWanted, Loading, LoadTypes, LoadedSoFar

\* One entry is put on the listing.
LEMMA EntryInv == ASSUME Ext2Inv, ext2_rd_dir PROVE Ext2Inv'
<1>1. Types /\ ScanAt /\ Listed /\ ListedSoFar
  BY DEF Ext2Inv
<1>2. /\ pc = "rd_dir" /\ k <= Direct /\ intab.block[k] # 0 /\ listing' \in Filled(DirBlock.entries[j])
      /\ UNCHANGED <<vol, pc, goal, intab, inode_table, l, databuf, mem, answer>>
      /\ IF j = Len(DirBlock.entries)
         THEN /\ k' = k + 1 /\ j' = 1
              /\ item_index' = IF DirBlock.closed THEN item_index ELSE item_index + 1
         ELSE /\ j' = j + 1 /\ item_index' = item_index + 1
              /\ UNCHANGED k
  BY DEF ext2_rd_dir
<1>3. /\ vol \in Volumes /\ intab.mode = "dir" /\ inode_table = vol.table /\ item_index \in Nat
      /\ item_index <= Len(listing) /\ listing \in Seq(Node) /\ k \in 1 .. Direct /\ mem = <<>>
  BY <1>1, <1>2, Sizes DEF Types, TypeOK, ScanAt
<1>4. intab.block[k] \in DOMAIN vol.dir /\ j \in DOMAIN DirBlock.entries
  BY <1>1, <1>2, ScanFacts
<1>5. PICK e : e = DirBlock.entries[j]
  OBVIOUS
<1>6. e \in DirEntry /\ (e.inode # 0 => e.inode \in DOMAIN vol.inode /\ vol.inode[e.inode].mode = e.type)
  BY <1>3, <1>4, <1>5, EntryFacts DEF DirBlock
<1>7. PICK found \in InodeAt(e.inode, vol.table) :
        listing' = SubSeq(listing, 1, item_index)
          \o <<[name |-> e.name, inode |-> e.inode, type |-> e.type, size |-> found.size]>>
  BY <1>2, <1>3, <1>5 DEF Filled
<1>8. found.size \in Nat
  BY <1>3, InodeAtTypes, InodeTypes
<1>9. PICK x \in Node : x = [name |-> e.name, inode |-> e.inode, type |-> e.type, size |-> found.size]
  BY <1>6, <1>8 DEF Node, DirEntry
<1>10. /\ listing' \in Seq(Node) /\ Len(listing') = item_index + 1 /\ DOMAIN listing' = 1 .. item_index + 1
       /\ listing'[item_index + 1] = x
       /\ \A m \in 1 .. item_index : listing'[m] = listing[m] /\ m \in DOMAIN listing
  <2>0. \A m \in 1 .. item_index : m \in DOMAIN listing /\ listing[m] \in Node
    BY <1>3
  <2>1. PICK t \in Seq(Node) : /\ t = SubSeq(listing, 1, item_index)
                               /\ Len(t) = (IF 1 <= item_index THEN item_index - 1 + 1 ELSE 0)
                               /\ \A m \in 1 .. item_index - 1 + 1 : t[m] = listing[1 + m - 1]
    <3>1. 1 \in Int /\ item_index \in Int
      BY <1>3
    <3>2. /\ SubSeq(listing, 1, item_index) \in Seq(Node)
          /\ Len(SubSeq(listing, 1, item_index)) = (IF 1 <= item_index THEN item_index - 1 + 1 ELSE 0)
          /\ \A m \in 1 .. item_index - 1 + 1 : SubSeq(listing, 1, item_index)[m] = listing[1 + m - 1]
      BY <2>0, <3>1, SubSeqProperties
    <3> QED BY <3>2, Zenon
  <2>2. Len(t) = item_index /\ \A m \in 1 .. item_index : t[m] = listing[m] /\ m \in DOMAIN listing
    BY <1>3, <2>0, <2>1
  <2>3. listing' = t \o <<x>>
    BY <1>7, <1>9, <2>1
  <2> QED BY <1>3, <2>2, <2>3
<1>11. j \in Nat /\ Len(DirBlock.entries) \in Nat /\ DOMAIN DirBlock.entries = 1 .. Len(DirBlock.entries)
  BY <1>3, <1>4, EntryFacts DEF DirBlock
<1>12. Types'
  <2>1. k' \in 1 .. Direct + 1 /\ j' \in Nat /\ item_index' \in Nat
    BY <1>2, <1>3, <1>11, Sizes, SMTT(30)
  <2> QED BY <1>1, <1>2, <1>10, <2>1 DEF Types, TypeOK
<1>13. ScanAt'
  <2>1. item_index' <= Len(listing')
    BY <1>2, <1>3, <1>10
  <2>2. j' = 1 \/ (k' <= Direct /\ intab'.block[k'] # 0 /\ j' \in DOMAIN DirBlock'.entries)
    <3>1. CASE j = Len(DirBlock.entries)
      BY <1>2, <3>1
    <3>2. CASE j # Len(DirBlock.entries)
      <4>1. j' = j + 1 /\ k' = k /\ j + 1 \in DOMAIN DirBlock.entries
        BY <1>2, <1>4, <1>11, <3>2
      <4> QED BY <1>2, <4>1 DEF DirBlock
    <3> QED BY <3>1, <3>2
  <2> QED BY <1>2, <1>3, <2>1, <2>2 DEF ScanAt
<1>14. Listed'
  <2>1. x.inode # 0 => x.inode \in DOMAIN vol.inode /\ vol.inode[x.inode].mode = x.type
    BY <1>6, <1>9
  <2>2. ASSUME NEW m \in DOMAIN listing' 
        PROVE  listing'[m].inode # 0 =>
                 listing'[m].inode \in DOMAIN vol.inode /\ vol.inode[listing'[m].inode].mode = listing'[m].type
    <3>1. m \in 1 .. item_index \/ m = item_index + 1
      BY <1>3, <1>10
    <3> QED BY <1>1, <1>10, <2>1, <3>1 DEF Listed
  <2> QED BY <1>2, <2>2 DEF Listed
<1>15. ListedSoFar'
  <2> SUFFICES ASSUME NEW n \in vol.dirs, OneBlock(n), intab = vol.inode[n]
               PROVE  /\ \A m \in DOMAIN listing' : listing'[m] = NodeOf(n, m)
                      /\ IF pc = "rd_dir" /\ k' = 1
                         THEN item_index' = j' - 1 /\ Len(listing') = j' - 1
                         ELSE Len(listing') = Len(OnlyBlock(n).entries)
    BY <1>2, DirKept DEF ListedSoFar
  <2>1. k = 1
    BY <1>2, <1>3, Sizes DEF OneBlock
  <2>2. DirBlock = OnlyBlock(n)
    BY <2>1 DEF DirBlock, OnlyBlock
  <2>3. /\ item_index = j - 1
        /\ \A m \in DOMAIN listing : listing[m] = NodeOf(n, m)
    BY <1>1, <1>2, <2>1 DEF ListedSoFar
  <2>4. x = NodeOf(n, j)
    <3>1. Addressable(e.inode)
      BY <1>4, <1>5, <2>2 DEF OneBlock
    <3>2. e.inode # 0
      BY <3>1, <1>3, VolFacts DEF Addressable
    <3>3. found = vol.inode[e.inode]
      BY <1>3, <1>6, <1>7, <3>1, <3>2, InodeAtIs
    <3> QED BY <1>5, <1>9, <2>2, <3>3 DEF NodeOf
  <2>5. \A m \in DOMAIN listing' : listing'[m] = NodeOf(n, m)
    <3>1. \A m \in DOMAIN listing' : m \in 1 .. item_index \/ m = item_index + 1
      BY <1>3, <1>10
    <3>2. item_index + 1 = j
      BY <2>3, <1>11
    <3> QED BY <1>10, <2>3, <2>4, <3>1, <3>2
  <2>6. CASE j = Len(DirBlock.entries)
    BY <1>2, <1>10, <1>11, <2>1, <2>2, <2>3, <2>5, <2>6
  <2>7. CASE j # Len(DirBlock.entries)
    BY <1>2, <1>10, <1>11, <2>1, <2>2, <2>3, <2>5, <2>7
  <2> QED BY <2>6, <2>7
<1> QED BY <1>1, <1>2, <1>12, <1>13, <1>14, <1>15, NoLoad DEF Ext2Inv

\* An unused block is passed over, and the scan ends behind the last one.
LEMMA ScanOnInv == ASSUME Ext2Inv, rd_dir_skip \/ rd_dir_done PROVE Ext2Inv'
<1>1. Types /\ ScanAt /\ Listed /\ ListedSoFar
  BY DEF Ext2Inv
<1>2. /\ pc = "rd_dir" /\ pc' \in {"rd_dir", "listed"}
      /\ UNCHANGED <<vol, goal, intab, inode_table, j, l, item_index, listing, databuf, mem, answer>>
  BY DEF rd_dir_skip, rd_dir_done
<1>3. vol \in Volumes /\ k \in 1 .. Direct + 1 /\ mem = <<>>
  BY <1>1, <1>2 DEF Types, TypeOK, ScanAt
<1>4. LoadsWanted' /\ LoadTypes' /\ LoadedSoFar'
  BY <1>1, <1>2, NoLoad
<1>5. Listed'
  BY <1>1, <1>2 DEF Listed
<1>6. CASE rd_dir_skip
  <2>1. k <= Direct /\ intab.block[k] = 0 /\ k' = k + 1 /\ pc' = pc
    BY <1>6 DEF rd_dir_skip
  <2>2. Types'
    BY <1>1, <1>2, <1>3, <2>1, Sizes DEF Types, TypeOK
  <2>3. ScanAt'
    BY <1>1, <1>2, <2>1 DEF ScanAt
  <2>4. ListedSoFar'
    <3> SUFFICES ASSUME NEW n \in vol.dirs, OneBlock(n), intab = vol.inode[n]
                 PROVE  /\ \A m \in DOMAIN listing : listing[m] = NodeOf(n, m)
                        /\ IF pc = "rd_dir" /\ k' = 1 THEN item_index = j - 1 /\ Len(listing) = j - 1
                                                      ELSE Len(listing) = Len(OnlyBlock(n).entries)
      BY <1>2, <2>1, DirKept DEF ListedSoFar
    <3>1. k # 1 /\ k' # 1
      BY <2>1, <1>3 DEF OneBlock
    <3> QED BY <1>1, <1>2, <3>1 DEF ListedSoFar
  <2> QED BY <1>4, <1>5, <2>2, <2>3, <2>4 DEF Ext2Inv
<1>7. CASE rd_dir_done
  <2>1. k > Direct /\ k' = k /\ pc' = "listed"
    BY <1>7 DEF rd_dir_done
  <2>2. Types'
    BY <1>1, <1>2, <2>1, NoLoad DEF Types, TypeOK
  <2>3. ScanAt'
    BY <1>2, <1>3, <2>1 DEF ScanAt
  <2>4. ListedSoFar'
    <3> SUFFICES ASSUME NEW n \in vol.dirs, OneBlock(n), intab = vol.inode[n]
                 PROVE  /\ \A m \in DOMAIN listing : listing[m] = NodeOf(n, m)
                        /\ Len(listing) = Len(OnlyBlock(n).entries)
      BY <1>2, <2>1, DirKept DEF ListedSoFar
    <3>1. k # 1
      BY <2>1, <1>3, Sizes
    <3> QED BY <1>1, <1>2, <3>1 DEF ListedSoFar
  <2> QED BY <1>4, <1>5, <2>2, <2>3, <2>4 DEF Ext2Inv
<1> QED BY <1>6, <1>7

\* A listing is returned, or the file asked for is not there.
LEMMA ListedInv == ASSUME Ext2Inv, chdir_return \/ ext2_loadfile PROVE Ext2Inv'
<1>1. Types /\ ScanAt /\ Listed /\ ListedSoFar
  BY DEF Ext2Inv
<1>2. /\ pc = "listed" /\ pc' = "idle" /\ answer' \in {"listing", "FIL_NOT_FOUND", "NOT_REG_FILE"}
      /\ UNCHANGED <<vol, goal, intab, inode_table, k, j, l, item_index, listing, databuf, mem>>
  BY DEF chdir_return, ext2_loadfile, Return
<1>3. Types'
  BY <1>1, <1>2 DEF Types, TypeOK
<1>4. ScanAt' /\ Listed'
  BY <1>1, <1>2 DEF ScanAt, Listed
<1>5. LoadsWanted' /\ LoadTypes' /\ LoadedSoFar'
  BY <1>2 DEF LoadsWanted, Loading, LoadTypes, LoadedSoFar
<1>6. ListedSoFar'
  <2> SUFFICES ASSUME NEW n \in vol.dirs, OneBlock(n), intab = vol.inode[n]
               PROVE  /\ \A m \in DOMAIN listing : listing[m] = NodeOf(n, m)
                      /\ Len(listing) = Len(OnlyBlock(n).entries)
    BY <1>2, DirKept DEF ListedSoFar
  <2> QED BY <1>1, <1>2 DEF ListedSoFar
<1> QED BY <1>3, <1>4, <1>5, <1>6 DEF Ext2Inv

-----------------------------------------------------------------------------
\* The number of blocks with data is a number.
LEMMA NeedType ==
  ASSUME vol \in Volumes, NEW f \in {NoInode} \union Range(vol.inode)
  PROVE  Need(f) \in Nat
<1>1. PICK z \in Nat : z = f.size
  BY InodeTypes
<1>2. CASE vol.bs = 1
  BY <1>1, <1>2 DEF Need
<1>3. CASE vol.bs = 2
  BY <1>1, <1>3 DEF Need
<1>4. CASE vol.bs = 4
  BY <1>1, <1>4 DEF Need
<1> QED BY <1>2, <1>3, <1>4, VolFacts

\* What a step that leaves the volume alone keeps of a file.
LEMMA FileKept ==
  ASSUME vol' = vol, NEW f
  PROVE  /\ Need(f)' = Need(f)
         /\ Readable(f)' <=> Readable(f)
         /\ \A m : BlockOf(f, m)' = BlockOf(f, m)
<1>1. Need(f)' = Need(f)
  BY DEF Need
<1>2. \A m : BlockOf(f, m)' = BlockOf(f, m)
  BY DEF BlockOf
<1>3. Readable(f)' <=> Readable(f)
  BY DEF Readable, BlockOf
<1> QED BY <1>1, <1>2, <1>3

\* ext2_load_file: the inode of the file that was found is read again.
LEMMA LoadInv == ASSUME Ext2Inv, ext2_load_file PROVE Ext2Inv'
<1>1. Types /\ ScanAt /\ Listed
  BY DEF Ext2Inv
<1>2. /\ pc = "listed" /\ k' = 1 /\ UNCHANGED <<vol, goal, j, l, item_index, listing, databuf, mem>>
      /\ IF intab'.mode = "reg" THEN pc' = "rd_file" /\ UNCHANGED answer
                                ELSE pc' = "idle" /\ answer' = "loaded"
  BY DEF ext2_load_file, Return
<1>3. PICK n \in DOMAIN listing :
        /\ Found(goal, n) /\ listing[n].type = "reg"
        /\ inode_table' \in {vol.table} \union DeadStack
        /\ intab' \in InodeAt(listing[n].inode, inode_table')
  BY DEF ext2_load_file
<1>4. intab' \in {NoInode} \union Range(vol.inode) /\ vol \in Volumes /\ listing \in Seq(Node) /\ mem = <<>> /\ answer = Null
  BY <1>1, <1>2, <1>3, InodeAtTypes DEF Types, TypeOK, ScanAt
<1>5. Types'
  BY <1>1, <1>2, <1>4, Sizes DEF Types, TypeOK
<1>6. ScanAt' /\ Listed' /\ LoadTypes'
  BY <1>1, <1>2 DEF ScanAt, Listed, LoadTypes
<1>7. ListedSoFar'
  BY <1>2, <1>4, Sizes DEF ListedSoFar
<1>8. LoadsWanted'
  <2> SUFFICES ASSUME inode_table' = vol.table, NEW m \in DOMAIN listing,
                      Found(goal, m), Addressable(listing[m].inode)
               PROVE  intab' = vol.inode[listing[m].inode] /\ intab'.mode = "reg"
    BY <1>2 DEF LoadsWanted, Found, Addressable
  <2>1. m = n
    <3>1. m \in Nat /\ n \in Nat /\ m >= 1 /\ n >= 1
      BY <1>4
    <3>2. ~(m \in 1 .. n - 1) /\ ~(n \in 1 .. m - 1)
      BY <1>3 DEF Found
    <3> QED BY <3>1, <3>2
  <2>2. listing[n].inode # 0
    BY <2>1, <1>4, VolFacts DEF Addressable
  <2>3. listing[n].inode \in DOMAIN vol.inode /\ vol.inode[listing[n].inode].mode = "reg"
    BY <1>1, <1>3, <2>2 DEF Listed
  <2>4. intab' = vol.inode[listing[n].inode]
    BY <1>3, <1>4, <2>1, <2>3, InodeAtIs
  <2> QED BY <2>1, <2>3, <2>4
<1>9. LoadedSoFar'
  <2>1. PICK f \in {NoInode} \union Range(vol.inode) : f = intab'
    BY <1>4
  <2>2. Need(f) \in Nat /\ Need(f)' = Need(f)
    BY <1>2, <1>4, NeedType, FileKept
  <2>3. mem' = <<>> /\ vol.bs \in Nat /\ vol' = vol
    BY <1>2, <1>4, VolFacts
  <2>5. Through(f, 0)'
    <3>1. Got(f, 0)'
      BY DEF Got
    <3>2. Len(mem') = 0 * vol'.bs
      BY <2>3
    <3>3. ASSUME 0 >= Need(f) PROVE Complete(f)'
      <4>1. Need(f) = 0
        BY <2>2, <3>3
      <4>2. Len(mem') >= 0 * vol'.bs
        BY <2>3
      <4> QED BY <2>2, <3>1, <4>1, <4>2 DEF Complete, Got
    <3> QED BY <2>2, <3>1, <3>2, <3>3 DEF Through
  <2>6. Through(intab, k - 1)'
    <3>1. k' - 1 = 0 /\ intab' = f
      BY <1>2, <2>1
    <3> QED BY <2>5, <3>1 DEF Through, Need, Complete, Got, BlockOf
  <2> QED BY <1>2, <1>4, <2>6, Sizes DEF LoadedSoFar
<1> QED BY <1>5, <1>6, <1>7, <1>8, <1>9 DEF Ext2Inv

-----------------------------------------------------------------------------
\* The units of the first c blocks.
LEMMA IndexIn ==
  ASSUME NEW w \in {1, 2, 4}, NEW c \in Nat, NEW b \in 1 .. c, NEW u \in 1 .. w
  PROVE  (b - 1) * w + u \in 1 .. c * w
<1>1. CASE w = 1
  BY <1>1
<1>2. CASE w = 2
  BY <1>2
<1>3. CASE w = 4
  BY <1>3
<1> QED BY <1>1, <1>2, <1>3

\* What Copy does to memory: what is there stays, and the buffer follows.
LEMMA CopyAppends ==
  ASSUME Types, NEW b \in Nat, Copy(b)
  PROVE  /\ databuf' \in [1 .. BufSize -> Unit] /\ mem' \in Seq(Unit)
         /\ databuf' = ext2_rd_block(b)
         /\ Len(mem) \in Nat /\ Len(mem') = Len(mem) + BufSize
         /\ \A i \in 1 .. Len(mem) : mem'[i] = mem[i]
         /\ \A u \in 1 .. BufSize : mem'[Len(mem) + u] = databuf'[u]
<1>1. databuf \in [1 .. BufSize -> Unit] /\ mem \in Seq(Unit) /\ vol \in Volumes
  BY DEF Types
<1>2. \A u \in 1 .. BufSize : <<b, u>> \in Unit
  BY Sizes DEF Unit
<1>3. databuf' = ext2_rd_block(b) /\ mem' = mem \o databuf'
  BY DEF Copy
<1>4. databuf' \in [1 .. BufSize -> Unit]
  BY <1>1, <1>2, <1>3 DEF ext2_rd_block
<1>5. PICK d \in Seq(Unit) : d = databuf' /\ Len(d) = BufSize
  <2>1. databuf' \in Seq(Unit)
    BY <1>4, Sizes
  <2>2. Len(databuf') = BufSize
    BY <1>4, <2>1, Sizes
  <2> QED BY <2>1, <2>2
<1>6. mem' = mem \o d
  BY <1>3, <1>5
<1>7. mem' \in Seq(Unit) /\ Len(mem') = Len(mem) + BufSize /\ Len(mem) \in Nat
  <2>1. mem \o d \in Seq(Unit) /\ Len(mem \o d) = Len(mem) + Len(d) /\ Len(mem) \in Nat
    BY <1>1, ConcatProperties
  <2> QED BY <1>5, <1>6, <2>1
<1>8. \A i \in 1 .. Len(mem) : mem'[i] = mem[i]
  BY <1>1, <1>5, <1>6, Sizes
<1>9. \A u \in 1 .. BufSize : mem'[Len(mem) + u] = d[u]
  BY <1>1, <1>5, <1>6, Sizes
<1> QED BY <1>3, <1>4, <1>5, <1>7, <1>8, <1>9

\* More memory does not undo what is complete.
LEMMA StaysComplete ==
  ASSUME Types, NEW f \in {NoInode} \union Range(vol.inode), Complete(f), vol' = vol,
         mem' = mem \/ \E b \in Nat : Copy(b)
  PROVE  Complete(f)'
<1>1. vol.bs \in {1, 2, 4} /\ Need(f) \in Nat /\ Need(f)' = Need(f) /\ \A m : BlockOf(f, m)' = BlockOf(f, m)
  BY VolFacts, NeedType, FileKept DEF Types
<1>2. Len(mem) \in Nat /\ Len(mem') \in Nat /\ Len(mem') >= Len(mem) /\ \A i \in 1 .. Len(mem) : mem'[i] = mem[i]
  <2>1. CASE mem' = mem
    BY <2>1 DEF Types
  <2>2. CASE \E b \in Nat : Copy(b)
    BY <2>2, CopyAppends, Sizes
  <2> QED BY <2>1, <2>2
<1>3. PICK c \in Nat : c = Need(f)
  BY <1>1
<1>4. PICK z \in Nat : z = c * vol.bs /\ Len(mem) >= z
  BY <1>1, <1>3 DEF Complete
<1>5. ASSUME NEW b \in 1 .. c, NEW u \in 1 .. vol.bs
      PROVE  mem'[(b - 1) * vol.bs + u] = <<BlockOf(f, b), u>>
  <2>1. PICK i \in 1 .. z : i = (b - 1) * vol.bs + u
    BY <1>1, <1>4, IndexIn
  <2>2. mem'[i] = mem[i]
    BY <1>2, <1>4, <2>1
  <2>3. mem[(b - 1) * vol.bs + u] = <<BlockOf(f, b), u>>
    BY <1>3 DEF Complete, Got
  <2> QED BY <2>1, <2>2, <2>3
<1>6. Got(f, c)'
  BY <1>1, <1>5 DEF Got
<1>7. Len(mem') >= c * vol.bs
  BY <1>2, <1>4
<1> QED BY <1>1, <1>3, <1>6, <1>7 DEF Complete, Got

\* A block is copied: one more has been gone through.
LEMMA CopyThrough ==
  ASSUME Types, vol.bs = BufSize, NEW f \in {NoInode} \union Range(vol.inode), NEW c \in Nat, Through(f, c),
         NEW b \in Nat, Copy(b), vol' = vol,
         c < Need(f) => b = BlockOf(f, c + 1) /\ b \notin vol.bad
  PROVE  Through(f, c + 1)'
<1>1. vol.bs \in {1, 2, 4} /\ Need(f) \in Nat /\ Need(f)' = Need(f) /\ \A m : BlockOf(f, m)' = BlockOf(f, m)
  BY VolFacts, NeedType, FileKept DEF Types
<1>2. /\ databuf' = ext2_rd_block(b) /\ Len(mem) \in Nat /\ Len(mem') = Len(mem) + vol.bs
      /\ \A i \in 1 .. Len(mem) : mem'[i] = mem[i]
      /\ \A u \in 1 .. vol.bs : mem'[Len(mem) + u] = databuf'[u]
  BY CopyAppends
<1>3. CASE c >= Need(f)
  <2>1. Complete(f)'
    BY <1>3, StaysComplete DEF Through
  <2>2. ~(c + 1 <= Need(f))
    BY <1>1, <1>3
  <2> QED BY <1>1, <2>1, <2>2 DEF Through
<1>4. CASE c < Need(f)
  <2>1. Len(mem) = c * vol.bs /\ Got(f, c) /\ b = BlockOf(f, c + 1) /\ b \notin vol.bad
    BY <1>1, <1>4 DEF Through
  <2>2. \A u \in 1 .. vol.bs : databuf'[u] = <<b, u>>
    BY <1>1, <1>2, <2>1 DEF ext2_rd_block
  <2>3. Len(mem') = (c + 1) * vol.bs
    <3>1. CASE vol.bs = 1
      BY <3>1, <1>2, <2>1
    <3>2. CASE vol.bs = 2
      BY <3>2, <1>2, <2>1
    <3>3. CASE vol.bs = 4
      BY <3>3, <1>2, <2>1
    <3> QED BY <1>1, <3>1, <3>2, <3>3
  <2>4. ASSUME NEW a \in 1 .. c + 1, NEW u \in 1 .. vol.bs
        PROVE  mem'[(a - 1) * vol.bs + u] = <<BlockOf(f, a), u>>
    <3>1. CASE a \in 1 .. c
      <4>1. PICK i \in 1 .. c * vol.bs : i = (a - 1) * vol.bs + u
        BY <1>1, <3>1, IndexIn
      <4>2. mem'[i] = mem[i]
        BY <1>2, <2>1, <4>1
      <4>3. mem[(a - 1) * vol.bs + u] = <<BlockOf(f, a), u>>
        BY <2>1, <3>1 DEF Got
      <4> QED BY <4>1, <4>2, <4>3
    <3>2. CASE a = c + 1
      <4>1. (a - 1) * vol.bs + u = Len(mem) + u
        BY <2>1, <3>2
      <4> QED BY <1>2, <2>1, <2>2, <3>2, <4>1
    <3> QED BY <3>1, <3>2
  <2>5. Got(f, c + 1)'
    BY <1>1, <2>4 DEF Got
  <2>6. c + 1 >= Need(f) => Need(f) = c + 1
    BY <1>1, <1>4
  <2>7. c + 1 >= Need(f) => Complete(f)'
    <3>1. CASE Need(f) = c + 1
      <4>1. Need(f)' = c + 1
        BY <1>1, <3>1
      <4>2. Len(mem') >= (c + 1) * vol'.bs
        BY <1>2, <2>3, <1>1
      <4> QED BY <2>5, <4>1, <4>2 DEF Complete, Got
    <3> QED BY <2>6, <3>1
  <2> QED BY <1>1, <2>3, <2>5, <2>7 DEF Through
<1> QED BY <1>1, <1>3, <1>4

\* A block that is not needed is left out.
LEMMA SkipThrough ==
  ASSUME Types, NEW f \in {NoInode} \union Range(vol.inode), NEW c \in Nat, Through(f, c), c >= Need(f),
         mem' = mem, vol' = vol
  PROVE  Through(f, c + 1)'
<1>1. Complete(f)' /\ Need(f) \in Nat /\ Need(f)' = Need(f)
  BY StaysComplete, NeedType, FileKept DEF Through, Types
<1>2. ~(c + 1 <= Need(f))
  BY <1>1
<1> QED BY <1>1, <1>2 DEF Through

\* A file of at most x blocks' size needs no more than x.
LEMMA NeedBound ==
  ASSUME vol \in Volumes, NEW f \in {NoInode} \union Range(vol.inode), NEW x \in Nat, f.size <= x * vol.bs
  PROVE  Need(f) <= x
<1>1. PICK z \in Nat : z = f.size
  BY InodeTypes
<1>2. CASE vol.bs = 1
  BY <1>1, <1>2 DEF Need
<1>3. CASE vol.bs = 2
  BY <1>1, <1>3 DEF Need
<1>4. CASE vol.bs = 4
  BY <1>1, <1>4 DEF Need
<1> QED BY <1>2, <1>3, <1>4, VolFacts

\* A readable file: its blocks, and how many there can be.
LEMMA ReadableFacts ==
  ASSUME vol \in Volumes, NEW f \in {NoInode} \union Range(vol.inode), Readable(f)
  PROVE  /\ f.block[Direct + 2] = 0
         /\ \A m \in 1 .. Need(f) : BlockOf(f, m) # 0 /\ BlockOf(f, m) \notin vol.bad
         /\ f.block[Direct + 1] = 0 => Need(f) <= Direct
         /\ Need(f) <= Direct + PerBlock
<1>1. f.block[Direct + 2] = 0 /\ \A m \in 1 .. Need(f) : BlockOf(f, m) # 0 /\ BlockOf(f, m) \notin vol.bad
  BY DEF Readable, Need
<1>2. f.size \in Nat /\ vol.bs \in {1, 2, 4}
  BY InodeTypes, VolFacts
<1>3. ASSUME f.block[Direct + 1] = 0 PROVE Need(f) <= Direct
  <2>1. PICK z \in Nat : z = Direct * vol.bs
    BY <1>2, Sizes, Product
  <2>2. f.size <= Direct * vol.bs
    BY <1>2, <1>3, <2>1 DEF Readable
  <2> QED BY <2>2, Sizes, NeedBound
<1>4. Need(f) <= Direct + PerBlock
  <2>1. CASE f = NoInode
    <3>1. f.block[Direct + 1] = 0
      BY <2>1, Sizes DEF NoInode
    <3> QED BY <1>3, <3>1, NeedType, Sizes
  <2>2. CASE f # NoInode
    <3>1. f.size <= (Direct + PerBlock) * vol.bs
      BY <1>1, <2>2, VolFacts DEF FilesKept, Range
    <3>2. Direct + PerBlock \in Nat
      BY Sizes
    <3> QED BY <3>1, <3>2, NeedBound
  <2> QED BY <2>1, <2>2
<1> QED BY <1>1, <1>3, <1>4

\* The pointers of an indirect block are block numbers.
LEMMA PointerType ==
  ASSUME vol \in Volumes, NEW f \in {NoInode} \union Range(vol.inode), NEW m \in {Direct + 1, Direct + 2},
         f.block[m] # 0, NEW i \in 1 .. PerBlock
  PROVE  vol.ind[f.block[m]][i] \in Nat
<1>1. f # NoInode
  BY Sizes DEF NoInode
<1>2. f.block[m] \in DOMAIN vol.ind
  BY <1>1, VolFacts DEF FilesKept, Range
<1>3. vol.ind[f.block[m]] \in [1 .. PerBlock -> Nat]
  BY <1>2, VolFacts DEF FilesKept
<1> QED BY <1>3

\* A step of a load leaves alone what was found.
LEMMA LoadFrame ==
  ASSUME Ext2Inv, pc \in {"rd_file", "single", "double"},
         UNCHANGED <<vol, goal, intab, inode_table, item_index, listing>>,
         \/ pc' \in {"rd_file", "single", "double"} /\ answer' = answer
         \/ pc' = "idle" /\ answer' = "loaded"
  PROVE  ScanAt' /\ Listed' /\ ListedSoFar' /\ LoadsWanted'
<1>1. answer = Null
  BY DEF Ext2Inv, Types
<1>2. ScanAt' /\ ListedSoFar'
  BY <1>1, Sizes DEF ScanAt, ListedSoFar
<1>3. Listed'
  BY DEF Ext2Inv, Listed
<1>4. LoadsWanted'
  BY DEF Ext2Inv, LoadsWanted, Loading, Found, Addressable
<1> QED BY <1>2, <1>3, <1>4

\* The direct blocks.
LEMMA DirectInv == ASSUME Ext2Inv, rd_file_direct \/ rd_file_indirect PROVE Ext2Inv'
<1>1. Types /\ LoadTypes /\ LoadedSoFar /\ vol \in Volumes /\ k \in 1 .. Direct + 1
  BY DEF Ext2Inv, Types, TypeOK
<1>2. PICK f \in {NoInode} \union Range(vol.inode) : f = intab
  BY <1>1 DEF Types
<1>3. CASE rd_file_indirect
  <2>1. /\ pc = "rd_file" /\ k > Direct /\ pc' = "single" /\ j' = 1
        /\ UNCHANGED <<vol, goal, intab, inode_table, k, l, item_index, listing, databuf, mem, answer>>
    BY <1>3 DEF rd_file_indirect
  <2>2. Types'
    BY <1>1, <2>1 DEF Types, TypeOK
  <2>3. LoadTypes'
    BY <1>1, <2>1, Sizes DEF LoadTypes
  <2>4. LoadedSoFar'
    <3>1. k - 1 = Direct /\ Direct + 1 - 1 = Direct
      BY <1>1, <2>1, Sizes
    <3> SUFFICES ASSUME vol.bs = BufSize, Readable(f) PROVE Through(intab, Direct + j - 1)'
      BY <1>1, <1>2, <2>1, FileKept, Sizes DEF LoadedSoFar, Types
    <3>2. Through(f, Direct)
      BY <1>1, <1>2, <2>1, <3>1 DEF LoadedSoFar
    <3> QED BY <1>2, <2>1, <3>1, <3>2 DEF Through, Need, Complete, Got, BlockOf
  <2> QED BY <2>1, <2>2, <2>3, <2>4, LoadFrame DEF Ext2Inv
<1>4. CASE rd_file_direct
  <2>1. /\ pc = "rd_file" /\ k <= Direct /\ k' = k + 1
        /\ IF intab.block[k] # 0 THEN Copy(intab.block[k]) ELSE UNCHANGED <<databuf, mem>>
        /\ UNCHANGED <<vol, pc, goal, intab, inode_table, j, l, item_index, listing, answer>>
    BY <1>4 DEF rd_file_direct
  <2>2. k \in 1 .. Direct /\ k - 1 \in Nat
    BY <1>1, <2>1, Sizes
  <2>3. PICK b \in Nat : b = f.block[k]
    <3>1. k \in 1 .. Direct + 2
      BY <2>2, Sizes
    <3> QED BY <1>1, <3>1, InodeTypes
  <2>4. databuf' \in [1 .. BufSize -> Unit] /\ mem' \in Seq(Unit)
    BY <1>1, <1>2, <2>1, <2>3, CopyAppends DEF Types
  <2>5. Types'
    BY <1>1, <2>1, <2>2, <2>4, Sizes DEF Types, TypeOK
  <2>6. LoadTypes'
    BY <1>1, <2>1 DEF LoadTypes
  <2>7. LoadedSoFar'
    <3> SUFFICES ASSUME vol.bs = BufSize, Readable(f) PROVE Through(intab, k - 1)'
      BY <1>1, <1>2, <2>1, FileKept, Sizes DEF LoadedSoFar, Types
    <3>1. PICK c \in Nat : c = k - 1
      BY <2>2
    <3>2. Through(f, c)
      BY <1>1, <1>2, <2>1, <3>1 DEF LoadedSoFar
    <3>3. c < Need(f) => b = BlockOf(f, c + 1) /\ b # 0 /\ b \notin vol.bad
      <4>1. c + 1 = k /\ BlockOf(f, k) = b
        BY <2>2, <2>3, <3>1 DEF BlockOf
      <4>2. c < Need(f) => k \in 1 .. Need(f)
        BY <1>1, <2>2, <3>1, NeedType
      <4> QED BY <1>1, <4>1, <4>2, ReadableFacts
    <3>4. Through(f, c + 1)'
      <4>1. CASE b # 0
        BY <1>1, <1>2, <2>1, <2>3, <3>2, <3>3, <4>1, CopyThrough
      <4>2. CASE b = 0
        <5>1. c >= Need(f) /\ mem' = mem /\ vol' = vol
          BY <1>1, <1>2, <2>1, <2>3, <3>1, <3>3, <4>2, NeedType
        <5> QED BY <1>1, <3>2, <5>1, SkipThrough
      <4> QED BY <4>1, <4>2
    <3>5. k' - 1 = c + 1 /\ intab' = f
      BY <1>2, <2>1, <2>2, <3>1
    <3> QED BY <3>4, <3>5 DEF Through, Need, Complete, Got, BlockOf
  <2> QED BY <2>1, <2>5, <2>6, <2>7, LoadFrame DEF Ext2Inv
<1> QED BY <1>3, <1>4

\* The single indirect block.
LEMMA SingleInv == ASSUME Ext2Inv, rd_file_single PROVE Ext2Inv'
<1>1. Types /\ LoadTypes /\ LoadedSoFar /\ vol \in Volumes
  BY DEF Ext2Inv, Types
<1>2. PICK f \in {NoInode} \union Range(vol.inode) : f = intab
  BY <1>1 DEF Types
<1>3. /\ pc = "single" /\ j \in 1 .. PerBlock + 1
      /\ UNCHANGED <<vol, goal, intab, inode_table, k, item_index, listing, answer>>
  BY <1>1 DEF rd_file_single, LoadTypes
<1>4. PICK c \in Nat : c = Direct + j - 1
  BY <1>3, Sizes
<1>5. CASE f.block[Direct + 1] # 0 /\ j <= PerBlock
  <2>1. Copy(vol.ind[intab.block[Direct + 1]][j]) /\ j' = j + 1 /\ UNCHANGED <<pc, l>>
    BY <1>2, <1>5 DEF rd_file_single
  <2>2. PICK b \in Nat : b = vol.ind[f.block[Direct + 1]][j]
    BY <1>1, <1>3, <1>5, Sizes, PointerType
  <2>3. databuf' \in [1 .. BufSize -> Unit] /\ mem' \in Seq(Unit)
    BY <1>1, <1>2, <2>1, <2>2, CopyAppends
  <2>4. Types'
    BY <1>1, <1>3, <2>1, <2>3 DEF Types, TypeOK
  <2>5. LoadTypes'
    BY <1>1, <1>3, <1>5, <2>1, Sizes DEF LoadTypes
  <2>6. LoadedSoFar'
    <3> SUFFICES ASSUME vol.bs = BufSize, Readable(f) PROVE Through(intab, Direct + j - 1)'
      BY <1>1, <1>2, <1>3, <2>1, FileKept, Sizes DEF LoadedSoFar, Types
    <3>1. Through(f, c)
      BY <1>1, <1>2, <1>3, <1>4 DEF LoadedSoFar
    <3>2. c < Need(f) => b = BlockOf(f, c + 1) /\ b \notin vol.bad
      <4>1. BlockOf(f, c + 1) = b
        <5>1. PICK m \in Nat : m = c + 1
          OBVIOUS
        <5>2. ~(m <= Direct) /\ m - Direct = j
          BY <1>3, <1>4, <5>1, Sizes
        <5>3. BlockOf(f, m) = vol.ind[f.block[Direct + 1]][m - Direct]
          BY <5>2 DEF BlockOf
        <5> QED BY <2>2, <5>1, <5>2, <5>3
      <4>2. c < Need(f) => c + 1 \in 1 .. Need(f)
        BY <1>1, NeedType
      <4> QED BY <1>1, <4>1, <4>2, ReadableFacts
    <3>3. Through(f, c + 1)'
      BY <1>1, <1>2, <1>3, <2>1, <2>2, <3>1, <3>2, CopyThrough
    <3>4. Direct + j' - 1 = c + 1 /\ intab' = f
      BY <1>2, <1>3, <1>4, <2>1, Sizes
    <3> QED BY <3>3, <3>4 DEF Through, Need, Complete, Got, BlockOf
  <2> QED BY <1>3, <2>1, <2>4, <2>5, <2>6, LoadFrame DEF Ext2Inv
<1>6. CASE ~(f.block[Direct + 1] # 0 /\ j <= PerBlock)
  <2>1. pc' = "double" /\ j' = 1 /\ l' = 1 /\ UNCHANGED <<databuf, mem>>
    BY <1>2, <1>6 DEF rd_file_single
  <2>2. Types' /\ LoadTypes'
    BY <1>1, <1>3, <2>1, Sizes DEF Types, TypeOK, LoadTypes
  <2>3. LoadedSoFar'
    <3> SUFFICES ASSUME vol.bs = BufSize, Readable(f) PROVE Complete(intab)'
      BY <1>1, <1>2, <1>3, <2>1, FileKept, Sizes DEF LoadedSoFar, Types
    <3>1. Through(f, c)
      BY <1>1, <1>2, <1>3, <1>4 DEF LoadedSoFar
    <3>2. c >= Need(f)
      BY <1>1, <1>3, <1>4, <1>6, Sizes, NeedType, ReadableFacts
    <3>3. Complete(f)
      BY <3>1, <3>2 DEF Through
    <3> QED BY <1>2, <1>3, <2>1, <3>3 DEF Need, Complete, Got, BlockOf
  <2> QED BY <1>3, <2>1, <2>2, <2>3, LoadFrame DEF Ext2Inv
<1> QED BY <1>5, <1>6

\* The double indirect block.
LEMMA DoubleInv == ASSUME Ext2Inv, rd_file_double PROVE Ext2Inv'
<1>1. Types /\ LoadTypes /\ LoadedSoFar /\ vol \in Volumes /\ l \in 1 .. PerBlock
  BY DEF Ext2Inv, Types, TypeOK
<1>2. PICK f \in {NoInode} \union Range(vol.inode) : f = intab
  BY <1>1 DEF Types
<1>3. /\ pc = "double" /\ j \in 1 .. PerBlock + 1
      /\ UNCHANGED <<vol, goal, intab, inode_table, k, item_index, listing>>
  BY <1>1 DEF rd_file_double, LoadTypes
<1>4. CASE f.block[Direct + 2] # 0 /\ j <= PerBlock
  <2>1. /\ Copy(vol.ind[intab.block[Direct + 2]][j]) /\ UNCHANGED <<pc, answer>>
        /\ IF l < PerBlock THEN l' = l + 1 /\ UNCHANGED j
                           ELSE l' = 1 /\ j' = j + 1
    BY <1>2, <1>4 DEF rd_file_double
  <2>2. PICK b \in Nat : b = vol.ind[f.block[Direct + 2]][j]
    BY <1>1, <1>3, <1>4, Sizes, PointerType
  <2>3. databuf' \in [1 .. BufSize -> Unit] /\ mem' \in Seq(Unit)
    BY <1>1, <1>2, <2>1, <2>2, CopyAppends
  <2>4. l' \in 1 .. PerBlock /\ j' \in 1 .. PerBlock + 1
    BY <1>1, <1>3, <1>4, <2>1, Sizes
  <2>5. Types'
    BY <1>1, <1>3, <2>1, <2>3, <2>4 DEF Types, TypeOK
  <2>6. LoadTypes'
    BY <1>1, <1>3, <2>1, <2>4 DEF LoadTypes
  <2>7. LoadedSoFar'
    <3>1. ~Readable(f)
      BY <1>1, <1>4, ReadableFacts
    <3>2. ~Readable(intab)'
      BY <1>2, <1>3, <3>1 DEF Readable, BlockOf
    <3> QED BY <3>2 DEF LoadedSoFar
  <2> QED BY <1>3, <2>1, <2>5, <2>6, <2>7, LoadFrame DEF Ext2Inv
<1>5. CASE ~(f.block[Direct + 2] # 0 /\ j <= PerBlock)
  <2>1. pc' = "idle" /\ answer' = "loaded" /\ j' = 1 /\ l' = 1 /\ UNCHANGED <<databuf, mem>>
    BY <1>2, <1>5 DEF rd_file_double, Return
  <2>2. Types' /\ LoadTypes'
    BY <1>1, <1>3, <2>1, Sizes DEF Types, TypeOK, LoadTypes
  <2>3. LoadedSoFar'
    <3> SUFFICES ASSUME vol.bs = BufSize, Readable(f) PROVE Complete(intab)'
      BY <1>1, <1>2, <1>3, <2>1, FileKept DEF LoadedSoFar
    <3>1. Complete(f)
      BY <1>1, <1>2, <1>3 DEF LoadedSoFar
    <3> QED BY <1>2, <1>3, <2>1, <3>1 DEF Need, Complete, Got, BlockOf
  <2> QED BY <1>3, <2>1, <2>2, <2>3, LoadFrame DEF Ext2Inv
<1> QED BY <1>4, <1>5

-----------------------------------------------------------------------------
\* Every step keeps the invariant.
LEMMA Ext2Step == ASSUME Ext2Inv, [Next]_vars PROVE Ext2Inv'
<1>1. CASE UNCHANGED vars
  <2>1. UNCHANGED <<vol, pc, goal, intab, inode_table, k, j, l, item_index, listing, databuf, mem, answer>>
    BY <1>1 DEF vars
  <2>2. Types' /\ LoadTypes' /\ Listed'
    BY <2>1 DEF Ext2Inv, Types, TypeOK, LoadTypes, Listed
  <2>3. ScanAt'
    BY <2>1 DEF Ext2Inv, ScanAt, DirBlock
  <2>4. ListedSoFar'
    BY <2>1, DirKept DEF Ext2Inv, ListedSoFar
  <2>5. LoadsWanted'
    BY <2>1 DEF Ext2Inv, LoadsWanted, Loading, Found, Addressable
  <2>6. LoadedSoFar'
    BY <2>1 DEF Ext2Inv, LoadedSoFar, Readable, Through, Need, Complete, Got, BlockOf
  <2> QED BY <2>2, <2>3, <2>4, <2>5, <2>6 DEF Ext2Inv
<1>2. CASE Next
  BY <1>2, CallInv, EntryInv, ScanOnInv, ListedInv, LoadInv, DirectInv, SingleInv, DoubleInv
     DEF Next, Step, rd_dir, rd_file
<1> QED BY <1>1, <1>2

\* The invariant of the driver on every consistent volume, with its types.
THEOREM Ext2Invariant == Spec => []Ext2Inv
<1>1. Ext2Inv /\ [Next]_vars => Ext2Inv'
  BY Ext2Step
<1> QED BY <1>1, InitInv, PTL DEF Spec

\* The listing of a directory of one block is its entries in order, each with
\* its file's size, on every consistent volume (ext2_rd_dir, init_ext2).
THEOREM DirectoriesListed == Spec => []ListingRight
<1>1. Ext2Inv => ListingRight
  <2> SUFFICES ASSUME Ext2Inv, NEW n \in vol.dirs, answer = "listing", OneBlock(n), intab = vol.inode[n]
               PROVE  /\ Len(listing) = Len(OnlyBlock(n).entries)
                      /\ \A m \in DOMAIN OnlyBlock(n).entries : listing[m] = NodeOf(n, m)
    BY DEF ListingRight, NodeOf
  <2>1. pc = "idle" /\ vol \in Volumes /\ listing \in Seq(Node)
    BY Sizes DEF Ext2Inv, Types, TypeOK
  <2>2. Len(listing) = Len(OnlyBlock(n).entries) /\ \A m \in DOMAIN listing : listing[m] = NodeOf(n, m)
    BY <2>1 DEF Ext2Inv, ListedSoFar
  <2>3. DOMAIN OnlyBlock(n).entries = DOMAIN listing
    <3>1. n \in DOMAIN vol.inode /\ vol.inode[n].mode = "dir" /\ vol.inode[n].block[1] # 0 /\ 1 \in 1 .. Direct
      BY <2>1, VolFacts, Sizes DEF OneBlock, Consistent
    <3>2. vol.inode[n].block[1] \in DOMAIN vol.dir
      BY <2>1, <3>1, VolFacts DEF DirsKept
    <3>3. DOMAIN OnlyBlock(n).entries = 1 .. Len(OnlyBlock(n).entries)
      BY <2>1, <3>2, EntryFacts DEF OnlyBlock
    <3>4. DOMAIN listing = 1 .. Len(listing)
      BY <2>1
    <3> QED BY <2>2, <3>3, <3>4
  <2> QED BY <2>2, <2>3
<1> QED BY <1>1, Ext2Invariant, PTL

\* A file of direct and single indirect blocks of the buffer's size is in memory
\* from its first byte on once it is loaded, if the group descriptor was still
\* in its dead frame (ext2_load_file, ext2_rd_block).  Files with a double
\* indirect block are no Readable ones: ext2_rd_file copies the block of
\* pointers itself there.
THEOREM FilesLoaded == Spec => []FileRight
<1>1. Ext2Inv => FileRight
  <2> SUFFICES ASSUME Ext2Inv, NEW f \in Range(vol.inode), answer = "loaded", inode_table = vol.table,
                      vol.bs = BufSize, Wanted(f), Readable(f)
               PROVE  InMemory(f)
    BY DEF FileRight
  <2>1. vol \in Volumes /\ mem \in Seq(Unit) /\ f \in {NoInode} \union Range(vol.inode)
    BY DEF Ext2Inv, Types
  <2>2. f = intab /\ intab.mode = "reg"
    BY DEF Ext2Inv, LoadsWanted, Loading, Wanted
  <2>3. Complete(f)
    BY <2>2 DEF Ext2Inv, LoadedSoFar
  <2>4. vol.bs \in {1, 2, 4} /\ Len(mem) \in Nat
    BY <2>1, VolFacts
  <2>5. PICK z \in Nat : z = f.size
    BY <2>1, InodeTypes
  <2>6. Need(f) * vol.bs >= z
    <3>1. CASE vol.bs = 1
      BY <2>5, <3>1 DEF Need
    <3>2. CASE vol.bs = 2
      BY <2>5, <3>2 DEF Need
    <3>3. CASE vol.bs = 4
      BY <2>5, <3>3 DEF Need
    <3> QED BY <2>4, <3>1, <3>2, <3>3
  <2>7. Len(mem) >= f.size
    <3>1. PICK q \in Nat : q = Need(f) * vol.bs
      BY <2>1, <2>4, NeedType, Product
    <3> QED BY <2>3, <2>4, <2>5, <2>6, <3>1 DEF Complete
  <2>8. ASSUME NEW u \in 1 .. f.size
        PROVE  mem[u] = <<BlockOf(f, (u - 1) \div vol.bs + 1), ((u - 1) % vol.bs) + 1>>
    <3>1. PICK b \in 1 .. Need(f), v \in 1 .. vol.bs :
            b = (u - 1) \div vol.bs + 1 /\ v = ((u - 1) % vol.bs) + 1 /\ (b - 1) * vol.bs + v = u
      <4>1. CASE vol.bs = 1
        BY <2>5, <4>1 DEF Need
      <4>2. CASE vol.bs = 2
        BY <2>5, <4>2 DEF Need
      <4>3. CASE vol.bs = 4
        BY <2>5, <4>3 DEF Need
      <4> QED BY <2>4, <4>1, <4>2, <4>3
    <3> QED BY <2>3, <3>1 DEF Complete, Got
  <2> QED BY <2>7, <2>8 DEF InMemory
<1> QED BY <1>1, Ext2Invariant, PTL
=============================================================================
