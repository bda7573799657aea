------------------------------- MODULE Fat32 --------------------------------
(***************************************************************************)
(* The vfat module, src/fs/vfat_module/fat32.c: the listing of a directory *)
(* with long names, the cluster chain and the loading of a file.           *)
(*                                                                         *)
(* Sectors are numbered from cluster 0, so that those of cluster c are     *)
(* c * spc .. c * spc + spc - 1; the base sectors of the disk in front of  *)
(* it have negative numbers.  A name is the sequence of its parts, one for *)
(* each directory entry it was read from; the sectors of a file are told   *)
(* apart by their numbers.                                                 *)
(***************************************************************************)
EXTENDS Integers, Sequences, FiniteSets

CONSTANTS
  Volumes,      \* the FAT volumes considered
  PerSector,    \* DIRENT_PER_SECTOR
  LongMax,      \* entries of the longest name
  SectorBytes,  \* 512
  LbaSpace,     \* 2^28, the addresses the registers of the drive can hold
  OtherEnds,    \* end-of-chain values besides FAT_EOF_MARKER
  Goals,        \* the names users ask for
  Nil

EOF == 0        \* what fat32_rd_FAT makes of FAT_EOF_MARKER
DISK_READ_ERR == -8

\* An entry of a directory.
EntryOK(e) ==
  /\ e.first \in {"live", "free", "deleted"} /\ e.last \in BOOLEAN
  /\ e.attrib \in {"lfn", "label", "dir", "archive", "plain"}
  /\ e.st_clust \in Nat /\ e.size \in Nat

\* The clusters that have their sectors on the disk.
Clusters(v) == {c \in DOMAIN v.fat \ {0} : c * v.spc + v.spc - 1 <= v.last}

\* A volume.  fat is the table and what lies behind it: fat[c] is what the word
\* for c in sector fat_begin_lba + c / 128 says, for every c whose sector is on
\* the disk.  A chain is some clusters of the volume.
VolumeOK(v) ==
  /\ v.spc \in Nat \ {0} /\ v.last \in Nat /\ v.base \in Nat /\ v.base + v.last < LbaSpace
  /\ DOMAIN v.fat \subseteq Nat /\ v.fat \in [DOMAIN v.fat -> Nat]
  /\ v.chains \subseteq Seq(Clusters(v)) \ {<<>>} /\ v.dirs \subseteq Nat
  /\ \A s \in DOMAIN v.dir, n \in 1 .. PerSector : EntryOK(v.dir[s][n])

ASSUME FatAssumption ==
  /\ PerSector \in Nat \ {0} /\ SectorBytes \in Nat \ {0}
  /\ LongMax \in Nat /\ PerSector <= LongMax
  /\ LbaSpace \in Nat \ {0} /\ OtherEnds \subseteq Nat \ {EOF}
  /\ Nil \notin Goals \union {"listing", "loaded"}
  /\ \A v \in Volumes : VolumeOK(v)

VARIABLES
  vol,          \* the mounted volume, never written
  fat_pc,
  goal,         \* the name to load, Nil for a listing
  current_cluster, \* the directory users are in
  first,        \* fat32_rd_cluster is in its outermost call
  cluster_no, k, i,
  prev,         \* attribute of the last entry in use
  direntry,     \* the sector in the buffer
  list,         \* fat_file_prop: the finished nodes
  head,         \* fat_temp is back at the first node
  size, mem,    \* bytes to load, and the sectors in memory
  returned

fatVars == <<vol, fat_pc, goal, current_cluster, first, cluster_no, k, i, prev, direntry, list, head, size, mem, returned>>

-----------------------------------------------------------------------------
Sector(c, n) == c * vol.spc + n                  \* CLUSTER_TO_LBA
Here == Sector(cluster_no, k)

\* The sector the drive reads for address s: the bits above 27 are lost, so the
\* addresses of a marker taken for a cluster wrap to sectors of the disk.
OnDisk(s) == ((s + vol.base) % LbaSpace) - vol.base
Readable(s) == OnDisk(s) <= vol.last /\ OnDisk(s) \notin vol.bad

\* Entry n, from 0, of sector s.  A sector of no directory holds something that
\* would end a long name.
Stray == [first |-> "live", attrib |-> "plain", part |-> Nil, last |-> TRUE, st_clust |-> 0, size |-> 0]
Entry(s, n) == IF OnDisk(s) \in DOMAIN vol.dir THEN vol.dir[OnDisk(s)][n + 1] ELSE Stray
InUse(e) == e.first = "live"                     \* name[0] is not 0, 0xE5 or 0x20

\* FAT_EOF_MARKER is 0 in fat already; any other end is followed like a cluster.
fat32_rd_FAT(c) ==
  IF c \in DOMAIN vol.fat \ vol.badfat THEN vol.fat[c] ELSE DISK_READ_ERR

FileType(attrib) ==
  IF attrib = "dir" THEN "DIRECTORY" ELSE IF attrib = "archive" THEN "REG_FILE" ELSE "UNKNOWN"

\* The boot sector can be read and has its magic number.
fat32_rd_bootsec == vol.boot

\* The n-th entry Generate_Long_Name looks at: i0 entries of the sector in the
\* buffer, last one first, then the sectors before sector s.
Looked(s0, i0, s, n) ==
  IF n <= i0 THEN Entry(s0, i0 - n)
  ELSE Entry(s - 1 - ((n - i0 - 1) \div PerSector), PerSector - 1 - ((n - i0 - 1) % PerSector))

\* How many entries it reads: up to the one marked last.
LongLen(s0, i0, s) ==
  CHOOSE n \in 1 .. LongMax :
    /\ Looked(s0, i0, s, n).last
    /\ \A h \in 1 .. n - 1 : ~Looked(s0, i0, s, h).last

Generate_Long_Name(s0, i0, s) ==
  [n \in 1 .. LongLen(s0, i0, s) |-> Looked(s0, i0, s, n).part]

\* The sector it leaves in the buffer: the one after the earliest it has read.
LeftInBuffer(s0, i0, s) ==
  LET n == LongLen(s0, i0, s)
  IN IF n <= i0 THEN s0 ELSE s - ((n - i0 - 1) \div PerSector)

FatInit ==
  /\ vol \in Volumes
  /\ fat_pc = "idle" /\ goal = Nil
  /\ current_cluster = 2 /\ first = TRUE /\ cluster_no = 2 /\ k = 0 /\ i = 0
  /\ prev = "none" /\ direntry = 0
  /\ list = <<>> /\ head = TRUE
  /\ size = 0 /\ mem = <<>>
  /\ returned = Nil

-----------------------------------------------------------------------------
\* init_fat32 of the current directory; fat32_rd_bootsec may refuse.
init_fat32(c, name) ==
  /\ fat_pc = "idle"
  /\ goal' = name /\ list' = <<>> /\ mem' = <<>> /\ returned' = Nil
  /\ current_cluster' = c /\ cluster_no' = c /\ first' = TRUE
  /\ k' = 0 /\ i' = 0 /\ prev' = "none"
  /\ IF fat32_rd_bootsec THEN fat_pc' = "sector" /\ head' = FALSE
                 ELSE fat_pc' = "listed" /\ head' = TRUE
  /\ UNCHANGED <<vol, direntry, size>>

\* fat32_rd_cluster ends: an error of the outermost call leaves fat_temp at the
\* empty last node, one of an inner call is not seen.
RdClusterReturn(failed) ==
  /\ fat_pc' = "listed"
  /\ head' = ~(failed /\ first)

\* The next sector of the cluster.
rd_sector ==
  /\ fat_pc = "sector" /\ k < vol.spc
  /\ IF Readable(Here) THEN /\ direntry' = Here /\ fat_pc' = "entry" /\ i' = 0
                                   /\ UNCHANGED head
                              ELSE /\ RdClusterReturn(TRUE)
                                   /\ UNCHANGED <<direntry, i>>
  /\ UNCHANGED <<vol, goal, current_cluster, first, cluster_no, k, prev, list, size, mem, returned>>

\* A node for entry e.
Node(e, name) ==
  [name |-> name, type |-> FileType(e.attrib), size |-> e.size,
   st_clust |-> IF e.st_clust = 0 /\ e.attrib = "dir" THEN 2 ELSE e.st_clust]

Advance ==
  IF i + 1 < PerSector THEN i' = i + 1 /\ UNCHANGED <<k, fat_pc>>
                       ELSE i' = 0 /\ k' = k + 1 /\ fat_pc' = "sector"

\* Mutant: at the head of a sector the one before it is not fetched.
rd_long_Bug ==
  LET e == Entry(direntry, i)
      i0 == IF i = 0 THEN PerSector ELSE i
  IN /\ fat_pc = "entry" /\ e.attrib \notin {"lfn", "label"} /\ prev = "lfn"
     /\ list' = Append(list, Node(e, Generate_Long_Name(direntry, i0, Here)))
     /\ prev' = IF InUse(e) THEN e.attrib ELSE "none"
     /\ Advance
     /\ UNCHANGED <<vol, goal, current_cluster, first, cluster_no, direntry, head, size, mem, returned>>

\* An entry behind a long name.  At the head of a sector the one before is
\* fetched, and the current one again; otherwise Generate_Long_Name does it,
\* one sector only.  Sectors of the cluster read once can be read again.
rd_long ==
  LET e == Entry(direntry, i)
      s0 == IF i = 0 THEN Here - 1 ELSE direntry
      i0 == IF i = 0 THEN PerSector ELSE i
      after == Entry(direntry', i)
  IN /\ fat_pc = "entry" /\ e.attrib \notin {"lfn", "label"} /\ prev = "lfn"
     /\ list' = Append(list, Node(e, Generate_Long_Name(s0, i0, Here)))
     /\ direntry' = IF i = 0 THEN Here ELSE LeftInBuffer(s0, i0, Here)
     /\ prev' = IF InUse(after) THEN after.attrib ELSE "none"
     /\ Advance
     /\ UNCHANGED <<vol, goal, current_cluster, first, cluster_no, head, size, mem, returned>>

\* Any other entry: a part of a long name, a label, one not in use, or one with
\* a short name.
rd_short ==
  LET e == Entry(direntry, i)
  IN /\ fat_pc = "entry" /\ (e.attrib \in {"lfn", "label"} \/ prev # "lfn")
     /\ list' = IF e.attrib \notin {"lfn", "label"} /\ InUse(e)
                THEN Append(list, Node(e, <<e.part>>)) ELSE list
     /\ prev' = IF InUse(e) THEN e.attrib ELSE prev
     /\ Advance
     /\ UNCHANGED <<vol, goal, current_cluster, first, cluster_no, direntry, head, size, mem, returned>>

\* The cluster is done: its successor is listed by a new call, with a new prev.
rd_next_cluster ==
  /\ fat_pc = "sector" /\ k = vol.spc
  /\ LET next == fat32_rd_FAT(cluster_no)
     IN IF next \in {EOF, DISK_READ_ERR}
        THEN /\ RdClusterReturn(next = DISK_READ_ERR)
             /\ UNCHANGED <<first, cluster_no, k, prev>>
        ELSE /\ cluster_no' = next /\ first' = FALSE
             /\ k' = 0 /\ prev' = "none"
             /\ UNCHANGED <<fat_pc, head>>
  /\ UNCHANGED <<vol, goal, current_cluster, i, direntry, list, size, mem, returned>>

-----------------------------------------------------------------------------
Return(value) == fat_pc' = "idle" /\ returned' = value

\* chdir_fat32: the listing is the answer, whatever init_fat32 returned.
chdir_return ==
  /\ fat_pc = "listed" /\ goal = Nil
  /\ Return("listing")
  /\ UNCHANGED <<vol, goal, current_cluster, first, cluster_no, k, i, prev, direntry, list, head, size, mem>>

\* What load_fat32 searches: all nodes, or after an error the last one only.
Searched == IF head THEN list ELSE <<>>

Found(n) ==
  /\ n \in DOMAIN Searched /\ Searched[n].name = goal
  /\ \A m \in 1 .. n - 1 : Searched[m].name # goal

\* load_fat32 without a file to load.
load_refuse ==
  /\ fat_pc = "listed" /\ goal # Nil
  /\ \/ /\ ~\E n \in DOMAIN Searched : Found(n)
        /\ Return("FIL_NOT_FOUND")
     \/ \E n \in DOMAIN Searched :
          /\ Found(n) /\ Searched[n].type = "DIRECTORY"
          /\ Return("NOT_REG_FILE")
  /\ UNCHANGED <<vol, goal, current_cluster, first, cluster_no, k, i, prev, direntry, list, head, size, mem>>

load_fat32 ==
  /\ fat_pc = "listed" /\ goal # Nil
  /\ \E n \in DOMAIN Searched :
       /\ Found(n) /\ Searched[n].type # "DIRECTORY"
       /\ cluster_no' = Searched[n].st_clust /\ size' = Searched[n].size
  /\ k' = 0 /\ fat_pc' = "mmap"
  /\ UNCHANGED <<vol, goal, current_cluster, first, i, prev, direntry, list, head, mem, returned>>

\* C's division of x by y > 0, towards 0.
CDiv(x, y) == IF x >= 0 THEN x \div y ELSE -((-x) \div y)

\* Mutant: the last sector of a file that does not fill it is left out.
LastSector_Bug == CDiv(size, SectorBytes) - 1

\* The last sector fat32_mmap copies from the cluster it is called with.
LastSector == CDiv(size - 1, SectorBytes)

\* Mutant: an unreadable sector is tried again until it can be read.
mmap_sector_Bug ==
  /\ fat_pc = "mmap" /\ k <= LastSector
  /\ IF Readable(Here) THEN mem' = Append(mem, Here) /\ k' = k + 1 ELSE UNCHANGED <<mem, k>>
  /\ UNCHANGED <<vol, fat_pc, goal, current_cluster, first, cluster_no, i, prev, direntry, list, head, size, returned>>

\* One sector of fat32_mmap, with no regard to the end of the cluster.
mmap_sector ==
  /\ fat_pc = "mmap" /\ k <= LastSector
  /\ IF Readable(Here) THEN /\ mem' = Append(mem, Here) /\ k' = k + 1
                                   /\ UNCHANGED <<fat_pc, returned>>
                              ELSE /\ Return("loaded")
                                   /\ UNCHANGED <<mem, k>>
  /\ UNCHANGED <<vol, goal, current_cluster, first, cluster_no, i, prev, direntry, list, head, size>>

\* The next cluster of the chain, a sector less to go; errors are not seen.
mmap_next ==
  /\ fat_pc = "mmap" /\ k > LastSector
  /\ LET next == fat32_rd_FAT(cluster_no)
     IN IF next \in {EOF, DISK_READ_ERR}
        THEN Return("loaded") /\ UNCHANGED <<cluster_no, size, k>>
        ELSE /\ cluster_no' = next /\ size' = size - SectorBytes /\ k' = 0
             /\ UNCHANGED <<fat_pc, returned>>
  /\ UNCHANGED <<vol, goal, current_cluster, first, i, prev, direntry, list, head, mem>>

rd_cluster == rd_sector \/ rd_long \/ rd_short \/ rd_next_cluster
mmap == mmap_sector \/ mmap_next
Step == rd_cluster \/ chdir_return \/ load_refuse \/ load_fat32 \/ mmap

FatNext == Step \/ \E c \in vol.dirs, name \in Goals \union {Nil} : init_fat32(c, name)

\* One thread with interrupts off: a call that can take a step takes it.
FatSpec == FatInit /\ [][FatNext]_fatVars /\ WF_fatVars(Step)

-----------------------------------------------------------------------------
\* Every variable has its type: the counters stay in the cluster and the buffer
\* of the directory scan.
FatTypeOK ==
  /\ fat_pc \in {"idle", "sector", "entry", "listed", "mmap"}
  /\ goal \in Goals \union {Nil}
  /\ {first, head} \subseteq BOOLEAN
  /\ fat_pc \in {"sector", "entry"} => k \in 0 .. vol.spc /\ cluster_no \in Nat \ {0}
  /\ fat_pc = "entry" => Readable(direntry)
  /\ i \in 0 .. PerSector - 1 /\ size \in Int
  /\ prev \in {"none", "lfn", "label", "dir", "archive", "plain"}
  /\ returned \in {Nil, "listing", "FIL_NOT_FOUND", "NOT_REG_FILE", "loaded"}

\* The clusters of chain c in order, c first; the last one is marked as such.
IsChain(s, c) ==
  /\ s[1] = c
  /\ \A n \in DOMAIN s : s[n] \in DOMAIN vol.fat
  /\ \A n \in 1 .. Len(s) - 1 : vol.fat[s[n]] = s[n + 1]
  /\ vol.fat[s[Len(s)]] \in OtherEnds \union {EOF}
Chain(c) == CHOOSE s \in vol.chains : IsChain(s, c)
SectorsOf(c) == [n \in 1 .. Len(Chain(c)) * vol.spc |->
                   Sector(Chain(c)[((n - 1) \div vol.spc) + 1], (n - 1) % vol.spc)]
Intact(c) ==
  /\ \E s \in vol.chains : IsChain(s, c)
  /\ \A n \in DOMAIN Chain(c) : Chain(c)[n] \notin vol.badfat
  /\ \A n \in DOMAIN SectorsOf(c) : Readable(SectorsOf(c)[n])

\* The entries of directory c as one sequence.
Entries(c) == [n \in 1 .. Len(SectorsOf(c)) * PerSector |->
                 Entry(SectorsOf(c)[((n - 1) \div PerSector) + 1], (n - 1) % PerSector)]

\* The entries in use that are files or directories, by position.
Members(c) == {n \in DOMAIN Entries(c) : InUse(Entries(c)[n]) /\ Entries(c)[n].attrib \notin {"lfn", "label"}}

\* Where the long name of the entry at n begins, or n if it has none.
LongFrom(c, n) ==
  LET E == Entries(c)
      before == {h \in 1 .. n - 1 : /\ InUse(E[h]) /\ E[h].attrib = "lfn" /\ E[h].last
                                    /\ \A g \in h + 1 .. n - 1 : InUse(E[g]) /\ E[g].attrib = "lfn" /\ ~E[g].last}
  IN IF before = {} THEN n ELSE CHOOSE h \in before : TRUE

\* The name of the entry at n: the parts of its long name, which are stored
\* last part first, or its short one.
NameOf(c, n) ==
  IF LongFrom(c, n) = n THEN <<Entries(c)[n].part>>
  ELSE [h \in 1 .. n - LongFrom(c, n) |-> Entries(c)[n - h].part]

\* A directory as Windows writes it, with every long name and its entry in one
\* cluster and no long name of more entries than a sector has.
WellFormed(c) ==
  LET E == Entries(c)
      Part(n) == InUse(E[n]) /\ E[n].attrib = "lfn"
  IN /\ \A n \in DOMAIN E : Part(n) => n + 1 \in DOMAIN E /\ InUse(E[n + 1]) /\ (Part(n + 1) => ~E[n + 1].last)
                                       /\ E[n + 1].attrib # "label"
     /\ \A n \in DOMAIN E : Part(n) /\ ~E[n].last => n > 1 /\ Part(n - 1)
     /\ \A n \in Members(c) : n - LongFrom(c, n) <= PerSector
     /\ \A n \in Members(c) : (n - 1) \div (PerSector * vol.spc) = (LongFrom(c, n) - 1) \div (PerSector * vol.spc)

\* The chain of c ends in the marker that fat32_rd_FAT knows.
EndKnown(c) == vol.fat[Chain(c)[Len(Chain(c))]] = EOF

\* "Reads any cluster of the FAT32 FS": the listing of an intact directory is
\* its entries in use, in order, each under its long name if it has one,
\* wherever the sectors and clusters of the directory divide it.  The chain of
\* the directory ends in FAT_EOF_MARKER; behind another end the scan goes on in
\* sectors that do not belong to the directory.
ListingRight ==
  LET c == current_cluster
      rank(n) == Cardinality({m \in Members(c) : m <= n})
  IN returned = "listing" /\ vol.boot /\ Intact(c) /\ EndKnown(c) /\ WellFormed(c) =>
       /\ Len(list) = Cardinality(Members(c))
       /\ \A n \in Members(c) : list[rank(n)] = Node(Entries(c)[n], NameOf(c, n))

\* Memory begins with the sectors of file f.
InMemory(f) ==
  \A n \in 1 .. (f.size + SectorBytes - 1) \div SectorBytes :
    n <= Len(mem) /\ mem[n] = SectorsOf(f.st_clust)[n]

\* A file whose clusters can all be read and hold as much as its size says.
Whole(f) ==
  /\ Intact(f.st_clust)
  /\ f.size <= Len(SectorsOf(f.st_clust)) * SectorBytes

Contiguous(c) == \A n \in 1 .. Len(Chain(c)) - 1 : Chain(c)[n + 1] = Chain(c)[n] + 1

\* "Loads the contents of the file to any specified memory address": a file in
\* consecutive clusters is in memory from its first byte on once it is loaded,
\* though every cluster of it is copied as if the rest of the file followed,
\* and though its chain may end in a marker that is followed.
FileRight ==
  \A n \in DOMAIN Searched :
    returned = "loaded" /\ Found(n) /\ Whole(Searched[n]) /\ Contiguous(Searched[n].st_clust)
      => InMemory(Searched[n])

\* The same wherever the clusters of the file are.
FileLoaded ==
  \A n \in DOMAIN Searched :
    returned = "loaded" /\ Found(n) /\ Whole(Searched[n]) => InMemory(Searched[n])

\* Following the table comes to an end from everywhere.
NoLoops ==
  ~\E S \in SUBSET (DOMAIN vol.fat \ ({0} \union vol.badfat)) : S # {} /\ \A c \in S : vol.fat[c] \in S

\* Every listing and every loading ends, whatever sectors cannot be read and
\* whatever ends the chains, unless the table, or what lies behind it where the
\* code takes a marker for a cluster, leads in a circle.
CallsReturn == (fat_pc # "idle" /\ NoLoops) ~> (fat_pc = "idle")
=============================================================================
