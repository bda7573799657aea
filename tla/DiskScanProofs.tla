--------------------------- MODULE DiskScanProofs ---------------------------
(***************************************************************************)
(* The partition scan on every set of disks, sound or damaged: its types,  *)
(* that nothing enters the list but entries of signed sectors, that no     *)
(* boot sector enters it twice, and that it has all that is on the drives. *)
(***************************************************************************)
EXTENDS DiskScan, TLAPS

\* What the heap holds where a sector structure is put does not pass for one.
StaleUnsigned == \A s \in Stale : ~s.signed

\* The inductive invariant of the types: between read_mbr and the end of a
\* drive's scan there is a drive.
ScanInv ==
  /\ TypeOK
  /\ disk \in Disks
  /\ pc \in {"primary", "extended", "get_boot_sector"} => drive <= Drives

\* What SavedFromSigned needs besides: a signed MBR that is traversed is the one
\* of the drive.
MbrOfDrive ==
  pc = "primary" /\ bslist.signed => Readable(drive, 0) /\ disk[drive][0] = bslist

\* What the constants give for a drive of the disks.
LEMMA DiskFacts ==
  ASSUME disk \in Disks, NEW d \in 1 .. Drives, NEW l \in Nat
  PROVE  Fetch(d, l) \subseteq Sector /\ (Readable(d, l) => Fetch(d, l) = {disk[d][l]} /\ disk[d][l] \in Sector)
<1>1. Stale \subseteq Sector
  BY DiskAssumption
<1>2. Readable(d, l) => disk[d][l] \in Sector
  BY DiskAssumption DEF Readable
<1> QED BY <1>1, <1>2 DEF Fetch

\* Drives and Slots are numbers.
LEMMA Counts == Drives \in Nat /\ Slots \in Nat /\ Slots >= 2
  BY DiskAssumption

\* Appending a node of the right type keeps the list's type.
LEMMA SaveType ==
  ASSUME TypeOK, NEW e \in Entry, NEW from \in Nat, save_part_props(e, from)
  PROVE  partition' \in Seq(Node) /\ current_lba' \in Nat
<1>1. PICK byte \in StaleByte :
        /\ partition' = Append(partition,
             [name |-> Len(partition) + 1,
              type_byte |-> IF e.type \in Linux \union Fat THEN e.type ELSE byte,
              st_lba |-> from + e.start_lba,
              drive |-> drive, entry |-> e, from |-> from])
        /\ current_lba' = IF e.type \in Linux THEN from + e.start_lba ELSE current_lba
  BY DEF save_part_props
<1>2. byte \in Types
  BY DiskAssumption
<1>3. e.start_lba \in Nat /\ e.type \in Types
  BY DEF Entry
<1>4. /\ partition \in Seq(Node) /\ current_lba \in Nat /\ drive \in Nat /\ Len(partition) \in Nat
  BY Counts DEF TypeOK
<1>5. [name |-> Len(partition) + 1,
       type_byte |-> IF e.type \in Linux \union Fat THEN e.type ELSE byte,
       st_lba |-> from + e.start_lba,
       drive |-> drive, entry |-> e, from |-> from] \in Node
  BY <1>2, <1>3, <1>4 DEF Node
<1> QED BY <1>1, <1>3, <1>4, <1>5

\* An entry of a sector is an entry.
LEMMA EntryOf ==
  ASSUME NEW s \in Sector, NEW j \in 1 .. Slots
  PROVE  s.part[j] \in Entry /\ s.part[j].start_lba \in Nat /\ s.signed \in BOOLEAN
  BY DEF Sector, Entry

\* Initially nothing has been read.
LEMMA InitScan == Init => ScanInv
<1> SUFFICES ASSUME Init PROVE ScanInv
  OBVIOUS
<1>1. DOMAIN disk = 1 .. Drives /\ bslist \in Sector
  BY DiskAssumption DEF Init
<1> QED BY <1>1, Counts DEF Init, ScanInv, TypeOK

\* Every step keeps the invariant.
LEMMA ScanStep == ASSUME ScanInv, [Next]_vars PROVE ScanInv'
<1>1. /\ DOMAIN disk = 1 .. Drives /\ drive \in 1 .. Drives + 1 /\ bslist \in Sector /\ temp \in Sector
      /\ k \in 1 .. Slots + 1 /\ lba \in Nat /\ extlba \in Nat /\ partition \in Seq(Node)
      /\ current_lba \in Nat /\ disk \in Disks
      /\ pc \in {"read_disk_partitions", "primary", "extended", "get_boot_sector", "shell"}
  BY DEF ScanInv, TypeOK
<1>2. CASE read_mbr
  <2>1. drive \in 1 .. Drives
    BY <1>1, <1>2, Counts DEF read_mbr
  <2>2. /\ bslist' \in Fetch(drive, 0) /\ k' = 1 /\ pc' = "primary" /\ disk' = disk /\ drive' = drive
        /\ temp' = temp /\ lba' = lba /\ extlba' = extlba /\ partition' = partition
        /\ current_lba' = current_lba
    BY <1>2 DEF read_mbr
  <2>3. bslist' \in Sector
    BY <2>1, <2>2, <1>1, DiskFacts
  <2> QED BY <1>1, <2>1, <2>2, <2>3, Counts DEF ScanInv, TypeOK
<1>3. CASE traverse_primary_partitions
  <2>1. /\ k \in 1 .. Slots /\ save_part_props(bslist.part[k], 0) /\ k' = k + 1 /\ pc = "primary"
        /\ UNCHANGED <<disk, drive, pc, bslist, temp, lba, extlba>>
    BY <1>1, <1>3, Counts DEF traverse_primary_partitions
  <2>2. bslist.part[k] \in Entry
    BY <2>1, <1>1, EntryOf
  <2>3. partition' \in Seq(Node) /\ current_lba' \in Nat
    BY <2>1, <2>2, SaveType DEF ScanInv
  <2> QED BY <1>1, <2>1, <2>3, Counts DEF ScanInv, TypeOK
<1>4. CASE traverse_extended_partitions
  BY <1>1, <1>4, Counts DEF traverse_extended_partitions, ScanInv, TypeOK
<1>5. CASE check_if_extended
  <2>1. k \in 1 .. Slots
    BY <1>1, <1>5, Counts DEF check_if_extended
  <2>2. temp.part[k].start_lba \in Nat
    BY <2>1, <1>1, EntryOf
  <2> QED BY <1>1, <1>5, <2>1, <2>2, Counts DEF check_if_extended, ScanInv, TypeOK
<1>6. CASE get_boot_sector
  <2>1. drive \in 1 .. Drives
    BY <1>1, <1>6, Counts DEF get_boot_sector, ScanInv
  <2>2. temp' \in Sector
    BY <2>1, <1>1, <1>6, DiskFacts DEF get_boot_sector
  <2>3. temp'.part[1] \in Entry /\ temp'.part[2].start_lba \in Nat
    BY <2>2, EntryOf, Counts
  <2>4. UNCHANGED <<disk, drive, bslist, k, extlba>>
    BY <1>6 DEF get_boot_sector
  <2>5. CASE Readable(drive, lba) /\ temp'.signed
    <3>1. /\ save_part_props(temp'.part[1], lba)
          /\ IF temp'.part[2].type # "unknown"
             THEN lba' = temp'.part[2].start_lba + extlba /\ UNCHANGED pc
             ELSE pc' = "extended" /\ UNCHANGED lba
      BY <2>5, <1>6 DEF get_boot_sector
    <3>2. partition' \in Seq(Node) /\ current_lba' \in Nat
      BY <3>1, <2>3, <1>1, SaveType DEF ScanInv
    <3>3. lba' \in Nat /\ pc' \in {pc, "extended"}
      BY <3>1, <2>3, <1>1
    <3> QED BY <1>1, <2>1, <2>2, <2>4, <3>2, <3>3, Counts DEF ScanInv, TypeOK
  <2>6. CASE ~(Readable(drive, lba) /\ temp'.signed)
    <3>1. pc' = "extended" /\ UNCHANGED <<lba, partition, current_lba>>
      BY <2>6, <1>6 DEF get_boot_sector
    <3> QED BY <1>1, <2>1, <2>2, <2>4, <3>1, Counts DEF ScanInv, TypeOK
  <2> QED BY <2>5, <2>6
<1>7. CASE next_drive
  BY <1>1, <1>7, Counts DEF next_drive, ScanInv, TypeOK
<1>8. CASE shell_main
  BY <1>1, <1>8, Counts DEF shell_main, ScanInv, TypeOK
<1>9. CASE UNCHANGED vars
  BY <1>1, <1>9 DEF vars, ScanInv, TypeOK
<1> QED BY <1>2, <1>3, <1>4, <1>5, <1>6, <1>7, <1>8, <1>9 DEF Next, Step, Stay

\* The scan's types hold for every number of drives, table size and disk.
THEOREM ScanTypes == Spec => []TypeOK
<1>1. ScanInv => TypeOK
  BY DEF ScanInv
<1> QED BY <1>1, InitScan, ScanStep, PTL DEF Spec

-----------------------------------------------------------------------------
\* A node saved for an entry of a signed sector of the drive keeps the list
\* right.
LEMMA SaveSigned ==
  ASSUME ScanInv, SavedFromSigned, NEW from \in Nat, NEW j \in 1 .. Slots, NEW s \in Sector,
         Readable(drive, from), disk[drive][from] = s, s.signed,
         save_part_props(s.part[j], from), disk' = disk
  PROVE  SavedFromSigned'
<1> DEFINE e == s.part[j]
<1>1. PICK byte \in StaleByte : partition' = Append(partition,
             [name |-> Len(partition) + 1,
              type_byte |-> IF e.type \in Linux \union Fat THEN e.type ELSE byte,
              st_lba |-> from + e.start_lba,
              drive |-> drive, entry |-> e, from |-> from])
  BY DEF save_part_props
<1>2. partition \in Seq(Node) /\ Len(partition) \in Nat /\ DOMAIN partition = 1 .. Len(partition)
  BY DEF ScanInv, TypeOK
<1>3. DOMAIN partition' = 1 .. Len(partition) + 1
  BY <1>1, <1>2
<1>4. ASSUME NEW n \in DOMAIN partition'
      PROVE  /\ Readable(partition'[n].drive, partition'[n].from)
             /\ disk[partition'[n].drive][partition'[n].from].signed
             /\ \E i \in 1 .. Slots :
                  disk[partition'[n].drive][partition'[n].from].part[i] = partition'[n].entry
  <2>1. CASE n \in DOMAIN partition
    <3>1. partition'[n] = partition[n]
      BY <1>1, <1>2, <2>1
    <3> QED BY <3>1, <2>1 DEF SavedFromSigned
  <2>2. CASE n = Len(partition) + 1
    <3>1. partition'[n].drive = drive /\ partition'[n].from = from /\ partition'[n].entry = e
      BY <1>1, <1>2, <2>2
    <3> QED BY <3>1
  <2>3. n \in 1 .. Len(partition) \/ n = Len(partition) + 1
    BY <1>2, <1>3
  <2> QED BY <1>2, <2>1, <2>2, <2>3
<1> QED BY <1>4 DEF SavedFromSigned, Readable

\* Every step keeps the list's provenance.
LEMMA SignedStep ==
  ASSUME StaleUnsigned, ScanInv, MbrOfDrive, SavedFromSigned, [Next]_vars
  PROVE  MbrOfDrive' /\ SavedFromSigned'
<1>1. /\ drive \in 1 .. Drives + 1 /\ bslist \in Sector /\ temp \in Sector
      /\ k \in 1 .. Slots + 1 /\ lba \in Nat /\ disk \in Disks
  BY DEF ScanInv, TypeOK
<1>2. CASE read_mbr
  <2>1. /\ drive \in 1 .. Drives /\ bslist' \in Fetch(drive, 0) /\ disk' = disk /\ drive' = drive
        /\ partition' = partition
    BY <1>1, <1>2, Counts DEF read_mbr
  <2>2. bslist'.signed => Readable(drive, 0) /\ disk[drive][0] = bslist'
    BY <2>1 DEF Fetch, StaleUnsigned
  <2>3. MbrOfDrive'
    BY <2>1, <2>2 DEF MbrOfDrive, Readable
  <2>4. SavedFromSigned'
    BY <2>1 DEF SavedFromSigned, Readable
  <2> QED BY <2>3, <2>4
<1>3. CASE traverse_primary_partitions
  <2>1. /\ k \in 1 .. Slots /\ save_part_props(bslist.part[k], 0) /\ pc = "primary" /\ bslist.signed
        /\ UNCHANGED <<disk, drive, pc, bslist>>
    BY <1>1, <1>3, Counts DEF traverse_primary_partitions
  <2>2. Readable(drive, 0) /\ disk[drive][0] = bslist
    BY <2>1 DEF MbrOfDrive
  <2>3. SavedFromSigned'
    BY <2>1, <2>2, <1>1, SaveSigned
  <2>4. MbrOfDrive'
    BY <2>1, <2>2 DEF MbrOfDrive, Readable
  <2> QED BY <2>3, <2>4
<1>4. CASE get_boot_sector
  <2>1. /\ temp' \in Fetch(drive, lba) /\ pc = "get_boot_sector" /\ disk' = disk
        /\ drive \in 1 .. Drives /\ pc' \in {pc, "extended"}
    BY <1>1, <1>4, Counts DEF get_boot_sector, ScanInv
  <2>2. MbrOfDrive'
    BY <2>1 DEF MbrOfDrive
  <2>3. CASE Readable(drive, lba) /\ temp'.signed
    <3>1. disk[drive][lba] = temp' /\ temp' \in Sector
      BY <2>1, <2>3, <1>1, DiskFacts
    <3>2. save_part_props(temp'.part[1], lba)
      BY <2>3, <1>4 DEF get_boot_sector
    <3>3. PICK s \in Sector : s = temp'
      BY <3>1
    <3> QED BY <2>1, <2>2, <2>3, <3>1, <3>2, <3>3, <1>1, SaveSigned, Counts
  <2>4. CASE ~(Readable(drive, lba) /\ temp'.signed)
    <3>1. partition' = partition
      BY <2>4, <1>4 DEF get_boot_sector
    <3>2. SavedFromSigned'
      BY <3>1, <2>1 DEF SavedFromSigned, Readable
    <3> QED BY <3>2, <2>2
  <2> QED BY <2>3, <2>4
<1>5. CASE traverse_extended_partitions \/ check_if_extended \/ next_drive \/ shell_main
  <2>1. disk' = disk /\ partition' = partition /\ pc' # "primary"
    BY <1>5 DEF traverse_extended_partitions, check_if_extended, next_drive, shell_main
  <2> QED BY <2>1 DEF MbrOfDrive, SavedFromSigned, Readable
<1>6. CASE UNCHANGED vars
  BY <1>6 DEF vars, MbrOfDrive, SavedFromSigned, Readable
<1> QED BY <1>2, <1>3, <1>4, <1>5, <1>6 DEF Next, Step, Stay

\* When the heap holds nothing that passes for a boot sector, a partition of the
\* list was read from a sector of its drive with the signature.
THEOREM ListFromSigned == ASSUME StaleUnsigned PROVE Spec => []SavedFromSigned
<1>1. Init => MbrOfDrive /\ SavedFromSigned
  BY DEF Init, MbrOfDrive, SavedFromSigned
<1>2. ScanInv /\ MbrOfDrive /\ SavedFromSigned /\ [Next]_vars => MbrOfDrive' /\ SavedFromSigned'
  BY SignedStep
<1> QED BY <1>1, <1>2, InitScan, ScanStep, PTL DEF Spec

-----------------------------------------------------------------------------
\* The sector of a drive content c that read_sector can return.
Holds(c, l) == l \in DOMAIN c /\ c[l] # Unreadable

\* Entry j of sector l is one the scan can take for an extended partition: one of
\* the MBR, one behind the link, or the link of a sector without signature.
Looked(c, l, j) ==
  /\ Holds(c, l) /\ j \in 1 .. Slots
  /\ c[l].part[j].type \in Extended
  /\ l = 0 \/ j >= 3 \/ (j = 2 /\ ~c[l].signed)

\* Entry j of sector l leads up the drive: to a later sector, or to a sector
\* that is not saved.
LeadsUp(c, l, j) ==
  LET s == c[l].part[j].start_lba
  IN s > 0 /\ s >= l /\ (s = l => ~c[l].signed)

\* A drive whose chains of boot sectors go up the drive, as partitioning tools
\* leave them, damaged or not: what an MBR with an extended partition leads to
\* never leads back.
Upward(c) ==
  (\E j \in 1 .. Slots : Looked(c, 0, j)) =>
    /\ \A l \in DOMAIN c, j \in 1 .. Slots : Looked(c, l, j) => LeadsUp(c, l, j)
    /\ \A l \in DOMAIN c, m \in DOMAIN c, j \in 1 .. Slots :
         /\ l # 0 /\ Holds(c, l) /\ c[l].signed /\ c[l].part[2].type # "unknown"
         /\ Looked(c, m, j)
         => c[l].part[2].start_lba + c[m].part[j].start_lba > l

UpwardDisks == \A dk \in Disks : \A d \in 1 .. Drives : Upward(dk[d])

\* What the heap holds has no extended entry.
StalePlain == \A s \in Stale : \A j \in 1 .. Slots : s.part[j].type \notin Extended

\* The nodes of the drive that is scanned come from sectors before l, or from l
\* if it is the one that was saved last.
SavedBefore(l) == \A n \in DOMAIN partition : partition[n].drive = drive => partition[n].from < l
SavedUpTo(l) ==
  \A n \in DOMAIN partition :
    partition[n].drive = drive =>
      /\ partition[n].from <= l
      /\ partition[n].from = l /\ l # 0 => temp.signed

\* temp is what the heap held, or sector l of the drive with nothing saved
\* beyond it; a boot sector with the signature ended its chain.
TempFrom(l) ==
  /\ Readable(drive, l) /\ temp = disk[drive][l]
  /\ SavedUpTo(l)
  /\ l = 0 \/ /\ k >= 2
              /\ temp.signed => temp.part[2].type = "unknown"
              /\ \E j \in 1 .. Slots : Looked(disk[drive], 0, j)

\* The inductive invariant of SavedOnce: the scan climbs each drive.
OnceInv ==
  /\ SavedOnce
  /\ \A n \in DOMAIN partition : partition[n].drive <= drive
  /\ pc \in {"read_disk_partitions", "shell"} => \A n \in DOMAIN partition : partition[n].drive < drive
  /\ pc = "primary" =>
       /\ bslist \in Stale \/ (Readable(drive, 0) /\ bslist = disk[drive][0])
       /\ \A n \in DOMAIN partition : partition[n].drive = drive => partition[n].from = 0
  /\ pc = "extended" => temp \in Stale \/ \E l \in DOMAIN disk[drive] : TempFrom(l)
  /\ pc = "get_boot_sector" =>
       /\ k >= 2 /\ lba > 0
       /\ SavedBefore(lba)
       /\ \E j \in 1 .. Slots : Looked(disk[drive], 0, j)
       /\ \E l \in DOMAIN disk[drive], j \in 1 .. Slots :
            Looked(disk[drive], l, j) /\ extlba = disk[drive][l].part[j].start_lba

\* What save_part_props adds to the list: one node, at its end.
LEMMA SaveAdds ==
  ASSUME TypeOK, NEW e \in Entry, NEW from \in Nat, save_part_props(e, from)
  PROVE  /\ DOMAIN partition' = DOMAIN partition \union {Len(partition) + 1}
         /\ Len(partition) + 1 \notin DOMAIN partition
         /\ \A n \in DOMAIN partition : partition'[n] = partition[n]
         /\ partition'[Len(partition) + 1].drive = drive
         /\ partition'[Len(partition) + 1].entry = e
         /\ partition'[Len(partition) + 1].st_lba = from + e.start_lba
         /\ partition'[Len(partition) + 1].from = from
<1>1. PICK byte \in StaleByte : partition' = Append(partition,
             [name |-> Len(partition) + 1,
              type_byte |-> IF e.type \in Linux \union Fat THEN e.type ELSE byte,
              st_lba |-> from + e.start_lba,
              drive |-> drive, entry |-> e, from |-> from])
  BY DEF save_part_props
<1>2. partition \in Seq(Node) /\ Len(partition) \in Nat /\ DOMAIN partition = 1 .. Len(partition)
  BY DEF TypeOK
<1>3. DOMAIN partition' = 1 .. Len(partition) + 1
  BY <1>1, <1>2
<1>4. \A n \in DOMAIN partition : partition'[n] = partition[n]
  BY <1>1, <1>2
<1>5. partition'[Len(partition) + 1] =
             [name |-> Len(partition) + 1,
              type_byte |-> IF e.type \in Linux \union Fat THEN e.type ELSE byte,
              st_lba |-> from + e.start_lba,
              drive |-> drive, entry |-> e, from |-> from]
  BY <1>1, <1>2
<1>6. 1 .. Len(partition) + 1 = 1 .. Len(partition) \union {Len(partition) + 1}
  BY <1>2
<1> QED BY <1>2, <1>3, <1>4, <1>5, <1>6

\* The fields of a node.
LEMMA NodeFacts ==
  ASSUME TypeOK, NEW n \in DOMAIN partition
  PROVE  partition[n].drive \in Nat /\ partition[n].from \in Nat /\ partition[n].st_lba \in Nat
<1>1. partition[n] \in Node
  BY DEF TypeOK
<1> QED BY <1>1 DEF Node

\* Sectors are numbered, and what can be read of a drive is a sector.
LEMMA DriveFacts ==
  ASSUME disk \in Disks, NEW d \in 1 .. Drives
  PROVE  /\ DOMAIN disk[d] \subseteq Nat
         /\ \A l : Readable(d, l) <=> Holds(disk[d], l)
         /\ \A l : Readable(d, l) => l \in DOMAIN disk[d] /\ disk[d][l] \in Sector
  BY DiskAssumption DEF Readable, Holds

\* A node of a boot sector that lies beyond all saved ones is not on the list yet.
LEMMA SaveBeyond ==
  ASSUME ScanInv, OnceInv, NEW e \in Entry, NEW from \in Nat, save_part_props(e, from),
         from # 0 => SavedBefore(from)
  PROVE  SavedOnce'
<1> DEFINE N == Len(partition) + 1
<1>1. /\ DOMAIN partition' = DOMAIN partition \union {N} /\ N \notin DOMAIN partition
      /\ \A n \in DOMAIN partition : partition'[n] = partition[n]
      /\ partition'[N].drive = drive /\ partition'[N].from = from
  BY SaveAdds DEF ScanInv
<1> HIDE DEF N
<1>2. \A n \in DOMAIN partition : partition[n].from \in Nat
  BY NodeFacts DEF ScanInv
<1>3. \A n \in DOMAIN partition : from # 0 /\ partition[n].drive = drive => partition[n].from # from
  BY <1>2 DEF SavedBefore
<1>4. SUFFICES ASSUME NEW m \in DOMAIN partition', NEW n \in DOMAIN partition',
                      partition'[m].drive = partition'[n].drive,
                      partition'[m].from = partition'[n].from, partition'[m].from # 0
               PROVE  m = n
  BY Zenon DEF SavedOnce
<1>5. CASE m \in DOMAIN partition /\ n \in DOMAIN partition
  BY <1>1, <1>4, <1>5 DEF OnceInv, SavedOnce
<1>6. CASE m = N /\ n \in DOMAIN partition
  BY <1>1, <1>3, <1>4, <1>6
<1>7. CASE m \in DOMAIN partition /\ n = N
  BY <1>1, <1>3, <1>4, <1>7
<1> QED BY <1>1, <1>5, <1>6, <1>7

\* Reading a drive's MBR and saving its entries.
LEMMA OncePrimary ==
  ASSUME ScanInv, OnceInv, read_mbr \/ traverse_primary_partitions
  PROVE  OnceInv'
<1>1. /\ drive \in 1 .. Drives + 1 /\ bslist \in Sector /\ k \in 1 .. Slots + 1 /\ disk \in Disks /\ TypeOK
  BY DEF ScanInv, TypeOK
<1>2. \A n \in DOMAIN partition : partition[n].drive \in Nat
  BY NodeFacts, <1>1
<1>3. CASE read_mbr
  <2>1. /\ drive \in 1 .. Drives /\ bslist' \in Fetch(drive, 0) /\ disk' = disk /\ drive' = drive
        /\ partition' = partition /\ pc' = "primary" /\ pc = "read_disk_partitions"
    BY <1>1, <1>3, Counts DEF read_mbr
  <2>2. bslist' \in Stale \/ (Readable(drive, 0) /\ bslist' = disk[drive][0])
    BY <2>1 DEF Fetch
  <2>3. \A n \in DOMAIN partition : partition[n].drive < drive
    BY <2>1 DEF OnceInv
  <2>4. \A n \in DOMAIN partition : partition[n].drive # drive
    BY <2>3, <1>1, <1>2
  <2>5. SavedOnce'
    BY <2>1 DEF OnceInv, SavedOnce
  <2> QED BY <2>1, <2>2, <2>4, <2>5 DEF OnceInv, Readable
<1>4. CASE traverse_primary_partitions
  <2>1. /\ k \in 1 .. Slots /\ save_part_props(bslist.part[k], 0) /\ pc = "primary"
        /\ UNCHANGED <<disk, drive, pc, bslist>>
    BY <1>1, <1>4, Counts DEF traverse_primary_partitions
  <2>2. PICK e \in Entry : e = bslist.part[k]
    BY <2>1, <1>1, EntryOf
  <2>3. SavedOnce'
    BY <2>1, <2>2, SaveBeyond
  <2>4. /\ DOMAIN partition' = DOMAIN partition \union {Len(partition) + 1}
        /\ \A n \in DOMAIN partition : partition'[n] = partition[n]
        /\ partition'[Len(partition) + 1].drive = drive /\ partition'[Len(partition) + 1].from = 0
    BY <2>1, <2>2, <1>1, SaveAdds
  <2>5. \A n \in DOMAIN partition' :
          partition'[n].drive <= drive /\ (partition'[n].drive = drive => partition'[n].from = 0)
    BY <2>1, <2>4, <1>1 DEF OnceInv
  <2>6. bslist \in Stale \/ (Readable(drive, 0) /\ bslist = disk[drive][0])
    BY <2>1 DEF OnceInv
  <2> QED BY <2>1, <2>3, <2>5, <2>6 DEF OnceInv, Readable
<1> QED BY <1>3, <1>4
\* Going over to the extended partitions, of the MBR first.
LEMMA OnceExtended ==
  ASSUME UpwardDisks, StalePlain, ScanInv, OnceInv, traverse_extended_partitions \/ check_if_extended
  PROVE  OnceInv'
<1>1. /\ drive \in 1 .. Drives + 1 /\ k \in 1 .. Slots + 1 /\ disk \in Disks /\ TypeOK /\ temp \in Sector
  BY DEF ScanInv, TypeOK
<1>2. drive \in 1 .. Drives /\ disk' = disk /\ drive' = drive /\ partition' = partition
  BY <1>1, Counts DEF ScanInv, traverse_extended_partitions, check_if_extended
<1>3. SavedOnce' /\ \A n \in DOMAIN partition' : partition'[n].drive <= drive'
  BY <1>2 DEF OnceInv, SavedOnce
<1>4. DOMAIN disk[drive] \subseteq Nat /\ \A l : Readable(drive, l) <=> Holds(disk[drive], l)
  BY <1>1, <1>2, DriveFacts
<1>5. \A n \in DOMAIN partition : partition[n].from \in Nat
  BY NodeFacts, <1>1
<1>6. CASE traverse_extended_partitions
  <2>1. temp' = bslist /\ k' = 1 /\ pc = "primary" /\ pc' = "extended"
    BY <1>6 DEF traverse_extended_partitions
  <2>2. CASE bslist \in Stale
    BY <2>1, <2>2, <1>3 DEF OnceInv
  <2>3. CASE Readable(drive, 0) /\ bslist = disk[drive][0]
    <3>1. \A n \in DOMAIN partition : partition[n].drive = drive => partition[n].from = 0
      BY <2>1 DEF OnceInv
    <3>2. TempFrom(0)'
      BY <2>1, <2>3, <1>2, <3>1 DEF TempFrom, SavedUpTo, Readable
    <3>3. 0 \in DOMAIN disk'[drive']
      BY <2>3, <1>2 DEF Readable
    <3> QED BY <3>2, <3>3, <2>1, <1>3 DEF OnceInv
  <2> QED BY <2>1, <2>2, <2>3 DEF OnceInv
<1>7. CASE check_if_extended /\ temp.part[k].type \notin Extended
  <2>1. pc = "extended" /\ pc' = pc /\ k' = k + 1 /\ temp' = temp
    BY <1>7 DEF check_if_extended
  <2>2. CASE temp \in Stale
    BY <2>1, <2>2, <1>3 DEF OnceInv
  <2>3. ASSUME NEW l \in DOMAIN disk[drive], TempFrom(l)
        PROVE  TempFrom(l)'
    BY <2>1, <2>3, <1>1, <1>2 DEF TempFrom, SavedUpTo, Readable
  <2> QED BY <2>1, <2>2, <2>3, <1>2, <1>3 DEF OnceInv
<1>8. CASE check_if_extended /\ temp.part[k].type \in Extended
  <2>1. /\ pc = "extended" /\ pc' = "get_boot_sector" /\ k' = k + 1 /\ k \in 1 .. Slots
        /\ lba' = temp.part[k].start_lba /\ extlba' = temp.part[k].start_lba
    BY <1>8, <1>1, Counts DEF check_if_extended
  <2>2. PICK l \in DOMAIN disk[drive] : TempFrom(l)
    BY <2>1, <1>8 DEF OnceInv, StalePlain
  <2>3. Holds(disk[drive], l) /\ temp = disk[drive][l] /\ SavedUpTo(l) /\ l \in Nat
    BY <2>2, <1>4 DEF TempFrom
  <2>4. l = 0 \/ k >= 3 \/ (k = 2 /\ ~temp.signed)
    <3>1. k # 2 => l = 0 \/ k >= 3
      BY <2>2, <1>1 DEF TempFrom
    <3>2. k = 2 => l = 0 \/ ~temp.signed
      BY <2>2, <1>8 DEF TempFrom, Extended
    <3> QED BY <3>1, <3>2
  <2>5. Looked(disk[drive], l, k)
    BY <2>1, <2>3, <2>4, <1>8 DEF Looked
  <2>6. \E j \in 1 .. Slots : Looked(disk[drive], 0, j)
    BY <2>1, <2>2, <2>5 DEF TempFrom
  <2>7. LeadsUp(disk[drive], l, k)
    BY <2>1, <2>5, <2>6, <1>1, <1>2 DEF UpwardDisks, Upward
  <2>8. lba' > 0 /\ lba' >= l /\ (lba' = l => ~temp.signed) /\ lba' \in Nat
    BY <2>1, <2>3, <2>7, <1>1, EntryOf DEF LeadsUp
  <2>9. \A n \in DOMAIN partition : partition[n].drive = drive => partition[n].from < lba'
    BY <2>3, <2>8, <1>5 DEF SavedUpTo
  <2>10. SavedBefore(lba)'
    BY <2>9, <1>2 DEF SavedBefore
  <2>11. k' >= 2 /\ \E i \in DOMAIN disk[drive], j \in 1 .. Slots :
            Looked(disk[drive], i, j) /\ extlba' = disk[drive][i].part[j].start_lba
    BY <2>1, <2>3, <2>5
  <2> QED BY <2>1, <2>6, <2>8, <2>10, <2>11, <1>2, <1>3 DEF OnceInv
<1> QED BY <1>6, <1>7, <1>8

\* Following the chain: it goes up the drive.
LEMMA OnceChain ==
  ASSUME UpwardDisks, StalePlain, ScanInv, OnceInv, get_boot_sector
  PROVE  OnceInv'
<1>1. /\ drive \in 1 .. Drives + 1 /\ k \in 1 .. Slots + 1 /\ disk \in Disks /\ TypeOK /\ lba \in Nat /\ extlba \in Nat
  BY DEF ScanInv, TypeOK
<1>2. /\ drive \in 1 .. Drives /\ disk' = disk /\ drive' = drive /\ k' = k /\ extlba' = extlba
      /\ temp' \in Fetch(drive, lba) /\ pc = "get_boot_sector"
  BY <1>1, Counts DEF ScanInv, get_boot_sector
<1>3. /\ k >= 2 /\ lba > 0 /\ SavedBefore(lba)
      /\ \E j \in 1 .. Slots : Looked(disk[drive], 0, j)
      /\ \E l \in DOMAIN disk[drive], j \in 1 .. Slots :
            Looked(disk[drive], l, j) /\ extlba = disk[drive][l].part[j].start_lba
  BY <1>2 DEF OnceInv
<1>4. \A n \in DOMAIN partition : partition[n].drive \in Nat /\ partition[n].from \in Nat
  BY NodeFacts, <1>1
<1>5. CASE Readable(drive, lba) /\ temp'.signed
  <2>1. temp' = disk[drive][lba] /\ temp' \in Sector /\ lba \in DOMAIN disk[drive]
    BY <1>1, <1>2, <1>5, DiskFacts DEF Readable
  <2>2. /\ save_part_props(temp'.part[1], lba)
        /\ IF temp'.part[2].type # "unknown"
           THEN lba' = temp'.part[2].start_lba + extlba /\ UNCHANGED pc
           ELSE pc' = "extended" /\ UNCHANGED lba
    BY <1>5 DEF get_boot_sector
  <2>3. PICK e \in Entry : e = temp'.part[1]
    BY <2>1, EntryOf, Counts
  <2>4. SavedOnce'
    BY <2>2, <2>3, <1>1, <1>3, SaveBeyond
  <2>5. /\ DOMAIN partition' = DOMAIN partition \union {Len(partition) + 1}
        /\ \A n \in DOMAIN partition : partition'[n] = partition[n]
        /\ partition'[Len(partition) + 1].drive = drive /\ partition'[Len(partition) + 1].from = lba
    BY <2>2, <2>3, <1>1, SaveAdds
  <2>6. \A n \in DOMAIN partition' :
          partition'[n].drive <= drive /\ (partition'[n].drive = drive => partition'[n].from <= lba)
    BY <2>5, <1>1, <1>3, <1>4 DEF OnceInv, SavedBefore
  <2>7. CASE temp'.part[2].type = "unknown"
    <3>1. TempFrom(lba)'
      BY <2>1, <2>2, <2>6, <2>7, <1>2, <1>3, <1>5 DEF TempFrom, SavedUpTo, Readable
    <3>2. pc' = "extended" /\ lba' \in DOMAIN disk'[drive']
      BY <2>1, <2>2, <2>7, <1>2
    <3> QED BY <3>1, <3>2, <2>4, <2>6, <1>2 DEF OnceInv
  <2>8. CASE temp'.part[2].type # "unknown"
    <3>1. lba' = temp'.part[2].start_lba + extlba /\ pc' = pc
      BY <2>2, <2>8
    <3>2. Holds(disk[drive], lba)
      BY <1>5 DEF Holds, Readable
    <3>3. temp'.part[2].start_lba + extlba > lba
      BY <2>1, <2>8, <3>2, <1>1, <1>2, <1>3, <1>5 DEF UpwardDisks, Upward
    <3>4. lba' > lba /\ lba' \in Nat
      BY <3>1, <3>3, <2>1, <1>1, EntryOf, Counts
    <3>5. \A n \in DOMAIN partition' : partition'[n].from \in Nat
      BY <2>5, <1>1, <1>4
    <3>6. \A n \in DOMAIN partition' : partition'[n].drive = drive => partition'[n].from < lba'
      BY <2>6, <3>4, <3>5, <1>1
    <3>7. SavedBefore(lba)'
      BY <3>6, <1>2 DEF SavedBefore
    <3>8. pc' = "get_boot_sector" /\ lba' > 0 /\ k' >= 2
      BY <3>1, <3>4, <1>1, <1>2, <1>3
    <3>9. /\ \E j \in 1 .. Slots : Looked(disk'[drive'], 0, j)
          /\ \E l \in DOMAIN disk'[drive'], j \in 1 .. Slots :
               Looked(disk'[drive'], l, j) /\ extlba' = disk'[drive'][l].part[j].start_lba
      BY <1>2, <1>3, Zenon
    <3>10. \A n \in DOMAIN partition' : partition'[n].drive <= drive'
      BY <2>6, <1>2, Zenon
    <3> QED BY <3>7, <3>8, <3>9, <3>10, <2>4 DEF OnceInv
  <2> QED BY <2>7, <2>8
<1>6. CASE ~(Readable(drive, lba) /\ temp'.signed)
  <2>1. pc' = "extended" /\ lba' = lba /\ partition' = partition
    BY <1>6 DEF get_boot_sector
  <2>2. SavedOnce' /\ \A n \in DOMAIN partition' : partition'[n].drive <= drive'
    BY <2>1, <1>2 DEF OnceInv, SavedOnce
  <2>3. CASE ~Readable(drive, lba)
    <3>1. temp' \in Stale
      BY <2>3, <1>2 DEF Fetch
    <3> QED BY <3>1, <2>1, <2>2 DEF OnceInv
  <2>4. CASE Readable(drive, lba) /\ ~temp'.signed
    <3>1. temp' = disk[drive][lba] /\ lba \in DOMAIN disk[drive]
      BY <2>4, <1>2 DEF Fetch, Readable
    <3>2. \A n \in DOMAIN partition : partition[n].drive = drive => partition[n].from <= lba /\ partition[n].from # lba
      BY <1>1, <1>3, <1>4 DEF SavedBefore
    <3>3. TempFrom(lba)'
      BY <2>1, <2>4, <3>1, <3>2, <1>2, <1>3 DEF TempFrom, SavedUpTo, Readable
    <3> QED BY <3>1, <3>3, <2>1, <2>2, <1>2 DEF OnceInv
  <2> QED BY <1>6, <2>3, <2>4
<1> QED BY <1>5, <1>6

\* Every step keeps the invariant of SavedOnce.
LEMMA OnceStep ==
  ASSUME UpwardDisks, StalePlain, ScanInv, OnceInv, [Next]_vars
  PROVE  OnceInv'
<1>1. CASE next_drive
  <2>1. /\ pc' = "read_disk_partitions" /\ drive' = drive + 1 /\ partition' = partition /\ disk' = disk
    BY <1>1 DEF next_drive
  <2>2. drive \in Nat /\ \A n \in DOMAIN partition : partition[n].drive \in Nat /\ partition[n].drive <= drive
    BY Counts, NodeFacts DEF ScanInv, TypeOK, OnceInv
  <2>3. \A n \in DOMAIN partition : partition[n].drive < drive + 1 /\ partition[n].drive <= drive + 1
    BY <2>2
  <2>4. SavedOnce'
    BY <2>1 DEF OnceInv, SavedOnce
  <2> QED BY <2>1, <2>3, <2>4 DEF OnceInv
<1>2. CASE shell_main
  <2>1. pc = "read_disk_partitions" /\ pc' = "shell" /\ drive' = drive /\ partition' = partition
    BY <1>2 DEF shell_main
  <2> QED BY <2>1 DEF OnceInv, SavedOnce
<1>3. CASE UNCHANGED vars
  BY <1>3 DEF vars, OnceInv, SavedOnce, TempFrom, SavedUpTo, SavedBefore, Readable
<1> QED BY <1>1, <1>2, <1>3, OncePrimary, OnceExtended, OnceChain DEF Next, Step, Stay

\* On drives whose chains go up, damaged or not, no boot sector puts its
\* partition on the list twice (get_boot_sector, traverse_extended_partitions).
THEOREM ListedOnce == ASSUME UpwardDisks, StalePlain PROVE Spec => []SavedOnce
<1>1. Init => OnceInv
  BY DEF Init, OnceInv, SavedOnce
<1>2. ScanInv /\ OnceInv /\ [Next]_vars => OnceInv'
  BY OnceStep
<1>3. OnceInv => SavedOnce
  BY DEF OnceInv
<1> QED BY <1>1, <1>2, <1>3, InitScan, ScanStep, PTL DEF Spec

-----------------------------------------------------------------------------
\* A drive content without damage.
Intact(c) == \A l \in DOMAIN c : Holds(c, l) /\ c[l].signed

\* B holds the boot sectors of the extended partition at s: they are on the
\* drive, they link to each other, and nothing behind the link is extended.
ChainIn(c, s, B) ==
  /\ s \in B
  /\ \A l \in B : /\ c[l].part[2].type # "unknown" => c[l].part[2].start_lba + s \in B
                  /\ \A i \in 3 .. Slots : c[l].part[i].type \notin Extended

\* A drive as partitioning tools leave it: an MBR with at most one extended
\* entry, whose boot sectors are on the drive.
Tidy(c) ==
  /\ 0 \in DOMAIN c
  /\ \A i, j \in 1 .. Slots : c[0].part[i].type \in Extended /\ c[0].part[j].type \in Extended => i = j
  /\ \A j \in 1 .. Slots : c[0].part[j].type \in Extended =>
       \E B \in SUBSET DOMAIN c : ChainIn(c, c[0].part[j].start_lba, B)

TidyDisks == \A dk \in Disks : \A d \in 1 .. Drives : Intact(dk[d]) => Tidy(dk[d])

\* What the first m entries of the MBR, and the boot sectors R, put on the list.
Primaries(d, m) == {<<d, disk[d][0].part[j], disk[d][0].part[j].start_lba>> : j \in 1 .. m}
Logical(d, R) == {<<d, disk[d][l].part[1], l + disk[d][l].part[1].start_lba>> : l \in R}

\* The sector that l links to, if any, is in R.
LinkIn(d, s, l, R) == disk[d][l].part[2].type # "unknown" => disk[d][l].part[2].start_lba + s \in R

\* The chain at s has been followed through R and goes on at sector l.
Followed(d, s, R, l) ==
  /\ R \subseteq ChainOf(d, s) /\ l \in ChainOf(d, s)
  /\ s \in R \union {l}
  /\ \A m \in R : LinkIn(d, s, m, R \union {l})
  /\ SavedOf(d) = Primaries(d, Slots) \union Logical(d, R)

\* The scan of the sound drive d, at each point.
DriveScan(d) ==
  /\ pc = "primary" => bslist = disk[d][0] /\ SavedOf(d) = Primaries(d, k - 1)
  /\ pc = "extended" =>
       \/ /\ temp = disk[d][0] /\ SavedOf(d) = Primaries(d, Slots)
          /\ \A j \in 1 .. k - 1 : temp.part[j].type \notin Extended
       \/ /\ SavedOf(d) = PartitionsOf(d)
          /\ \A j \in k .. Slots : temp.part[j].type \notin Extended
  /\ pc = "get_boot_sector" =>
       /\ k >= 2
       /\ \E j \in ExtendedSlots(d) : extlba = disk[d][0].part[j].start_lba
       /\ \E R \in SUBSET DOMAIN disk[d] : Followed(d, extlba, R, lba)

\* The inductive invariant of ScanFinds: the drives behind are done, those ahead
\* have nothing on the list, and the one that is scanned is where DriveScan says.
FindsInv ==
  /\ \A d \in 1 .. Drives :
       /\ d < drive /\ Sound(d) => SavedOf(d) = PartitionsOf(d)
       /\ d > drive \/ (d = drive /\ pc = "read_disk_partitions") => SavedOf(d) = {}
       /\ d = drive /\ Sound(d) => DriveScan(d)
  /\ pc = "shell" => drive > Drives

\* A sound drive of tidy disks has an MBR, at most one extended entry in it, and
\* only sectors that can be read.
LEMMA SoundFacts ==
  ASSUME TidyDisks, disk \in Disks, NEW d \in 1 .. Drives, Sound(d)
  PROVE  /\ Tidy(disk[d]) /\ Readable(d, 0) /\ DOMAIN disk[d] \subseteq Nat
         /\ \A l \in DOMAIN disk[d] : Readable(d, l) /\ disk[d][l].signed /\ disk[d][l] \in Sector
<1>1. \A l \in DOMAIN disk[d] : Readable(d, l) /\ disk[d][l].signed
  BY DEF Sound
<1>2. Intact(disk[d])
  BY <1>1, DriveFacts DEF Intact
<1>3. Tidy(disk[d])
  BY <1>2 DEF TidyDisks
<1> QED BY <1>1, <1>3, DriveFacts DEF Tidy

\* The chain of an extended entry: it starts on the drive, goes on on the drive,
\* and nothing of it behind the link is extended.
LEMMA ChainFacts ==
  ASSUME TidyDisks, disk \in Disks, NEW d \in 1 .. Drives, Sound(d), NEW j \in ExtendedSlots(d),
         NEW s, s = disk[d][0].part[j].start_lba
  PROVE  /\ s \in ChainOf(d, s) /\ ChainOf(d, s) \subseteq DOMAIN disk[d]
         /\ \A l \in ChainOf(d, s) : /\ LinkIn(d, s, l, ChainOf(d, s))
                                     /\ \A i \in 3 .. Slots : disk[d][l].part[i].type \notin Extended
<1> DEFINE L == DOMAIN disk[d]
           Closed(C) == s \in C /\ \A l \in C : LinkIn(d, s, l, C)
<1>1. ChainOf(d, s) = {l \in L : \A C \in SUBSET L : Closed(C) => l \in C}
  BY DEF ChainOf, LinkIn
<1>2. PICK B \in SUBSET L : ChainIn(disk[d], s, B)
  BY SoundFacts DEF Tidy, ExtendedSlots
<1>3. Closed(B)
  BY <1>2 DEF ChainIn, LinkIn
<1>4. s \in L /\ \A C \in SUBSET L : Closed(C) => s \in C
  BY <1>2 DEF ChainIn
<1>5. ChainOf(d, s) \subseteq B
  BY <1>1, <1>3
<1>6. ASSUME NEW l \in ChainOf(d, s), disk[d][l].part[2].type # "unknown"
      PROVE  disk[d][l].part[2].start_lba + s \in ChainOf(d, s)
  <2> DEFINE x == disk[d][l].part[2].start_lba + s
  <2>1. \A C \in SUBSET L : Closed(C) => l \in C
    BY <1>1
  <2>2. \A C \in SUBSET L : Closed(C) => x \in C
    BY <2>1, <1>6 DEF LinkIn
  <2>3. x \in L
    BY <2>2, <1>3
  <2> QED BY <2>2, <2>3, <1>1
<1>7. \A l \in ChainOf(d, s) : \A i \in 3 .. Slots : disk[d][l].part[i].type \notin Extended
  BY <1>2, <1>5 DEF ChainIn
<1>8. \A l \in ChainOf(d, s) : LinkIn(d, s, l, ChainOf(d, s))
  BY <1>6 DEF LinkIn
<1>9. s \in ChainOf(d, s) /\ ChainOf(d, s) \subseteq L
  BY <1>1, <1>4
<1> QED BY <1>7, <1>8, <1>9

\* The chain is the least closed set: a part of it that is closed is all of it.
LEMMA ChainLeast ==
  ASSUME NEW d, NEW s, NEW R, R \subseteq ChainOf(d, s), s \in R, \A l \in R : LinkIn(d, s, l, R)
  PROVE  R = ChainOf(d, s)
<1>1. R \subseteq DOMAIN disk[d]
  BY DEF ChainOf
<1>2. \A l \in ChainOf(d, s) : l \in R
  BY <1>1 DEF ChainOf, LinkIn
<1> QED BY <1>2

\* The partitions of a drive with one extended entry.
LEMMA PartsWithChain ==
  ASSUME TidyDisks, disk \in Disks, NEW d \in 1 .. Drives, Sound(d), NEW j \in ExtendedSlots(d),
         NEW s, s = disk[d][0].part[j].start_lba
  PROVE  PartitionsOf(d) = Primaries(d, Slots) \union Logical(d, ChainOf(d, s))
<1>1. ExtendedSlots(d) = {j}
  BY SoundFacts DEF Tidy, ExtendedSlots
<1>2. PartitionsOf(d) = Primaries(d, Slots)
         \union UNION {Logical(d, ChainOf(d, disk[d][0].part[i].start_lba)) : i \in ExtendedSlots(d)}
  BY Zenon DEF PartitionsOf, Primaries, Logical
<1>3. UNION {Logical(d, ChainOf(d, disk[d][0].part[i].start_lba)) : i \in ExtendedSlots(d)} = Logical(d, ChainOf(d, s))
  BY <1>1
<1> QED BY <1>2, <1>3

\* The partitions of a drive without one.
LEMMA PartsWithout ==
  ASSUME NEW d, ExtendedSlots(d) = {}
  PROVE  PartitionsOf(d) = Primaries(d, Slots)
<1>1. PartitionsOf(d) = Primaries(d, Slots)
         \union UNION {Logical(d, ChainOf(d, disk[d][0].part[i].start_lba)) : i \in ExtendedSlots(d)}
  BY Zenon DEF PartitionsOf, Primaries, Logical
<1>2. UNION {Logical(d, ChainOf(d, disk[d][0].part[i].start_lba)) : i \in ExtendedSlots(d)} = {}
  OBVIOUS
<1> QED BY <1>1, <1>2

\* What save_part_props adds to the partitions listed of each drive.
LEMMA SaveListed ==
  ASSUME TypeOK, NEW e \in Entry, NEW from \in Nat, save_part_props(e, from), NEW d
  PROVE  SavedOf(d)' = IF d = drive THEN SavedOf(d) \union {<<d, e, from + e.start_lba>>} ELSE SavedOf(d)
<1> DEFINE N == Len(partition) + 1
<1>1. /\ DOMAIN partition' = DOMAIN partition \union {N} /\ N \notin DOMAIN partition
      /\ \A n \in DOMAIN partition : partition'[n] = partition[n]
      /\ partition'[N].drive = drive /\ partition'[N].entry = e
      /\ partition'[N].st_lba = from + e.start_lba
  BY SaveAdds
<1> HIDE DEF N
<1>2. \A x : x \in SavedOf(d) <=>
        \E n \in DOMAIN partition : partition[n].drive = d /\ x = <<d, partition[n].entry, partition[n].st_lba>>
  BY DEF SavedOf
<1>3. \A x : x \in SavedOf(d)' <=>
        \E n \in DOMAIN partition' : partition'[n].drive = d /\ x = <<d, partition'[n].entry, partition'[n].st_lba>>
  BY DEF SavedOf
<1>4. \A x : x \in SavedOf(d)' <=> x \in SavedOf(d) \/ (d = drive /\ x = <<d, e, from + e.start_lba>>)
  BY <1>1, <1>2, <1>3
<1>5. CASE d = drive
  BY <1>4, <1>5
<1>6. CASE d # drive
  BY <1>4, <1>6
<1> QED BY <1>5, <1>6
\* What a step that leaves the disks alone keeps.
LEMMA DiskKept ==
  ASSUME disk' = disk, NEW d
  PROVE  /\ Sound(d)' <=> Sound(d)
         /\ PartitionsOf(d)' = PartitionsOf(d)
         /\ ExtendedSlots(d)' = ExtendedSlots(d)
         /\ \A m : Primaries(d, m)' = Primaries(d, m)
<1>1. Sound(d)' <=> Sound(d)
  BY DEF Sound, Readable
<1>2. ExtendedSlots(d)' = ExtendedSlots(d)
  BY DEF ExtendedSlots
<1>3. \A m : Primaries(d, m)' = Primaries(d, m)
  BY DEF Primaries
<1>4. PartitionsOf(d)' = PartitionsOf(d)
  BY DEF PartitionsOf, ExtendedSlots, ChainOf
<1> QED BY <1>1, <1>2, <1>3, <1>4

\* A step on one drive's way through its sectors concerns that drive only.
LEMMA OneDrive ==
  ASSUME FindsInv, disk' = disk, drive' = drive, NEW D \in 1 .. Drives, D = drive,
         pc' \notin {"read_disk_partitions", "shell"},
         \A d : d # D => SavedOf(d)' = SavedOf(d),
         Sound(D) => DriveScan(D)'
  PROVE  FindsInv'
<1>1. D \in Nat /\ Drives \in Nat
  BY Counts
<1>2. ASSUME NEW d \in 1 .. Drives
      PROVE  /\ d < drive' /\ Sound(d)' => SavedOf(d)' = PartitionsOf(d)'
             /\ d > drive' \/ (d = drive' /\ pc' = "read_disk_partitions") => SavedOf(d)' = {}
             /\ d = drive' /\ Sound(d)' => DriveScan(d)'
  <2>1. (Sound(d)' <=> Sound(d)) /\ PartitionsOf(d)' = PartitionsOf(d)
    BY DiskKept
  <2>2. d < drive \/ d > drive => d # D
    BY <1>1
  <2>3. d < drive' /\ Sound(d)' => SavedOf(d)' = PartitionsOf(d)'
    BY <2>1, <2>2 DEF FindsInv
  <2>4. d > drive' \/ (d = drive' /\ pc' = "read_disk_partitions") => SavedOf(d)' = {}
    BY <2>2 DEF FindsInv
  <2>5. CASE d = D
    BY <2>1, <2>3, <2>4, <2>5
  <2>6. CASE d # D
    BY <2>3, <2>4, <2>6
  <2> QED BY <2>5, <2>6
<1> QED BY <1>2 DEF FindsInv

\* Reading a drive's MBR and saving its entries.
LEMMA FindsPrimary ==
  ASSUME TidyDisks, ScanInv, FindsInv, read_mbr \/ traverse_primary_partitions
  PROVE  FindsInv'
<1>1. /\ drive \in 1 .. Drives + 1 /\ bslist \in Sector /\ k \in 1 .. Slots + 1 /\ disk \in Disks /\ TypeOK
  BY DEF ScanInv, TypeOK
<1>2. disk' = disk /\ drive' = drive /\ pc' = "primary" /\ drive \in 1 .. Drives
  BY <1>1, Counts DEF read_mbr, traverse_primary_partitions, ScanInv
<1>3. PICK D \in 1 .. Drives : D = drive
  BY <1>2
<1>4. CASE read_mbr
  <2>1. bslist' \in Fetch(D, 0) /\ k' = 1 /\ partition' = partition /\ pc = "read_disk_partitions"
    BY <1>3, <1>4 DEF read_mbr
  <2>2. \A d : SavedOf(d)' = SavedOf(d)
    BY <2>1 DEF SavedOf
  <2>3. ASSUME Sound(D) PROVE DriveScan(D)'
    <3>1. bslist' = disk[D][0]
      BY <2>1, <2>3, <1>1, SoundFacts DEF Fetch
    <3>2. SavedOf(D) = {}
      BY <2>1, <1>3 DEF FindsInv
    <3>3. Primaries(D, k - 1)' = {}
      BY <2>1 DEF Primaries
    <3> QED BY <1>2, <2>2, <3>1, <3>2, <3>3 DEF DriveScan
  <2> QED BY <1>2, <1>3, <2>2, <2>3, OneDrive
<1>5. CASE traverse_primary_partitions
  <2>1. /\ k \in 1 .. Slots /\ save_part_props(bslist.part[k], 0) /\ pc = "primary"
        /\ bslist' = bslist /\ k' = k + 1
    BY <1>1, <1>5, Counts DEF traverse_primary_partitions
  <2>2. PICK e \in Entry : e = bslist.part[k]
    BY <2>1, <1>1, EntryOf
  <2>3. \A d : SavedOf(d)' = IF d = drive THEN SavedOf(d) \union {<<d, e, 0 + e.start_lba>>} ELSE SavedOf(d)
    BY <2>1, <2>2, <1>1, SaveListed
  <2>4. ASSUME Sound(D) PROVE DriveScan(D)'
    <3>1. bslist = disk[D][0] /\ SavedOf(D) = Primaries(D, k - 1)
      BY <1>3, <2>1, <2>4 DEF FindsInv, DriveScan
    <3>2. e.start_lba \in Nat
      BY DEF Entry
    <3>3. SavedOf(D)' = Primaries(D, k - 1) \union {<<D, disk[D][0].part[k], disk[D][0].part[k].start_lba>>}
      BY <2>2, <2>3, <3>1, <3>2, <1>3
    <3>4. 1 .. k = 1 .. (k - 1) \union {k}
      BY <2>1, Counts
    <3>5. Primaries(D, k) = Primaries(D, k - 1) \union {<<D, disk[D][0].part[k], disk[D][0].part[k].start_lba>>}
      BY <3>4 DEF Primaries
    <3>6. Primaries(D, k - 1)' = Primaries(D, k)
      <4>1. k' - 1 = k
        BY <2>1, Counts
      <4> QED BY <4>1, <1>2 DEF Primaries
    <3> QED BY <1>2, <2>1, <3>1, <3>3, <3>5, <3>6 DEF DriveScan
  <2>5. \A d : d # D => SavedOf(d)' = SavedOf(d)
    BY <2>3, <1>3
  <2> QED BY <1>2, <1>3, <2>4, <2>5, OneDrive
<1> QED BY <1>4, <1>5

\* Going over to the extended partitions.
LEMMA FindsExtended ==
  ASSUME TidyDisks, ScanInv, FindsInv, traverse_extended_partitions \/ check_if_extended
  PROVE  FindsInv'
<1>1. /\ drive \in 1 .. Drives + 1 /\ bslist \in Sector /\ k \in 1 .. Slots + 1 /\ disk \in Disks /\ TypeOK
      /\ temp \in Sector
  BY DEF ScanInv, TypeOK
<1>2. disk' = disk /\ drive' = drive /\ drive \in 1 .. Drives /\ partition' = partition
  BY <1>1, Counts DEF traverse_extended_partitions, check_if_extended, ScanInv
<1>3. PICK D \in 1 .. Drives : D = drive
  BY <1>2
<1>4. \A d : SavedOf(d)' = SavedOf(d)
  BY <1>2 DEF SavedOf
<1>5. (\A m : Primaries(D, m)' = Primaries(D, m)) /\ PartitionsOf(D)' = PartitionsOf(D)
      /\ ExtendedSlots(D)' = ExtendedSlots(D)
  BY <1>2, DiskKept
<1>6. CASE traverse_extended_partitions
  <2>1. /\ k > Slots \/ ~bslist.signed
        /\ temp' = bslist /\ k' = 1 /\ pc' = "extended" /\ pc = "primary"
    BY <1>6 DEF traverse_extended_partitions
  <2>2. ASSUME Sound(D) PROVE DriveScan(D)'
    <3>1. bslist = disk[D][0] /\ SavedOf(D) = Primaries(D, k - 1)
      BY <1>3, <2>1, <2>2 DEF FindsInv, DriveScan
    <3>2. bslist.signed
      BY <3>1, <2>2, <1>1, SoundFacts DEF Readable
    <3>3. k - 1 = Slots
      BY <3>2, <2>1, <1>1, Counts
    <3>4. SavedOf(D)' = Primaries(D, Slots)'
      BY <3>1, <3>3, <1>4, <1>5
    <3>5. \A j \in 1 .. k' - 1 : temp'.part[j].type \notin Extended
      BY <2>1
    <3> QED BY <2>1, <3>1, <3>4, <3>5, <1>2 DEF DriveScan
  <2> QED BY <1>2, <1>3, <1>4, <2>1, <2>2, OneDrive
<1>7. CASE check_if_extended /\ temp.part[k].type \notin Extended
  <2>1. pc = "extended" /\ pc' = pc /\ k' = k + 1 /\ temp' = temp /\ k \in 1 .. Slots
    BY <1>1, <1>7, Counts DEF check_if_extended
  <2>2. ASSUME Sound(D) PROVE DriveScan(D)'
    <3>1. CASE /\ temp = disk[D][0] /\ SavedOf(D) = Primaries(D, Slots)
               /\ \A j \in 1 .. k - 1 : temp.part[j].type \notin Extended
      <4>1. \A j \in 1 .. k' - 1 : temp'.part[j].type \notin Extended
        BY <2>1, <3>1, <1>7, Counts
      <4>2. temp' = disk'[D][0] /\ SavedOf(D)' = Primaries(D, Slots)'
        BY <2>1, <3>1, <1>2, <1>4, <1>5
      <4> QED BY <2>1, <4>1, <4>2 DEF DriveScan
    <3>2. CASE /\ SavedOf(D) = PartitionsOf(D)
               /\ \A j \in k .. Slots : temp.part[j].type \notin Extended
      <4>1. \A j \in k' .. Slots : temp'.part[j].type \notin Extended
        BY <2>1, <3>2, Counts
      <4>2. SavedOf(D)' = PartitionsOf(D)'
        BY <3>2, <1>4, <1>5
      <4> QED BY <2>1, <4>1, <4>2 DEF DriveScan
    <3> QED BY <1>3, <2>1, <2>2, <3>1, <3>2 DEF FindsInv, DriveScan
  <2> QED BY <1>2, <1>3, <1>4, <2>1, <2>2, OneDrive
<1>8. CASE check_if_extended /\ temp.part[k].type \in Extended
  <2>1. /\ pc = "extended" /\ pc' = "get_boot_sector" /\ k' = k + 1 /\ k \in 1 .. Slots
        /\ lba' = temp.part[k].start_lba /\ extlba' = temp.part[k].start_lba
    BY <1>8, <1>1, Counts DEF check_if_extended
  <2>2. ASSUME Sound(D) PROVE DriveScan(D)'
    <3>1. ~ \A j \in k .. Slots : temp.part[j].type \notin Extended
      BY <2>1, <1>8, Counts
    <3>2. temp = disk[D][0] /\ SavedOf(D) = Primaries(D, Slots)
      BY <1>3, <2>1, <2>2, <3>1 DEF FindsInv, DriveScan
    <3>3. k \in ExtendedSlots(D)
      BY <2>1, <3>2, <1>8 DEF ExtendedSlots
    <3>4. PICK s : s = disk[D][0].part[k].start_lba
      OBVIOUS
    <3>5. s \in ChainOf(D, s) /\ ChainOf(D, s) \subseteq DOMAIN disk[D]
      BY <3>3, <3>4, <2>2, <1>1, ChainFacts
    <3>6. lba' = s /\ extlba' = s
      BY <2>1, <3>2, <3>4
    <3>7. ChainOf(D, s)' = ChainOf(D, s)
      BY <1>2 DEF ChainOf
    <3>8. SavedOf(D)' = Primaries(D, Slots)' \union Logical(D, {})'
      <4>1. Logical(D, {})' = {}
        BY DEF Logical
      <4> QED BY <4>1, <3>2, <1>4, <1>5
    <3>9. Followed(D, s, {}, s)'
      BY <3>5, <3>7, <3>8 DEF Followed
    <3>10. Followed(D, extlba, {}, lba)'
      BY <3>6, <3>9 DEF Followed, ChainOf, LinkIn
    <3>11. \E j \in ExtendedSlots(D)' : extlba' = disk'[D][0].part[j].start_lba
      BY <3>3, <3>4, <3>6, <1>2, <1>5
    <3>12. k' >= 2
      BY <2>1, Counts
    <3> QED BY <2>1, <3>10, <3>11, <3>12 DEF DriveScan
  <2> QED BY <1>2, <1>3, <1>4, <2>1, <2>2, OneDrive
<1> QED BY <1>6, <1>7, <1>8
\* One more sector of the chain of a sound drive.
LEMMA ChainGoesOn ==
  ASSUME TidyDisks, ScanInv, get_boot_sector, NEW D \in 1 .. Drives, D = drive, Sound(D), DriveScan(D)
  PROVE  DriveScan(D)'
<1>1. /\ k \in 1 .. Slots + 1 /\ disk \in Disks /\ TypeOK /\ lba \in Nat /\ extlba \in Nat
  BY DEF ScanInv, TypeOK
<1>2. disk' = disk /\ k' = k /\ extlba' = extlba /\ temp' \in Fetch(D, lba) /\ pc = "get_boot_sector"
  BY DEF get_boot_sector
<1>3. PICK j \in ExtendedSlots(D) : extlba = disk[D][0].part[j].start_lba
  BY <1>2 DEF DriveScan
<1>4. PICK R \in SUBSET DOMAIN disk[D] : Followed(D, extlba, R, lba)
  BY <1>2 DEF DriveScan
<1>5. PICK s \in Nat, l \in Nat : s = extlba /\ l = lba
  BY <1>1
<1>6. /\ R \subseteq ChainOf(D, s) /\ l \in ChainOf(D, s) /\ s \in R \union {l}
      /\ \A m \in R : LinkIn(D, s, m, R \union {l})
      /\ SavedOf(D) = Primaries(D, Slots) \union Logical(D, R)
  BY <1>4, <1>5 DEF Followed
<1>7. /\ ChainOf(D, s) \subseteq DOMAIN disk[D]
      /\ LinkIn(D, s, l, ChainOf(D, s))
      /\ \A i \in 3 .. Slots : disk[D][l].part[i].type \notin Extended
  BY <1>1, <1>3, <1>5, <1>6, ChainFacts
<1>8. Readable(D, l) /\ disk[D][l].signed /\ disk[D][l] \in Sector
  BY <1>1, <1>6, <1>7, SoundFacts
<1>9. temp' = disk[D][l]
  BY <1>2, <1>5, <1>8 DEF Fetch
<1>10. /\ save_part_props(disk[D][l].part[1], l)
       /\ IF disk[D][l].part[2].type # "unknown"
          THEN lba' = disk[D][l].part[2].start_lba + extlba /\ UNCHANGED pc
          ELSE pc' = "extended" /\ UNCHANGED lba
  BY <1>5, <1>8, <1>9 DEF get_boot_sector
<1>11. PICK e \in Entry : e = disk[D][l].part[1]
  BY <1>8, EntryOf, Counts
<1>12. SavedOf(D)' = SavedOf(D) \union {<<D, e, l + e.start_lba>>}
  BY <1>1, <1>10, <1>11, SaveListed
<1> DEFINE Q == R \union {l}
<1>13. Logical(D, Q) = Logical(D, R) \union {<<D, e, l + e.start_lba>>}
  BY <1>11 DEF Logical
<1>14. SavedOf(D)' = Primaries(D, Slots) \union Logical(D, Q)
  BY <1>6, <1>12, <1>13
<1>15. k >= 2
  BY <1>2 DEF DriveScan
<1>16. CASE disk[D][l].part[2].type = "unknown"
  <2>1. \A m \in Q : LinkIn(D, s, m, Q)
    BY <1>6, <1>16 DEF LinkIn
  <2>2. Q = ChainOf(D, s)
    BY <1>6, <2>1, ChainLeast
  <2>3. PartitionsOf(D) = Primaries(D, Slots) \union Logical(D, ChainOf(D, s))
    BY <1>1, <1>3, <1>5, PartsWithChain
  <2>4. SavedOf(D)' = PartitionsOf(D)'
    BY <1>2, <1>14, <2>2, <2>3, DiskKept
  <2>5. \A i \in k .. Slots : disk[D][l].part[i].type \notin Extended
    <3>1. \A i \in k .. Slots : i = 2 \/ i \in 3 .. Slots
      BY <1>1, <1>15, Counts
    <3>2. disk[D][l].part[2].type \notin Extended
      BY <1>16 DEF Extended
    <3> QED BY <3>1, <3>2, <1>7
  <2>6. pc' = "extended"
    BY <1>10, <1>16
  <2> QED BY <1>2, <1>9, <2>4, <2>5, <2>6 DEF DriveScan
<1>17. CASE disk[D][l].part[2].type # "unknown"
  <2>1. PICK x : x = disk[D][l].part[2].start_lba + s
    OBVIOUS
  <2>2. lba' = x /\ pc' = pc /\ extlba' = s
    BY <1>2, <1>5, <1>10, <1>17, <2>1
  <2>3. x \in ChainOf(D, s)
    BY <1>7, <1>17, <2>1 DEF LinkIn
  <2>4. \A m \in Q : LinkIn(D, s, m, Q \union {x})
    BY <1>6, <2>1 DEF LinkIn
  <2>5. Followed(D, s, Q, x)'
    <3>1. ChainOf(D, s)' = ChainOf(D, s)
      BY <1>2 DEF ChainOf
    <3>2. Primaries(D, Slots)' = Primaries(D, Slots) /\ Logical(D, Q)' = Logical(D, Q)
      BY <1>2 DEF Primaries, Logical
    <3>3. \A m \in Q : LinkIn(D, s, m, Q \union {x})'
      BY <1>2, <2>4 DEF LinkIn
    <3> QED BY <1>6, <1>14, <2>3, <3>1, <3>2, <3>3 DEF Followed
  <2>6. Followed(D, extlba, Q, lba)'
    BY <2>2, <2>5 DEF Followed, ChainOf, LinkIn
  <2>7. Q \in SUBSET DOMAIN disk'[D]
    BY <1>2, <1>6, <1>7
  <2>8. \E i \in ExtendedSlots(D)' : extlba' = disk'[D][0].part[i].start_lba
    BY <1>2, <1>3, DiskKept
  <2> QED BY <1>2, <1>15, <2>2, <2>6, <2>7, <2>8 DEF DriveScan
<1> QED BY <1>16, <1>17

\* Following a chain.
LEMMA FindsChain ==
  ASSUME TidyDisks, ScanInv, FindsInv, get_boot_sector
  PROVE  FindsInv'
<1>1. /\ drive \in 1 .. Drives + 1 /\ disk \in Disks /\ TypeOK /\ lba \in Nat
  BY DEF ScanInv, TypeOK
<1>2. /\ disk' = disk /\ drive' = drive /\ drive \in 1 .. Drives /\ pc = "get_boot_sector"
      /\ pc' \in {"get_boot_sector", "extended"} /\ temp' \in Fetch(drive, lba)
  BY <1>1, Counts DEF get_boot_sector, ScanInv
<1>3. PICK D \in 1 .. Drives : D = drive
  BY <1>2
<1>4. Sound(D) => DriveScan(D)'
  BY <1>3, ChainGoesOn DEF FindsInv
<1>5. CASE Readable(drive, lba) /\ temp'.signed
  <2>1. save_part_props(temp'.part[1], lba)
    BY <1>5 DEF get_boot_sector
  <2>2. temp' \in Sector
    BY <1>1, <1>2, DiskFacts
  <2>3. PICK e \in Entry : e = temp'.part[1]
    BY <2>2, EntryOf, Counts
  <2>4. \A d : d # D => SavedOf(d)' = SavedOf(d)
    BY <1>1, <1>3, <2>1, <2>3, SaveListed
  <2> QED BY <1>2, <1>3, <1>4, <2>4, OneDrive
<1>6. CASE ~(Readable(drive, lba) /\ temp'.signed)
  <2>1. partition' = partition
    BY <1>6 DEF get_boot_sector
  <2>2. \A d : SavedOf(d)' = SavedOf(d)
    BY <2>1 DEF SavedOf
  <2> QED BY <1>2, <1>3, <1>4, <2>2, OneDrive
<1> QED BY <1>5, <1>6

\* The end of a drive's scan: its partitions are all on the list.
LEMMA FindsNextDrive ==
  ASSUME TidyDisks, ScanInv, FindsInv, next_drive
  PROVE  FindsInv'
<1>1. /\ drive \in 1 .. Drives + 1 /\ disk \in Disks /\ k \in 1 .. Slots + 1
  BY DEF ScanInv, TypeOK
<1>2. /\ disk' = disk /\ drive' = drive + 1 /\ drive \in 1 .. Drives /\ pc = "extended" /\ k > Slots
      /\ pc' = "read_disk_partitions" /\ partition' = partition
  BY <1>1, Counts DEF next_drive, ScanInv
<1>3. PICK D \in 1 .. Drives : D = drive
  BY <1>2
<1>4. \A d : SavedOf(d)' = SavedOf(d) /\ (Sound(d)' <=> Sound(d)) /\ PartitionsOf(d)' = PartitionsOf(d)
  BY <1>2, DiskKept DEF SavedOf
<1>5. Sound(D) => SavedOf(D) = PartitionsOf(D)
  <2>1. SUFFICES ASSUME Sound(D),
                        temp = disk[D][0], SavedOf(D) = Primaries(D, Slots),
                        \A j \in 1 .. k - 1 : temp.part[j].type \notin Extended
                 PROVE  SavedOf(D) = PartitionsOf(D)
    BY <1>2, <1>3 DEF FindsInv, DriveScan
  <2>2. k - 1 = Slots
    BY <1>1, <1>2, Counts
  <2>3. ExtendedSlots(D) = {}
    BY <2>1, <2>2 DEF ExtendedSlots
  <2> QED BY <2>1, <2>3, PartsWithout
<1>6. ASSUME NEW d \in 1 .. Drives
      PROVE  /\ d < drive + 1 /\ Sound(d) => SavedOf(d) = PartitionsOf(d)
             /\ d > drive + 1 \/ d = drive + 1 => SavedOf(d) = {}
  <2>1. d \in Nat /\ drive \in Nat /\ Drives \in Nat
    BY <1>1, Counts
  <2>2. CASE d < drive
    BY <2>1, <2>2 DEF FindsInv
  <2>3. CASE d = drive
    BY <2>1, <2>3, <1>3, <1>5
  <2>4. CASE d > drive
    BY <2>1, <2>4 DEF FindsInv
  <2> QED BY <2>1, <2>2, <2>3, <2>4
<1>7. ASSUME NEW d \in 1 .. Drives
      PROVE  /\ d < drive' /\ Sound(d)' => SavedOf(d)' = PartitionsOf(d)'
             /\ d > drive' \/ (d = drive' /\ pc' = "read_disk_partitions") => SavedOf(d)' = {}
             /\ d = drive' /\ Sound(d)' => DriveScan(d)'
  BY <1>2, <1>4, <1>6 DEF DriveScan
<1> QED BY <1>2, <1>7 DEF FindsInv

\* Every step keeps the invariant of ScanFinds.
LEMMA FindsStep ==
  ASSUME TidyDisks, ScanInv, FindsInv, [Next]_vars
  PROVE  FindsInv'
<1>1. CASE shell_main
  <2>1. /\ pc' = "shell" /\ drive' = drive /\ drive > Drives /\ partition' = partition /\ disk' = disk
    BY <1>1 DEF shell_main
  <2>2. \A d : SavedOf(d)' = SavedOf(d) /\ (Sound(d)' <=> Sound(d)) /\ PartitionsOf(d)' = PartitionsOf(d)
    BY <2>1, DiskKept DEF SavedOf
  <2>3. drive \in Nat
    BY Counts DEF ScanInv, TypeOK
  <2>4. ASSUME NEW d \in 1 .. Drives
        PROVE  /\ d < drive' /\ Sound(d)' => SavedOf(d)' = PartitionsOf(d)'
               /\ d > drive' \/ (d = drive' /\ pc' = "read_disk_partitions") => SavedOf(d)' = {}
               /\ d = drive' /\ Sound(d)' => DriveScan(d)'
    <3>1. d < drive
      BY <2>1, <2>3, Counts
    <3> QED BY <2>1, <2>2, <2>3, <3>1 DEF FindsInv
  <2> QED BY <2>1, <2>4 DEF FindsInv
<1>2. CASE UNCHANGED vars
  <2>1. /\ UNCHANGED <<disk, drive, pc, bslist, temp, k, lba, extlba, partition>>
    BY <1>2 DEF vars
  <2>2. \A d : SavedOf(d)' = SavedOf(d) /\ (Sound(d)' <=> Sound(d)) /\ PartitionsOf(d)' = PartitionsOf(d)
    BY <2>1, DiskKept DEF SavedOf
  <2>3. \A d : DriveScan(d)' <=> DriveScan(d)
    <3>1. \A d, s : ChainOf(d, s)' = ChainOf(d, s)
      BY <2>1 DEF ChainOf
    <3>2. \A d, s, R, l : /\ Primaries(d, s)' = Primaries(d, s) /\ Logical(d, R)' = Logical(d, R)
                          /\ LinkIn(d, s, l, R)' <=> LinkIn(d, s, l, R)
      BY <2>1 DEF Primaries, Logical, LinkIn
    <3>3. \A d, s, R, l : Followed(d, s, R, l)' <=> Followed(d, s, R, l)
      BY <2>2, <3>1, <3>2 DEF Followed
    <3>4. \A d, R : Followed(d, extlba, R, lba)' <=> Followed(d, extlba, R, lba)
      <4> SUFFICES ASSUME NEW d, NEW R PROVE Followed(d, extlba, R, lba)' <=> Followed(d, extlba, R, lba)
        OBVIOUS
      <4>1. PICK s, l : s = extlba /\ l = lba
        OBVIOUS
      <4>2. Followed(d, extlba, R, lba) <=> Followed(d, s, R, l)
        BY <4>1
      <4>3. extlba' = s /\ lba' = l
        BY <2>1, <4>1
      <4>4. Followed(d, extlba, R, lba)' <=> Followed(d, s, R, l)'
        BY <4>3 DEF Followed, ChainOf, LinkIn
      <4> QED BY <3>3, <4>2, <4>4
    <3>5. \A d : Primaries(d, k - 1)' = Primaries(d, k - 1) /\ ExtendedSlots(d)' = ExtendedSlots(d)
      BY <2>1 DEF Primaries, ExtendedSlots
    <3> QED BY <2>1, <2>2, <3>2, <3>4, <3>5 DEF DriveScan
  <2> QED BY <2>1, <2>2, <2>3 DEF FindsInv
<1> QED BY <1>1, <1>2, FindsPrimary, FindsExtended, FindsChain, FindsNextDrive DEF Next, Step, Stay

\* On drives as partitioning tools leave them, the list at the start of the shell
\* has the partitions of every sound drive and no others, whatever state the
\* other drives are in (read_disk_partitions).
THEOREM ListComplete == ASSUME TidyDisks PROVE Spec => []ScanFinds
<1>1. Init => FindsInv
  <2> SUFFICES ASSUME Init PROVE FindsInv
    OBVIOUS
  <2>1. \A d : SavedOf(d) = {}
    BY DEF SavedOf, Init
  <2>2. \A d \in 1 .. Drives : ~(d < 1)
    BY Counts
  <2> QED BY <2>1, <2>2 DEF Init, FindsInv, DriveScan
<1>2. ScanInv /\ FindsInv /\ [Next]_vars => FindsInv'
  BY FindsStep
<1>3. ScanInv /\ FindsInv => ScanFinds
  <2> SUFFICES ASSUME ScanInv, FindsInv, pc = "shell", NEW d \in 1 .. Drives, Sound(d)
               PROVE  SavedOf(d) = PartitionsOf(d)
    BY DEF ScanFinds
  <2>1. d < drive
    BY Counts DEF FindsInv, ScanInv, TypeOK
  <2> QED BY <2>1 DEF FindsInv
<1> QED BY <1>1, <1>2, <1>3, InitScan, ScanStep, PTL DEF Spec
=============================================================================
