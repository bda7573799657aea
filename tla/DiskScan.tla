------------------------------ MODULE DiskScan ------------------------------
(***************************************************************************)
(* drivers/diskio.c: the scan for partitions at boot.  Each drive's MBR is *)
(* read and its entries saved, then the chain of boot sectors of every     *)
(* extended entry is followed, one logical partition per sector.           *)
(*                                                                         *)
(* A sector is its signature test and its table of entries, an entry its   *)
(* type and start_lba.  bslist and temp are the sector structures the code *)
(* points to; a structure whose sector could not be read holds what the    *)
(* heap held.  The recursion of get_boot_sector is a tail call: a loop.    *)
(***************************************************************************)
EXTENDS Integers, Sequences, FiniteSets

CONSTANTS
  Drives,      \* num_ide_drives
  Slots,       \* entries of a partition table: 4
  Disks,       \* the disk contents considered, one function per drive
  Stale,       \* what the heap may hold where a sector structure is put
  StaleByte,   \* what the heap may hold where a type_byte is put
  Unreadable   \* a sector read_sector reports IDE_ERR_IO_ERROR for

Linux == {"native", "hidden1"}                 \* PART_LINUX_NATIVE, _HIDDEN1
Fat == {"fat32", "fat32_lba"}                  \* PART_WIN95_FAT32, _LBA
Extended == {"dos_ext", "win95_ext", "linux_ext"}
Types == Linux \union Fat \union Extended \union {"unknown", "other"}

Entry == [type : Types, start_lba : Nat]
Sector == [signed : BOOLEAN, part : [1 .. Slots -> Entry]]

ASSUME DiskAssumption ==
  /\ Drives \in Nat /\ Slots \in Nat \ {0, 1}
  /\ Unreadable \notin Sector
  /\ Stale \subseteq Sector /\ Stale # {}
  /\ StaleByte \subseteq Types /\ StaleByte # {}
  /\ \A disk \in Disks :
       /\ DOMAIN disk = 1 .. Drives
       /\ \A d \in 1 .. Drives : /\ DOMAIN disk[d] \subseteq Nat
                                 /\ \A l \in DOMAIN disk[d] : disk[d][l] \in Sector \union {Unreadable}

VARIABLES
  disk,            \* the drives, never written
  drive,           \* drive_num, from 1
  pc,              \* the function that runs
  bslist, temp,    \* the sector structures
  k,               \* the entry of bslist or temp that is next
  lba, extlba,     \* the arguments of get_boot_sector
  partition,       \* the list, without its empty last node
  current_lba      \* start of the last Linux partition saved

vars == <<disk, drive, pc, bslist, temp, k, lba, extlba, partition, current_lba>>

-----------------------------------------------------------------------------
\* read_sector: past the end of the drive it reports an error too.
Readable(d, l) == l \in DOMAIN disk[d] /\ disk[d][l] # Unreadable

\* A new sector structure after reading l: the sector, or what the heap held.
Fetch(d, l) == IF Readable(d, l) THEN {disk[d][l]} ELSE Stale

\* save_part_props(e, from): the type byte is set for Linux and FAT32 only.
\* drive, entry and from are ghosts: the list does not record them.
save_part_props(e, from) ==
  \E byte \in StaleByte :
    /\ partition' = Append(partition,
         [name |-> Len(partition) + 1,
          type_byte |-> IF e.type \in Linux \union Fat THEN e.type ELSE byte,
          st_lba |-> from + e.start_lba,
          drive |-> drive, entry |-> e, from |-> from])
    /\ current_lba' = IF e.type \in Linux THEN from + e.start_lba ELSE current_lba

Init ==
  /\ disk \in Disks
  /\ drive = 1
  /\ pc = "read_disk_partitions"
  /\ bslist \in Stale /\ temp = bslist
  /\ k = 1 /\ lba = 0 /\ extlba = 0
  /\ partition = <<>>
  /\ current_lba = 0

\* The result of read_mbr is ignored.
read_mbr ==
  /\ pc = "read_disk_partitions"
  /\ drive <= Drives
  /\ bslist' \in Fetch(drive, 0)
  /\ k' = 1
  /\ pc' = "primary"
  /\ UNCHANGED <<disk, drive, temp, lba, extlba, partition, current_lba>>

\* Mutant: the signature of the MBR is not looked at.
traverse_primary_partitions_Bug ==
  /\ pc = "primary"
  /\ k <= Slots
  /\ save_part_props(bslist.part[k], 0)
  /\ k' = k + 1
  /\ UNCHANGED <<disk, drive, pc, bslist, temp, lba, extlba>>

traverse_primary_partitions ==
  /\ pc = "primary"
  /\ k <= Slots
  /\ bslist.signed
  /\ save_part_props(bslist.part[k], 0)
  /\ k' = k + 1
  /\ UNCHANGED <<disk, drive, pc, bslist, temp, lba, extlba>>

\* Entry of traverse_extended_partitions, with a bad MBR too.
traverse_extended_partitions ==
  /\ pc = "primary"
  /\ k > Slots \/ ~bslist.signed
  /\ temp' = bslist
  /\ k' = 1
  /\ pc' = "extended"
  /\ UNCHANGED <<disk, drive, bslist, lba, extlba, partition, current_lba>>

\* Mutant: the next entry is looked at only after an extended one.
check_if_extended_Bug ==
  /\ pc = "extended"
  /\ k <= Slots
  /\ IF temp.part[k].type \in Extended
     THEN /\ lba' = temp.part[k].start_lba
          /\ extlba' = temp.part[k].start_lba
          /\ pc' = "get_boot_sector"
          /\ k' = k + 1
     ELSE UNCHANGED <<lba, extlba, pc, k>>
  /\ UNCHANGED <<disk, drive, bslist, temp, partition, current_lba>>

\* check_if_extended(&temp->part[k]), of the sector temp points to by now.
check_if_extended ==
  /\ pc = "extended"
  /\ k <= Slots
  /\ IF temp.part[k].type \in Extended
     THEN /\ lba' = temp.part[k].start_lba
          /\ extlba' = temp.part[k].start_lba
          /\ pc' = "get_boot_sector"
     ELSE UNCHANGED <<lba, extlba, pc>>
  /\ k' = k + 1
  /\ UNCHANGED <<disk, drive, bslist, temp, partition, current_lba>>

\* Mutant: the next sector is looked for from this one, not from the first.
get_boot_sector_Bug ==
  /\ pc = "get_boot_sector"
  /\ temp' \in Fetch(drive, lba)
  /\ IF Readable(drive, lba) /\ temp'.signed
     THEN /\ save_part_props(temp'.part[1], lba)
          /\ IF temp'.part[2].type # "unknown"
             THEN lba' = temp'.part[2].start_lba + lba /\ UNCHANGED pc
             ELSE pc' = "extended" /\ UNCHANGED lba
     ELSE pc' = "extended" /\ UNCHANGED <<lba, partition, current_lba>>
  /\ UNCHANGED <<disk, drive, bslist, k, extlba>>

\* Mutant: the offset of the next sector is forgotten.
get_boot_sector_Bug2 ==
  /\ pc = "get_boot_sector"
  /\ temp' \in Fetch(drive, lba)
  /\ IF Readable(drive, lba) /\ temp'.signed
     THEN /\ save_part_props(temp'.part[1], lba)
          /\ IF temp'.part[2].type # "unknown"
             THEN lba' = extlba /\ UNCHANGED pc
             ELSE pc' = "extended" /\ UNCHANGED lba
     ELSE pc' = "extended" /\ UNCHANGED <<lba, partition, current_lba>>
  /\ UNCHANGED <<disk, drive, bslist, k, extlba>>

\* One boot sector of the chain: temp moves to it even if it is bad.
get_boot_sector ==
  /\ pc = "get_boot_sector"
  /\ temp' \in Fetch(drive, lba)
  /\ IF Readable(drive, lba) /\ temp'.signed
     THEN /\ save_part_props(temp'.part[1], lba)
          /\ IF temp'.part[2].type # "unknown"
             THEN lba' = temp'.part[2].start_lba + extlba /\ UNCHANGED pc
             ELSE pc' = "extended" /\ UNCHANGED lba
     ELSE pc' = "extended" /\ UNCHANGED <<lba, partition, current_lba>>
  /\ UNCHANGED <<disk, drive, bslist, k, extlba>>

next_drive ==
  /\ pc = "extended"
  /\ k > Slots
  /\ drive' = drive + 1
  /\ pc' = "read_disk_partitions"
  /\ UNCHANGED <<disk, bslist, temp, k, lba, extlba, partition, current_lba>>

\* k_main goes on to shell_main.
shell_main ==
  /\ pc = "read_disk_partitions"
  /\ drive > Drives
  /\ pc' = "shell"
  /\ UNCHANGED <<disk, drive, bslist, temp, k, lba, extlba, partition, current_lba>>

Step ==
  \/ read_mbr \/ traverse_primary_partitions \/ traverse_extended_partitions
  \/ check_if_extended \/ get_boot_sector \/ next_drive \/ shell_main

Stay == pc = "shell" /\ UNCHANGED vars

Next == Step \/ Stay

\* The boot is one thread with interrupts off: it takes the step it can take.
Spec == Init /\ [][Next]_vars /\ WF_vars(Step)

-----------------------------------------------------------------------------
Node == [name : Nat, type_byte : Types, st_lba : Nat, drive : Nat, entry : Entry, from : Nat]

\* Every variable has its type.
TypeOK ==
  /\ DOMAIN disk = 1 .. Drives
  /\ drive \in 1 .. Drives + 1
  /\ pc \in {"read_disk_partitions", "primary", "extended", "get_boot_sector", "shell"}
  /\ bslist \in Sector /\ temp \in Sector
  /\ k \in 1 .. Slots + 1
  /\ lba \in Nat /\ extlba \in Nat
  /\ partition \in Seq(Node)
  /\ current_lba \in Nat

\* The boot sectors of drive d's extended partition that starts at s: the least
\* set that holds s and the sector each one links to.
ChainOf(d, s) ==
  LET L == DOMAIN disk[d]
      Closed(C) ==
        /\ s \in C
        /\ \A l \in C : disk[d][l].part[2].type # "unknown" => disk[d][l].part[2].start_lba + s \in C
  IN {l \in L : \A C \in SUBSET L : Closed(C) => l \in C}

ExtendedSlots(d) == {j \in 1 .. Slots : disk[d][0].part[j].type \in Extended}

\* The partitions of drive d, as <<drive, entry, absolute start>>.
PartitionsOf(d) ==
  LET mbr == disk[d][0].part
      logical(s) == {<<d, disk[d][l].part[1], l + disk[d][l].part[1].start_lba>> : l \in ChainOf(d, s)}
  IN {<<d, mbr[j], mbr[j].start_lba>> : j \in 1 .. Slots}
       \union UNION {logical(mbr[j].start_lba) : j \in ExtendedSlots(d)}

\* Drive d has no sector that is unreadable or not signed.
Sound(d) == \A l \in DOMAIN disk[d] : Readable(d, l) /\ disk[d][l].signed

SavedOf(d) ==
  {<<d, partition[n].entry, partition[n].st_lba>> : n \in {m \in DOMAIN partition : partition[m].drive = d}}

\* "Also scans for available partitions in the hard disk": when the shell
\* starts, the list has the table entries of every sound drive (unused ones
\* included, as in the code) and no others, each where it is on its drive,
\* whatever state the other drives are in.
ScanFinds == pc = "shell" => \A d \in 1 .. Drives : Sound(d) => SavedOf(d) = PartitionsOf(d)

\* "fills in the proprties of each partition in a linked list": no boot sector
\* puts its partition on the list twice.
SavedOnce ==
  \A m, n \in DOMAIN partition :
    /\ partition[m].drive = partition[n].drive
    /\ partition[m].from = partition[n].from
    /\ partition[m].from # 0
    => m = n

\* Whatever state the drives are in, a partition of the list was read from a
\* sector of its drive that could be read and has the signature.
SavedFromSigned ==
  \A n \in DOMAIN partition :
    LET q == partition[n]
    IN /\ Readable(q.drive, q.from)
       /\ disk[q.drive][q.from].signed
       /\ \E j \in 1 .. Slots : disk[q.drive][q.from].part[j] = q.entry

\* "Enter the shell": the scan ends.
ShellEntered == <>(pc = "shell")
=============================================================================
