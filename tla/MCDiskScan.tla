----------------------------- MODULE MCDiskScan -----------------------------
(***************************************************************************)
(* DiskScan on drives of a few sectors: the MBR at 0 and boot sectors at 1 *)
(* to 3, with tables of Slots entries.                                     *)
(***************************************************************************)
EXTENDS DiskScan

E(t, l) == [type |-> t, start_lba |-> l]
None == E("unknown", 0)
Empty == [j \in 1 .. Slots |-> None]
S(sig, part) == [signed |-> sig, part |-> part]
Table(a, b, c) == [j \in 1 .. Slots |-> IF j = 1 THEN a ELSE IF j = 2 THEN b ELSE c]

StaleBlank == {S(FALSE, Empty)}
Bytes == {"other"}

Primary == {None, E("fat32", 4), E("dos_ext", 1), E("linux_ext", 2)}
Mbrs == {S(TRUE, Table(a, b, c)) : a \in Primary, b \in Primary, c \in Primary}
Links == {None} \union {E("dos_ext", n) : n \in 0 .. 2}
Ebrs == {S(TRUE, Table(E("native", 1), b, None)) : b \in Links}

\* A drive from its sectors, the MBR first.
OnDrive(s) == [l \in 0 .. 3 |-> s[l + 1]]
DrivesOf(M, B) == {OnDrive(<<mbr, e1, e2, e3>>) : mbr \in M, e1 \in B, e2 \in B, e3 \in B}

\* A sound second drive: one logical and one primary partition.
Second == OnDrive(<<S(TRUE, Table(E("win95_ext", 3), E("hidden1", 1), None)),
                    S(TRUE, Empty), S(TRUE, Empty), S(TRUE, Table(E("fat32_lba", 1), None, None))>>)

Starts(d) == {d[0].part[j].start_lba : j \in {n \in 1 .. Slots : d[0].part[n].type \in Extended}}
Links2(d) == {l \in 1 .. 3 : d[l] # Unreadable /\ d[l].part[2].type # "unknown"}
\* Every chain goes up the drive and ends on it.
Forward(d) == \A s \in Starts(d), l \in Links2(d) : d[l].part[2].start_lba + s \in l + 1 .. 3
OneExtended(d) == Cardinality({j \in 1 .. Slots : d[0].part[j].type \in Extended}) <= 1

\* Drives with at most one extended partition, as partitioning tools leave them
\* or with sectors that cannot be read or have lost their signature.
BadEbrs == {Unreadable, S(FALSE, Table(None, None, E("dos_ext", 3))), S(FALSE, Empty)}
OneExtDisks == {<<d, Second>> :
  d \in {c \in DrivesOf({[m EXCEPT !.signed = sig] : m \in Mbrs, sig \in BOOLEAN}, BadEbrs \union Ebrs) :
            Forward(c) /\ OneExtended(c)}
        \union {[Second EXCEPT ![0] = Unreadable]}}
=============================================================================
