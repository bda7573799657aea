------------------------------ MODULE MCFat32 -------------------------------
(***************************************************************************)
(* Volumes for Fat32: clusters of one and two sectors, a root directory of *)
(* one or two clusters filled with three groups of entries, and a file     *)
(* whose clusters are consecutive, scattered, unreadable in part or end in *)
(* another marker than the one the code knows, which is an address that    *)
(* wraps to a sector of the disk or to none.                               *)
(***************************************************************************)
EXTENDS Fat32

Entry0(state, attrib, part, last, clust, bytes) ==
  [first |-> state, attrib |-> attrib, part |-> part, last |-> last, st_clust |-> clust, size |-> bytes]
Long(part, last) == Entry0("live", "lfn", part, last, 0, 0)
Free == Entry0("free", "plain", "", FALSE, 0, 0)

\* Groups of entries: a file with a short name, one with a long name of two or
\* three entries, a directory, a deleted long name with its file, the label.
Groups(bytes) ==
  {<<Entry0("live", "archive", "a", FALSE, 7, bytes)>>,
   <<Long("m2", TRUE), Long("m1", FALSE), Entry0("live", "archive", "m", FALSE, 7, bytes)>>,
   <<Long("z3", TRUE), Long("z2", FALSE), Long("z1", FALSE), Entry0("live", "plain", "z", FALSE, 0, 0)>>,
   <<Entry0("live", "dir", "d", FALSE, 0, 0)>>,
   <<Entry0("deleted", "lfn", "x1", TRUE, 0, 0), Entry0("deleted", "archive", "x", FALSE, 7, bytes)>>,
   <<Entry0("live", "label", "v", FALSE, 0, 0)>>}

\* Root directory: <<sectors per cluster, its clusters>>.
Layouts == {<<2, <<2>> >>, <<1, <<2, 3>> >>, <<1, <<2, 5>> >>, <<2, <<2, 4>> >>, <<1, <<2, 3, 5>> >>}

\* The clusters of the file, the end of a chain and what is found behind it when
\* the code follows it (Off: the sector is not on the disk), and sizes: one
\* byte in the last cluster, and all of it.  What is found never leads back: on
\* such a volume the code turns for ever and its list grows without bound.
Chains == {<<7>>, <<7, 8>>, <<7, 9>>, <<7, 8, 9>>}
Off == -1
Ends == {<<EOF, Off>>} \union (OtherEnds \X {Off, EOF, 20})
Sizes(spc, chain) == {SectorBytes * spc * (Len(chain) - 1) + 1, SectorBytes * spc * Len(chain)}

Volume(layout, groups, chain, rootend, end, broken) ==
  LET spc == layout[1]
      root == layout[2]
      es == groups[1] \o groups[2] \o groups[3]
      at(s) == CHOOSE n \in 1 .. Len(root) : root[n] = s \div spc
      clusters == {root[n] : n \in DOMAIN root} \union {chain[n] : n \in DOMAIN chain}
      next(c, s, e) == LET n == CHOOSE h \in DOMAIN s : s[h] = c IN IF n = Len(s) THEN e ELSE s[n + 1]
      past == {m \in {rootend, end} : m[2] # Off}
  IN [spc |-> spc, boot |-> broken # "boot", dirs |-> {2}, base |-> 4,
      fat |-> [c \in clusters \union {0} \union {m[1] : m \in past} |->
                 IF c = 0 THEN CHOOSE m \in OtherEnds : TRUE    \* the media byte
                 ELSE IF \E n \in DOMAIN root : root[n] = c THEN next(c, root, rootend[1])
                 ELSE IF \E n \in DOMAIN chain : chain[n] = c THEN next(c, chain, end[1])
                 ELSE (CHOOSE m \in past : m[1] = c)[2]],
      badfat |-> IF broken = "fat" THEN {7} ELSE IF broken = "rootfat" THEN {2} ELSE {},
      last |-> 25,
      bad |-> IF broken = "data" THEN {8 * spc} ELSE IF broken = "root" THEN {2 * spc + 1} ELSE {},
      chains |-> {root, chain},
      dir |-> [s \in {r * spc + n : r \in {root[h] : h \in DOMAIN root}, n \in 0 .. spc - 1} |->
                 [n \in 1 .. PerSector |->
                    LET p == (at(s) - 1) * spc * PerSector + (s % spc) * PerSector + n
                    IN IF p <= Len(es) THEN es[p] ELSE Free]]]

Fits(layout, groups) ==
  Len(groups[1]) + Len(groups[2]) + Len(groups[3]) <= layout[1] * Len(layout[2]) * PerSector

\* All directories with one file, and one directory with all ends.
Known == <<EOF, Off>>
DirVolumes ==
  UNION {{Volume(layout, groups, <<7>>, Known, Known, broken)
            : groups \in {g \in Groups(1) \X Groups(1) \X Groups(1) : Fits(layout, g)},
              broken \in {"", "root", "rootfat", "boot"}}
         : layout \in Layouts}
File(bytes) == <<Entry0("live", "archive", "a", FALSE, 7, bytes)>>
EndVolumes == {Volume(layout, <<File(1), <<>>, <<>> >>, <<7>>, end, Known, "") : layout \in Layouts, end \in Ends}

\* All files in one directory.
FileVolumes ==
  UNION {UNION {{Volume(<<spc, <<2>> >>, <<File(bytes), <<>>, <<>> >>, chain, Known, end, broken)
                   : bytes \in Sizes(spc, chain), end \in Ends, broken \in {"", "data", "fat"}}
                : chain \in Chains}
         : spc \in {1, 2}}

\* Files on volumes without a defect, all ends being known.
SoundVolumes ==
  {v \in FileVolumes : v.bad = {} /\ v.badfat = {} /\ \A c \in DOMAIN v.fat \ {0} : v.fat[c] \notin OtherEnds}

SomeGoals == {<<"a">>, <<"m1", "m2">>, <<"m">>, <<"z1", "z2", "z3">>, <<"d">>}

AllVolumes == DirVolumes \union EndVolumes \union FileVolumes
=============================================================================
