--------------------------- MODULE FsShellProofs ---------------------------
(***************************************************************************)
(* fs.c for every set of modules, partition list, directory tree and path: *)
(* the types, the pointers to the driver in use, and the listing of a      *)
(* kernel that has only its compiled-in driver.  Then the vfat module that *)
(* fs.c loads, for every FAT volume: the listing and the file it returns.  *)
(***************************************************************************)
EXTENDS FsShell, Fat32, FiniteSetTheorems, SequenceTheorems, WellFoundedInduction, TLAPS

USE DEF pointers

\* Unlinking a node behind the first keeps a list of drivers, and keeps the
\* node before it in its place.
LEMMA WithoutFacts ==
  ASSUME fs_drv_list \in Seq(Drivers), NEW j \in DOMAIN fs_drv_list \ {1}
  PROVE  /\ Without(j) \in Seq(Drivers)
         /\ j - 1 \in DOMAIN fs_drv_list
         /\ j - 1 \in DOMAIN Without(j)
         /\ Without(j)[j - 1] = fs_drv_list[j - 1]
         /\ 1 \in DOMAIN Without(j) /\ Without(j)[1] = fs_drv_list[1]
         /\ \A e \in DOMAIN Without(j) \ {1} :
              \E l \in DOMAIN fs_drv_list \ {1} : Without(j)[e] = fs_drv_list[l]
<1> DEFINE L == Len(fs_drv_list)
           s1 == SubSeq(fs_drv_list, 1, j - 1)
           s2 == SubSeq(fs_drv_list, j + 1, L)
<1>1. L \in Nat /\ j \in 2 .. L /\ \A e \in 1 .. L : fs_drv_list[e] \in Drivers
  OBVIOUS
<1>2. /\ s1 \in Seq(Drivers) /\ Len(s1) = j - 1
      /\ \A e \in 1 .. j - 1 : s1[e] = fs_drv_list[e]
  <2>1. \A e \in 1 .. j - 1 : fs_drv_list[e] \in Drivers
    BY <1>1
  <2>2. /\ s1 \in Seq(Drivers)
        /\ Len(s1) = IF 1 <= j - 1 THEN (j - 1) - 1 + 1 ELSE 0
        /\ \A e \in 1 .. (j - 1) - 1 + 1 : s1[e] = fs_drv_list[1 + e - 1]
    BY <2>1, <1>1, SubSeqProperties
  <2>3. (j - 1) - 1 + 1 = j - 1 /\ \A e \in 1 .. j - 1 : 1 + e - 1 = e
    BY <1>1
  <2> QED BY <2>2, <2>3, <1>1
<1>3. /\ s2 \in Seq(Drivers) /\ Len(s2) \in Nat /\ Len(s2) = L - j
      /\ \A e \in 1 .. L - j : s2[e] = fs_drv_list[j + e]
  <2>1. \A e \in j + 1 .. L : fs_drv_list[e] \in Drivers
    BY <1>1
  <2>2. /\ s2 \in Seq(Drivers)
        /\ Len(s2) = IF j + 1 <= L THEN L - (j + 1) + 1 ELSE 0
        /\ \A e \in 1 .. L - (j + 1) + 1 : s2[e] = fs_drv_list[j + 1 + e - 1]
    BY <2>1, <1>1, SubSeqProperties
  <2>3. L - (j + 1) + 1 = L - j /\ \A e \in 1 .. L - j : j + 1 + e - 1 = j + e
    BY <1>1
  <2> QED BY <2>2, <2>3, <1>1, SMTT(30)
<1>4. /\ s1 \o s2 \in Seq(Drivers)
      /\ Len(s1 \o s2) = Len(s1) + Len(s2)
      /\ \A e \in 1 .. Len(s1) + Len(s2) : (s1 \o s2)[e] = IF e <= Len(s1) THEN s1[e] ELSE s2[e - Len(s1)]
  BY <1>2, <1>3, ConcatProperties
<1>5. Without(j) = s1 \o s2
  BY DEF Without
<1> HIDE DEF s1, s2
<1>6. j - 1 \in 1 .. Len(s1) + Len(s2) /\ j - 1 <= Len(s1) /\ j - 1 \in 1 .. L
  BY <1>1, <1>2, <1>3
<1>7. (s1 \o s2)[j - 1] = fs_drv_list[j - 1]
  BY <1>6, <1>4, <1>2, <1>1
<1>8. j - 1 \in DOMAIN (s1 \o s2)
  BY <1>6, <1>4
<1>9. 1 \in DOMAIN (s1 \o s2) /\ (s1 \o s2)[1] = fs_drv_list[1]
  <2>1. 1 \in 1 .. Len(s1) + Len(s2) /\ 1 <= Len(s1) /\ 1 \in 1 .. j - 1
    BY <1>1, <1>2, <1>3
  <2> QED BY <2>1, <1>4, <1>2
<1>10. ASSUME NEW e \in DOMAIN (s1 \o s2) \ {1}
       PROVE  \E l \in DOMAIN fs_drv_list \ {1} : (s1 \o s2)[e] = fs_drv_list[l]
  <2>1. e \in 1 .. Len(s1) + Len(s2) /\ e # 1
    BY <1>2, <1>3, <1>4
  <2>2. e \in 2 .. L - 1
    BY <2>1, <1>1, <1>2, <1>3, SMTT(30)
  <2>3. (s1 \o s2)[e] = IF e <= j - 1 THEN s1[e] ELSE s2[e - (j - 1)]
    BY <2>1, <1>2, <1>4
  <2>4. CASE e <= j - 1
    <3>1. e \in 1 .. j - 1 /\ e \in 2 .. L
      BY <2>2, <2>4, <1>1
    <3>2. (s1 \o s2)[e] = fs_drv_list[e]
      BY <2>3, <2>4, <3>1, <1>2
    <3>3. e \in DOMAIN fs_drv_list \ {1}
      BY <3>1, <1>1
    <3> QED BY <3>2, <3>3
  <2>5. CASE ~(e <= j - 1)
    <3>1. e - (j - 1) \in 1 .. L - j /\ j + (e - (j - 1)) \in 2 .. L
      BY <2>2, <2>5, <1>1
    <3>2. (s1 \o s2)[e] = fs_drv_list[j + (e - (j - 1))]
      BY <2>3, <2>5, <3>1, <1>3
    <3>3. j + (e - (j - 1)) \in DOMAIN fs_drv_list \ {1}
      BY <3>1, <1>1, SMTT(30)
    <3> QED BY <3>2, <3>3
  <2> QED BY <2>4, <2>5
<1> QED BY <1>4, <1>5, <1>6, <1>7, <1>8, <1>9, <1>10

\* The constants that the types need.
LEMMA Consts ==
  /\ Null \notin Drivers /\ "ext2" \in Drivers /\ Root \in Dirs
  /\ Boot \in Mount
  /\ Len(Parts) \in Nat /\ DOMAIN Parts = 1 .. Len(Parts)
<1>1. Null \notin Drivers /\ "ext2" \in Drivers /\ Root \in Dirs /\ Parts \in Seq([type : Types, drive : Nat])
  BY FsAssumption DEF Drivers
<1>2. Boot \in Mount
  BY <1>1 DEF Boot, Mount
<1> QED BY <1>1, <1>2

\* A listing of a driver's state is a listing.
LEMMA ListingType ==
  ASSUME NEW d \in Drivers, NEW m \in Mount
  PROVE  ListingOf(d, m) \in Listing
  BY DEF ListingOf, Listing

\* The kernel starts with ext2 registered and nothing in use.
LEMMA InitFs == Init => TypeOK /\ ActiveRegistered
  BY Consts DEF Init, TypeOK, ActiveRegistered

\* root: the pointers and the listing are of a driver of the list.
LEMMA RootStep ==
  ASSUME TypeOK, ActiveRegistered, NEW n \in 0 .. Len(Parts) + 1, cmd_root(n)
  PROVE  TypeOK' /\ ActiveRegistered'
<1>1. pc = "shell" /\ UNCHANGED <<fs_drv_list, pc, rest>>
  BY DEF cmd_root
<1>2. CASE \E j \in DOMAIN fs_drv_list : RootFound(n, j)
  <2>1. PICK j \in DOMAIN fs_drv_list : RootFound(n, j)
    BY <1>2
  <2> DEFINE d == fs_drv_list[j]
             m == [part |-> IF n \in DOMAIN Parts THEN n ELSE 0, drive |-> 0, dir |-> Root]
  <2>2. d \in Drivers /\ m \in Mount
    BY Consts DEF TypeOK, Mount
  <2>3. /\ drv_root' = d /\ drv_chdir' = d /\ drv_loadfile' = d
        /\ mount' = [mount EXCEPT ![d] = m] /\ fs_prop' = ListingOf(d, m)
    BY <2>1 DEF RootFound, UsePointers
  <2> HIDE DEF m
  <2>4. fs_prop' \in Listing /\ mount' \in [Drivers -> Mount]
    BY <2>2, <2>3, ListingType DEF TypeOK
  <2> QED BY <1>1, <2>2, <2>3, <2>4, Consts DEF TypeOK, ActiveRegistered
<1>3. CASE UNCHANGED <<drv_root, drv_chdir, drv_loadfile, mount, fs_prop>>
  BY <1>1, <1>3 DEF TypeOK, ActiveRegistered
<1> QED BY <1>2, <1>3 DEF cmd_root

\* What the listing is after a failed chdir.
LEMMA FailedType ==
  ASSUME TypeOK, drv_chdir # Null, NEW toolong \in BOOLEAN, FailedChdir(toolong)
  PROVE  fs_prop' \in Listing \union {Null}
<1>1. ListingOf(drv_chdir, mount[drv_chdir]) \in Listing
  BY ListingType DEF TypeOK
<1> QED BY <1>1 DEF FailedChdir, TypeOK

\* cd and its steps leave the pointers alone.
LEMMA CdStep ==
  ASSUME TypeOK, ActiveRegistered, (\E path \in Paths : cmd_cd(path)) \/ chdir
  PROVE  TypeOK' /\ ActiveRegistered'
<1>1. CASE \E path \in Paths : cmd_cd(path)
  <2>1. PICK path \in Paths : cmd_cd(path)
    BY <1>1
  <2>2. UNCHANGED <<fs_drv_list, drv_root, drv_chdir, drv_loadfile, mount>>
    BY <2>1 DEF cmd_cd
  <2>3. path \in Seq(Names) /\ MaxDepth \in Nat /\ Len(path) \in Nat
    BY FsAssumption
  <2>4. CASE drv_chdir = Null
    <3>1. fs_prop' = Null /\ UNCHANGED <<pc, rest>>
      BY <2>1, <2>4 DEF cmd_cd
    <3> QED BY <2>2, <3>1 DEF TypeOK, ActiveRegistered
  <2>5. CASE drv_chdir # Null /\ Len(path) > MaxDepth
    <3>0. ~(Len(path) <= MaxDepth)
      BY <2>3, <2>5
    <3>1. FailedChdir(TRUE) /\ UNCHANGED <<pc, rest>>
      BY <2>1, <2>5, <3>0, Zenon DEF cmd_cd
    <3>2. fs_prop' \in Listing \union {Null}
      BY <3>1, <2>5, FailedType
    <3> QED BY <2>2, <3>1, <3>2 DEF TypeOK, ActiveRegistered
  <2>6. CASE drv_chdir # Null /\ Len(path) <= MaxDepth
    <3>0. ~(Len(path) > MaxDepth)
      BY <2>3, <2>6
    <3>1. pc' = "chdir" /\ rest' = path /\ UNCHANGED fs_prop
      BY <2>1, <2>6, <3>0, Zenon DEF cmd_cd
    <3> QED BY <2>2, <2>3, <2>6, <3>1 DEF TypeOK, ActiveRegistered
  <2> QED BY <2>3, <2>4, <2>5, <2>6
<1>2. CASE chdir_enter
  <2>1. /\ UNCHANGED <<fs_drv_list, drv_root, drv_chdir, drv_loadfile, fs_prop, pc>>
        /\ Target \in Dirs /\ mount' = [mount EXCEPT ![drv_chdir].dir = Target]
        /\ rest # <<>> /\ rest' = Tail(rest)
    BY <1>2 DEF chdir_enter
  <2>2. rest' \in Seq(Names)
    BY <2>1, HeadTailProperties DEF TypeOK
  <2>3. mount' \in [Drivers -> Mount]
    BY <2>1 DEF TypeOK, Mount
  <2> QED BY <2>1, <2>2, <2>3 DEF TypeOK, ActiveRegistered
<1>3. CASE chdir_fail
  <2>1. /\ UNCHANGED <<fs_drv_list, drv_root, drv_chdir, drv_loadfile, mount>>
        /\ pc' = "shell" /\ rest' = <<>> /\ FailedChdir(FALSE) /\ drv_chdir # Null
    BY <1>3 DEF chdir_fail, TypeOK
  <2>2. fs_prop' \in Listing \union {Null}
    BY <2>1, FailedType
  <2> QED BY <2>1, <2>2 DEF TypeOK, ActiveRegistered
<1>4. CASE chdir_done
  <2>1. /\ UNCHANGED <<fs_drv_list, drv_root, drv_chdir, drv_loadfile, mount, rest>>
        /\ pc' = "shell" /\ drv_chdir # Null
        /\ fs_prop' = ListingOf(drv_chdir, mount[drv_chdir])
    BY <1>4 DEF chdir_done, TypeOK
  <2>2. fs_prop' \in Listing
    BY <2>1, ListingType DEF TypeOK
  <2> QED BY <2>1, <2>2 DEF TypeOK, ActiveRegistered
<1> QED BY <1>1, <1>2, <1>3, <1>4 DEF chdir

\* ldmod: the list only grows, or the machine starts again.
LEMMA LdmodStep ==
  ASSUME TypeOK, ActiveRegistered, cmd_ldmod
  PROVE  TypeOK' /\ ActiveRegistered'
<1>1. CASE \E m \in Modules : ldmod_register(m)
  <2>1. PICK m \in Modules : ldmod_register(m)
    BY <1>1
  <2>2. /\ fs_drv_list' = Append(fs_drv_list, m) /\ m \in Drivers
        /\ UNCHANGED <<drv_root, drv_chdir, drv_loadfile, mount, fs_prop, pc, rest>>
    BY <2>1 DEF ldmod_register, Drivers
  <2>3. fs_drv_list' \in Seq(Drivers)
    BY <2>2 DEF TypeOK
  <2>4. \A j \in DOMAIN fs_drv_list : j \in DOMAIN fs_drv_list' /\ fs_drv_list'[j] = fs_drv_list[j]
    BY <2>2 DEF TypeOK
  <2> QED BY <2>2, <2>3, <2>4 DEF TypeOK, ActiveRegistered
<1>2. CASE ldmod_bad
  BY <1>2 DEF ldmod_bad, TypeOK, ActiveRegistered
<1>3. CASE ldmod_reset
  BY <1>3, Consts DEF ldmod_reset, UsePointers, TypeOK, ActiveRegistered
<1> QED BY <1>1, <1>2, <1>3 DEF cmd_ldmod

\* rmdrv of a driver that is not the first: the driver before the removed one
\* is still on the list.
LEMMA RmdrvStep ==
  ASSUME TypeOK, ActiveRegistered, NEW m \in Drivers,
         fs_drv_list # <<>> => Head(fs_drv_list) # m, cmd_rmdrv(m)
  PROVE  TypeOK' /\ ActiveRegistered'
<1>1. pc = "shell" /\ UNCHANGED <<mount, fs_prop, pc, rest>> /\ unregister_module(m)
  BY DEF cmd_rmdrv
<1>2. ~FirstAt(1, m)
  BY DEF FirstAt, TypeOK
<1>3. CASE \E j \in DOMAIN fs_drv_list \ {1} : unregister_inner(j)
  <2>1. PICK j \in DOMAIN fs_drv_list \ {1} : unregister_inner(j)
    BY <1>3
  <2>2. /\ fs_drv_list' = Without(j)
        /\ drv_root' = fs_drv_list[j - 1] /\ drv_chdir' = fs_drv_list[j - 1]
        /\ drv_loadfile' = fs_drv_list[j - 1]
    BY <2>1 DEF unregister_inner, UsePointers
  <2>3. /\ fs_drv_list' \in Seq(Drivers)
        /\ j - 1 \in DOMAIN fs_drv_list /\ j - 1 \in DOMAIN fs_drv_list'
        /\ fs_drv_list'[j - 1] = fs_drv_list[j - 1]
    BY <2>2, WithoutFacts DEF TypeOK
  <2>4. fs_drv_list[j - 1] \in Drivers
    BY <2>3 DEF TypeOK
  <2> QED BY <1>1, <2>2, <2>3, <2>4, Consts DEF TypeOK, ActiveRegistered
<1>4. CASE UNCHANGED <<fs_drv_list, drv_root, drv_chdir, drv_loadfile>>
  BY <1>1, <1>4 DEF TypeOK, ActiveRegistered
<1> QED BY <1>1, <1>2, <1>3, <1>4 DEF unregister_module

\* Every step of a user who keeps the first driver.
LEMMA GuardedStep ==
  ASSUME TypeOK, ActiveRegistered, [GuardedNext]_vars
  PROVE  TypeOK' /\ ActiveRegistered'
<1>1. CASE UNCHANGED vars
  BY <1>1 DEF vars, TypeOK, ActiveRegistered
<1> QED BY <1>1, RootStep, CdStep, LdmodStep, RmdrvStep DEF GuardedNext, Commands

\* The types, whatever the modules, partitions and directories are.
THEOREM FsTypes == GuardedSpec => []TypeOK
  BY InitFs, GuardedStep, PTL DEF GuardedSpec

\* Whatever is loaded and removed behind the first driver, the three pointers
\* fs.c calls through belong to one registered driver.
THEOREM PointersRegistered == GuardedSpec => []ActiveRegistered
  BY InitFs, GuardedStep, PTL DEF GuardedSpec

-----------------------------------------------------------------------------
\* Every step that moves ext2 or ends its cd leaves the listing of the
\* directory ext2 is in; the steps of the modules leave ext2 alone.
LEMMA Ext2ShownStep ==
  ASSUME TypeOK, Ext2Shown, [GuardedNext]_vars
  PROVE  Ext2Shown'
<1>1. CASE \E n \in 0 .. Len(Parts) + 1 : cmd_root(n)
  <2>1. PICK n \in 0 .. Len(Parts) + 1 : cmd_root(n)
    BY <1>1
  <2>2. CASE \E j \in DOMAIN fs_drv_list : RootFound(n, j)
    <3>1. PICK j \in DOMAIN fs_drv_list : RootFound(n, j)
      BY <2>2
    <3>2. fs_drv_list[j] \in Drivers
      BY DEF TypeOK
    <3>3. fs_prop'.mount = mount'[fs_prop'.driver]
      BY <3>1, <3>2 DEF RootFound, ListingOf, TypeOK
    <3> QED BY <3>3 DEF Ext2Shown
  <2>3. CASE UNCHANGED <<drv_root, drv_chdir, drv_loadfile, mount, fs_prop>>
    BY <2>1, <2>3 DEF cmd_root, Ext2Shown
  <2> QED BY <2>1, <2>2, <2>3 DEF cmd_root
<1>2. CASE \E path \in Paths : cmd_cd(path)
  <2>1. PICK path \in Paths : cmd_cd(path)
    BY <1>2
  <2>2. pc = "shell" /\ mount' = mount /\ drv_chdir' = drv_chdir
    BY <2>1 DEF cmd_cd
  <2>3. \/ fs_prop' = Null
        \/ fs_prop' = fs_prop
        \/ fs_prop' = ListingOf(drv_chdir, mount[drv_chdir])
    BY <2>1 DEF cmd_cd, FailedChdir
  <2> QED BY <2>2, <2>3 DEF Ext2Shown, ListingOf
<1>3. CASE chdir_enter
  <2>1. /\ pc = "chdir" /\ pc' = pc /\ drv_chdir' = drv_chdir /\ fs_prop' = fs_prop
        /\ mount' = [mount EXCEPT ![drv_chdir].dir = Target]
    BY <1>3 DEF chdir_enter
  <2>2. drv_chdir # "ext2" => mount'["ext2"] = mount["ext2"]
    BY <2>1 DEF TypeOK, Drivers
  <2> QED BY <2>1, <2>2 DEF Ext2Shown
<1>4. CASE chdir_fail \/ chdir_done
  <2>1. pc = "chdir" /\ mount' = mount /\ drv_chdir' = drv_chdir
    BY <1>4 DEF chdir_fail, chdir_done
  <2>2. \/ fs_prop' = ListingOf(drv_chdir, mount[drv_chdir])
        \/ drv_chdir # "ext2" /\ fs_prop' = fs_prop
    BY <1>4 DEF chdir_fail, chdir_done, FailedChdir
  <2> QED BY <2>1, <2>2 DEF Ext2Shown, ListingOf
<1>5. CASE cmd_ldmod
  BY <1>5 DEF cmd_ldmod, ldmod_register, ldmod_bad, ldmod_reset, Ext2Shown
<1>6. CASE \E m \in Drivers : cmd_rmdrv(m)
  BY <1>6 DEF cmd_rmdrv, Ext2Shown
<1>7. CASE UNCHANGED vars
  BY <1>7 DEF vars, Ext2Shown
<1> QED BY <1>1, <1>2, <1>3, <1>4, <1>5, <1>6, <1>7 DEF GuardedNext, Commands, chdir

\* The listing of ext2 is always of the directory ext2 is in, however a cd
\* ended and whatever modules are loaded, used and removed.
THEOREM Ext2Listing == GuardedSpec => []Ext2Shown
<1>1. Init => Ext2Shown
  BY DEF Init, Ext2Shown
<1>2. TypeOK /\ Ext2Shown /\ [GuardedNext]_vars => Ext2Shown'
  BY Ext2ShownStep
<1> QED BY <1>1, <1>2, FsTypes, PTL DEF GuardedSpec

-----------------------------------------------------------------------------
\* Driver d works on a partition it belongs on.
Rooted(d) == Suits(d, mount[d].part)

\* ext2 is first and only modules are behind it; a module can only be loaded
\* with ext2 rooted, and the pointers never come back to a driver without a root.
RootedInv ==
  /\ 1 \in DOMAIN fs_drv_list /\ fs_drv_list[1] = "ext2"
  /\ \A j \in DOMAIN fs_drv_list \ {1} : fs_drv_list[j] \in Modules
  /\ drv_chdir = Null => Len(fs_drv_list) = 1
  /\ drv_chdir # Null => Rooted("ext2") /\ Rooted(drv_chdir)
  /\ RootMatches

\* The listing of a rooted driver.
LEMMA RootedListing ==
  ASSUME NEW d, Rooted(d), fs_prop' = ListingOf(d, mount[d])
  PROVE  RootMatches'
  BY DEF Rooted, ListingOf, RootMatches

LEMMA RootedByRoot ==
  ASSUME TypeOK, RootedInv, NEW n \in 0 .. Len(Parts) + 1, cmd_root(n)
  PROVE  RootedInv'
<1>1. fs_drv_list' = fs_drv_list
  BY DEF cmd_root
<1>2. CASE \E t \in TypeBytes(n), j \in DOMAIN fs_drv_list : Handles(j, t) /\ RootFound(n, j)
  <2>1. PICK t \in TypeBytes(n), j \in DOMAIN fs_drv_list : Handles(j, t) /\ RootFound(n, j)
    BY <1>2
  <2>2. PICK d \in Drivers : d = fs_drv_list[j] /\ DriverType[d] = t
    BY <2>1 DEF TypeOK, Handles
  <2> DEFINE p == IF n \in DOMAIN Parts THEN n ELSE 0
  <2>0. 0 \notin DOMAIN Parts
    BY Consts
  <2>3. Suits(d, p)
    BY <2>0, <2>1, <2>2 DEF TypeBytes, Suits
  <2>4. PICK m \in Mount : m = [part |-> p, drive |-> 0, dir |-> Root]
    <3>1. [part |-> p, drive |-> 0, dir |-> Root] \in Mount
      BY Consts DEF Mount
    <3> QED BY <3>1
  <2>5. drv_chdir' = d /\ mount' = [mount EXCEPT ![d] = m] /\ fs_prop' = ListingOf(d, m)
    BY <2>1, <2>2, <2>3, <2>4 DEF RootFound, UsePointers
  <2>6. mount'[d] = m /\ m.part = p /\ \A e \in Drivers : e # d => mount'[e] = mount[e]
    BY <2>4, <2>5 DEF TypeOK
  <2>7. Rooted(d)'
    BY <2>3, <2>6 DEF Rooted
  <2>8. Rooted("ext2")'
    <3>1. CASE d = "ext2"
      BY <2>7, <3>1
    <3>2. CASE d # "ext2"
      <4>1. drv_chdir # Null
        BY <2>1, <2>2, <3>2 DEF RootedInv, TypeOK
      <4>2. Rooted("ext2") /\ mount'["ext2"] = mount["ext2"]
        BY <2>6, <3>2, <4>1, Consts DEF RootedInv
      <4> QED BY <4>2 DEF Rooted
    <3> QED BY <3>1, <3>2
  <2>9. RootMatches'
    BY <2>3, <2>5, <2>6 DEF RootMatches, ListingOf
  <2>10. d # Null
    BY Consts
  <2> QED BY <1>1, <2>5, <2>7, <2>8, <2>9, <2>10 DEF RootedInv
<1>3. CASE UNCHANGED <<drv_root, drv_chdir, drv_loadfile, mount, fs_prop>>
  BY <1>1, <1>3 DEF RootedInv, Rooted, RootMatches
<1> QED BY <1>2, <1>3 DEF cmd_root

LEMMA RootedByCd ==
  ASSUME TypeOK, RootedInv, (\E path \in Paths : cmd_cd(path)) \/ chdir
  PROVE  RootedInv'
<1>1. fs_drv_list' = fs_drv_list /\ drv_chdir' = drv_chdir
  BY DEF cmd_cd, chdir, chdir_enter, chdir_fail, chdir_done
<1>2. \A d \in Drivers : mount'[d].part = mount[d].part
  <2>1. CASE chdir_enter
    <3>1. pc = "chdir" /\ mount' = [mount EXCEPT ![drv_chdir].dir = Target]
      BY <2>1 DEF chdir_enter
    <3>2. drv_chdir \in Drivers
      BY <3>1 DEF TypeOK
    <3> QED BY <3>1, <3>2 DEF TypeOK, Mount
  <2>2. CASE mount' = mount
    BY <2>2
  <2> QED BY <2>1, <2>2 DEF cmd_cd, chdir, chdir_fail, chdir_done
<1>3. \A d \in Drivers : Rooted(d)' = Rooted(d)
  BY <1>2 DEF Rooted
<1>4. \/ fs_prop' = fs_prop \/ fs_prop' = Null
      \/ drv_chdir # Null /\ fs_prop' = ListingOf(drv_chdir, mount[drv_chdir])
  BY DEF cmd_cd, chdir, chdir_enter, chdir_fail, chdir_done, FailedChdir, TypeOK
<1>5. RootMatches'
  BY <1>4, RootedListing DEF RootedInv, RootMatches
<1>6. drv_chdir \in Drivers \union {Null} /\ "ext2" \in Drivers
  BY Consts DEF TypeOK
<1> QED BY <1>1, <1>3, <1>5, <1>6 DEF RootedInv

LEMMA RootedByLdmod ==
  ASSUME TypeOK, ActiveRegistered, RootedInv, cmd_ldmod
  PROVE  RootedInv'
<1>1. CASE \E m \in Modules : ldmod_register(m)
  <2>1. PICK m \in Modules : ldmod_register(m)
    BY <1>1
  <2>2. /\ fs_drv_list' = Append(fs_drv_list, m) /\ drv_chdir # Null
        /\ UNCHANGED <<drv_root, drv_chdir, drv_loadfile, mount, fs_prop, pc, rest>>
    BY <2>1 DEF ldmod_register, ActiveRegistered
  <2>3. /\ 1 \in DOMAIN fs_drv_list' /\ fs_drv_list'[1] = "ext2"
        /\ \A j \in DOMAIN fs_drv_list' \ {1} : fs_drv_list'[j] \in Modules
    BY <2>2 DEF TypeOK, RootedInv
  <2> QED BY <2>2, <2>3 DEF RootedInv, Rooted, RootMatches
<1>2. CASE ldmod_bad
  BY <1>2 DEF ldmod_bad, RootedInv, Rooted, RootMatches
<1>3. CASE ldmod_reset
  BY <1>3 DEF ldmod_reset, UsePointers, RootedInv, RootMatches
<1> QED BY <1>1, <1>2, <1>3 DEF cmd_ldmod

LEMMA RootedByRmdrv ==
  ASSUME TypeOK, RootedInv, NEW m \in Drivers, \A a, b \in Modules : a = b,
         fs_drv_list # <<>> => Head(fs_drv_list) # m, cmd_rmdrv(m)
  PROVE  RootedInv'
<1>1. UNCHANGED <<mount, fs_prop>> /\ unregister_module(m)
  BY DEF cmd_rmdrv
<1>2. ~FirstAt(1, m)
  BY DEF FirstAt, TypeOK
<1>3. CASE \E j \in DOMAIN fs_drv_list \ {1} : FirstAt(j, m) /\ unregister_inner(j)
  <2>1. PICK j \in DOMAIN fs_drv_list \ {1} : FirstAt(j, m) /\ unregister_inner(j)
    BY <1>3
  <2>2. fs_drv_list' = Without(j) /\ drv_chdir' = fs_drv_list[j - 1]
    BY <2>1 DEF unregister_inner, UsePointers
  <2>3. /\ j - 1 \in DOMAIN fs_drv_list
        /\ 1 \in DOMAIN Without(j) /\ Without(j)[1] = fs_drv_list[1]
        /\ \A e \in DOMAIN Without(j) \ {1} :
             \E l \in DOMAIN fs_drv_list \ {1} : Without(j)[e] = fs_drv_list[l]
    BY WithoutFacts DEF TypeOK
  <2>4. /\ 1 \in DOMAIN fs_drv_list' /\ fs_drv_list'[1] = "ext2"
        /\ \A e \in DOMAIN fs_drv_list' \ {1} : fs_drv_list'[e] \in Modules
    BY <2>2, <2>3 DEF RootedInv
  <2>5. fs_drv_list[j - 1] = "ext2"
    <3>1. fs_drv_list[j] = m /\ m \in Modules /\ fs_drv_list[j - 1] # m
      <4>1. j - 1 \in 1 .. j - 1
        BY <2>3 DEF TypeOK
      <4> QED BY <2>1, <4>1 DEF FirstAt, RootedInv
    <3>2. j - 1 = 1
      BY <2>3, <3>1 DEF RootedInv
    <3> QED BY <3>2 DEF RootedInv
  <2>6. drv_chdir # Null
    BY <2>1 DEF RootedInv, TypeOK
  <2>7. Rooted("ext2")' /\ RootMatches'
    BY <1>1, <2>6 DEF RootedInv, Rooted, RootMatches
  <2> QED BY <2>2, <2>4, <2>5, <2>7, Consts DEF RootedInv
<1>4. CASE UNCHANGED <<fs_drv_list, drv_root, drv_chdir, drv_loadfile>>
  BY <1>1, <1>4 DEF RootedInv, Rooted, RootMatches
<1> QED BY <1>1, <1>2, <1>3, <1>4 DEF unregister_module

\* What ls shows of a Linux or FAT32 partition was read by the driver of its
\* type, whatever was loaded, removed and left by a cd, and whatever the heap
\* holds in the type bytes the scan does not write; another partition, or none,
\* is shown only by a driver whose type is such a byte.  This is for one
\* loadable driver, as in the repository.
THEOREM ListingsRooted ==
  ASSUME \A a, b \in Modules : a = b
  PROVE  GuardedSpec => []RootMatches
<1>1. Init => RootedInv
  BY DEF Init, RootedInv, RootMatches
<1>2. ASSUME TypeOK, ActiveRegistered, RootedInv, [GuardedNext]_vars PROVE RootedInv'
  <2>1. CASE UNCHANGED vars
    BY <1>2, <2>1 DEF vars, RootedInv, Rooted, RootMatches
  <2>2. CASE \E n \in 0 .. Len(Parts) + 1 : cmd_root(n)
    BY <1>2, <2>2, RootedByRoot
  <2>3. CASE (\E path \in Paths : cmd_cd(path)) \/ chdir
    BY <1>2, <2>3, RootedByCd
  <2>4. CASE cmd_ldmod
    BY <1>2, <2>4, RootedByLdmod
  <2>5. CASE \E m \in Drivers : (fs_drv_list # <<>> => Head(fs_drv_list) # m) /\ cmd_rmdrv(m)
    BY <1>2, <2>5, RootedByRmdrv
  <2> QED BY <1>2, <2>1, <2>2, <2>3, <2>4, <2>5 DEF GuardedNext, Commands
<1>3. RootedInv => RootMatches
  BY DEF RootedInv
<1> QED BY <1>1, <1>2, <1>3, FsTypes, PointersRegistered, PTL DEF GuardedSpec

-----------------------------------------------------------------------------
\* The vfat module.

\* The least element of a set of numbers, and the greatest of a bounded one.
LEMMA LeastOf ==
  ASSUME NEW S, S \subseteq Nat, S # {}
  PROVE  \E x \in S : \A y \in S : x <= y
<1>1. PICK x \in S : \A y \in S : <<y, x>> \notin OpToRel(<, Nat)
  BY WFMin, NatLessThanWellFounded
<1>2. ASSUME NEW y \in S PROVE x <= y
  <2>1. ~(y < x)
    BY <1>1, Zenon DEF OpToRel
  <2> QED BY <2>1
<1> QED BY <1>2

\* A product that is split at a sum.
LEMMA SumTimes == \A a, b, c \in Nat : (a + b) * c = a * c + b * c /\ a * c \in Nat /\ b * c \in Nat
  OBVIOUS

\* Quotient and remainder.
LEMMA DivIs ==
  ASSUME NEW n \in Int, NEW m \in Nat \ {0}, NEW q \in Int, NEW r \in 0 .. m - 1, n = q * m + r
  PROVE  n \div m = q /\ n % m = r
  OBVIOUS

LEMMA DivSmall ==
  ASSUME NEW m \in Nat \ {0}, NEW r \in 0 .. m - 1
  PROVE  r \div m = 0 /\ r % m = r
  OBVIOUS

LEMMA DivSplit ==
  ASSUME NEW n \in Nat, NEW m \in Nat \ {0}
  PROVE  \E q \in Nat, r \in 0 .. m - 1 : n = q * m + r /\ n \div m = q /\ n % m = r
<1>1. n \div m \in Nat /\ n % m \in 0 .. m - 1 /\ n = (n \div m) * m + (n % m)
  OBVIOUS
<1> QED BY <1>1

\* A quotient is bounded by the product it is taken from.
LEMMA Below ==
  ASSUME NEW q \in Nat, NEW m \in Nat \ {0}, NEW r \in 0 .. m - 1, NEW l \in Nat, q * m + r < l * m
  PROVE  q < l
<1>1. CASE l <= q
  <2>1. PICK d \in Nat : q = l + d
    BY <1>1
  <2>2. q * m = l * m + d * m /\ d * m \in Nat /\ l * m \in Nat
    BY <2>1, SumTimes
  <2> QED BY <2>2
<1> QED BY <1>1

\* Place s of the q-th of L rows of w places.
LEMMA PlaceFacts ==
  ASSUME NEW q \in Nat, NEW w \in Nat \ {0}, NEW s \in 0 .. w - 1, NEW L \in Nat, q < L
  PROVE  /\ q * w + s \in Nat /\ q * w + s + 1 \in 1 .. L * w
         /\ (q * w + s) \div w = q /\ (q * w + s) % w = s
<1>1. PICK d \in Nat : L = q + (1 + d)
  <2>1. L - q - 1 \in Nat /\ L = q + (1 + (L - q - 1))
    OBVIOUS
  <2> QED BY <2>1
<1>2. L * w = q * w + (1 + d) * w
  BY <1>1, SumTimes
<1>3. (1 + d) * w = w + d * w
  OBVIOUS
<1>4. q * w \in Nat /\ d * w \in Nat
  BY SumTimes
<1>5. PICK x \in Nat, y \in Nat : x = q * w /\ y = d * w /\ L * w = x + (w + y)
  BY <1>2, <1>3, <1>4, Zenon
<1>6. x + s + 1 \in 1 .. L * w /\ x + s \in Nat
  BY <1>5
<1>7. (x + s) \div w = q /\ (x + s) % w = s
  <2>1. PICK N \in Int : N = x + s /\ N = q * w + s
    BY <1>5, <1>6
  <2>2. q \in Int
    OBVIOUS
  <2>3. N \div w = q /\ N % w = s
    BY <2>1, <2>2, DivIs, Zenon
  <2> QED BY <2>1, <2>3, Zenon
<1> QED BY <1>5, <1>6, <1>7, Zenon

-----------------------------------------------------------------------------
LEMMA FatConsts ==
  /\ PerSector \in Nat \ {0} /\ SectorBytes \in Nat \ {0} /\ LongMax \in Nat /\ PerSector <= LongMax
  /\ Nil \notin Goals /\ Nil # "listing" /\ Nil # "loaded"
  BY FatAssumption

LEMMA VolFacts == ASSUME vol \in Volumes PROVE VolumeOK(vol)
  BY FatAssumption

\* The chain of an intact file or directory.
LEMMA ChainFacts ==
  ASSUME vol \in Volumes, NEW c, Intact(c)
  PROVE  /\ Chain(c) \in Seq(Nat \ {0}) /\ Len(Chain(c)) \in Nat \ {0}
         /\ DOMAIN Chain(c) = 1 .. Len(Chain(c))
         /\ \A n \in 1 .. Len(Chain(c)) : Chain(c)[n] \in Nat \ {0} /\ Chain(c)[n] \in DOMAIN vol.fat \ vol.badfat
         /\ IsChain(Chain(c), c)
         /\ vol.spc \in Nat \ {0}
<1>1. Chain(c) \in vol.chains /\ IsChain(Chain(c), c)
  BY DEF Intact, Chain
<1>2. /\ vol.chains \subseteq Seq(Clusters(vol)) \ {<<>>} /\ DOMAIN vol.fat \subseteq Nat
      /\ vol.spc \in Nat \ {0}
  BY VolFacts DEF VolumeOK
<1>3. Chain(c) \in Seq(Clusters(vol)) /\ Chain(c) # <<>>
  BY <1>1, <1>2
<1>4. /\ DOMAIN Chain(c) = 1 .. Len(Chain(c)) /\ Len(Chain(c)) \in Nat \ {0}
      /\ \A n \in 1 .. Len(Chain(c)) : Chain(c)[n] \in DOMAIN vol.fat \ {0}
  <2>1. Clusters(vol) \subseteq DOMAIN vol.fat \ {0}
    BY DEF Clusters
  <2> QED BY <1>3, <2>1
<1>5. Chain(c) \in Seq(Nat \ {0})
  BY <1>2, <1>3, <1>4
<1> QED BY <1>1, <1>2, <1>4, <1>5 DEF Intact

\* The sectors of a chain, by cluster and sector of the cluster.
LEMMA SectorsLen ==
  ASSUME vol \in Volumes, NEW c, Intact(c)
  PROVE  /\ Len(SectorsOf(c)) = Len(Chain(c)) * vol.spc /\ Len(Chain(c)) * vol.spc \in Nat
         /\ DOMAIN SectorsOf(c) = 1 .. Len(Chain(c)) * vol.spc
         /\ \A n \in 1 .. Len(Chain(c)) * vol.spc :
              SectorsOf(c)[n] = Sector(Chain(c)[((n - 1) \div vol.spc) + 1], (n - 1) % vol.spc)
<1>1. PICK L \in Nat : L = Len(Chain(c)) * vol.spc
  BY ChainFacts, SumTimes
<1> QED BY <1>1 DEF SectorsOf

LEMMA SectorAt ==
  ASSUME vol \in Volumes, NEW c, Intact(c), NEW m \in 1 .. Len(Chain(c)), NEW s \in 0 .. vol.spc - 1
  PROVE  /\ (m - 1) * vol.spc + s + 1 \in 1 .. Len(Chain(c)) * vol.spc
         /\ (m - 1) * vol.spc + s \in Nat
         /\ SectorsOf(c)[(m - 1) * vol.spc + s + 1] = Sector(Chain(c)[m], s)
         /\ Readable(Sector(Chain(c)[m], s))
<1>1. PICK w \in Nat \ {0}, L \in Nat \ {0} : w = vol.spc /\ L = Len(Chain(c))
  BY ChainFacts
<1>2. PICK q \in Nat, d \in Nat : q = m - 1 /\ L = q + (1 + d) /\ q + 1 = m
  <2>1. m \in Nat /\ m >= 1 /\ m <= L /\ L - m \in Nat /\ m - 1 \in Nat
    BY <1>1
  <2>2. L = (m - 1) + (1 + (L - m)) /\ (m - 1) + 1 = m
    BY <1>1, <2>1
  <2> QED BY <2>1, <2>2
<1>3. PICK p \in Nat : p = q * w + s /\ p + 1 \in 1 .. L * w /\ p \div w = q /\ p % w = s
  <2>1. q < L /\ s \in 0 .. w - 1
    BY <1>1, <1>2
  <2>2. /\ q * w + s \in Nat /\ q * w + s + 1 \in 1 .. L * w
        /\ (q * w + s) \div w = q /\ (q * w + s) % w = s
    BY <1>1, <2>1, PlaceFacts, ZenonT(30)
  <2> QED BY <2>2, Zenon
<1>6. (p + 1) - 1 = p
  OBVIOUS
<1>7. SectorsOf(c)[p + 1] = Sector(Chain(c)[m], s)
  BY <1>1, <1>2, <1>3, <1>6, SectorsLen, ZenonT(30)
<1>8. Readable(SectorsOf(c)[p + 1])
  BY <1>1, <1>3, SectorsLen DEF Intact
<1> QED BY <1>1, <1>2, <1>3, <1>7, <1>8

-----------------------------------------------------------------------------
\* A chain of consecutive clusters.
LEMMA ContiguousChain ==
  ASSUME vol \in Volumes, NEW c, Intact(c), Contiguous(c)
  PROVE  \A m \in 1 .. Len(Chain(c)) : Chain(c)[m] = c + (m - 1)
<1> DEFINE S == {m \in 1 .. Len(Chain(c)) : Chain(c)[m] # c + (m - 1)}
<1>1. Len(Chain(c)) \in Nat \ {0} /\ Chain(c)[1] = c /\ c \in Nat
  BY ChainFacts DEF IsChain
<1>2. SUFFICES ASSUME S # {} PROVE FALSE
  OBVIOUS
<1>3. PICK x \in S : \A y \in S : x <= y
  <2>1. S \subseteq Nat
    BY <1>1
  <2> QED BY <1>2, <2>1, LeastOf, Zenon
<1>4. x \in 1 .. Len(Chain(c)) /\ x # 1
  BY <1>1, <1>3
<1>5. x - 1 \in 1 .. Len(Chain(c)) - 1 /\ x - 1 \notin S /\ (x - 1) + 1 = x
  BY <1>1, <1>3, <1>4
<1>6. Chain(c)[x - 1] = c + ((x - 1) - 1)
  BY <1>1, <1>5
<1>7. Chain(c)[x] = Chain(c)[x - 1] + 1
  BY <1>5 DEF Contiguous
<1> QED BY <1>1, <1>3, <1>4, <1>6, <1>7

LEMMA ContiguousSectors ==
  ASSUME vol \in Volumes, NEW c, Intact(c), Contiguous(c), NEW n \in 1 .. Len(Chain(c)) * vol.spc
  PROVE  /\ SectorsOf(c)[n] = Sector(c, n - 1)
         /\ Readable(Sector(c, n - 1))
<1>1. PICK w \in Nat \ {0}, L \in Nat \ {0} : w = vol.spc /\ L = Len(Chain(c))
  BY ChainFacts
<1>2. L * w \in Nat /\ n \in Nat /\ n - 1 \in Nat /\ n <= L * w
  BY <1>1, SumTimes
<1>3. PICK q \in Nat, r \in 0 .. w - 1 : n - 1 = q * w + r
  BY <1>1, <1>2, DivSplit, ZenonT(30)
<1>4. q < L
  BY <1>1, <1>2, <1>3, Below, SMTT(30)
<1>5. PICK m \in 1 .. L : m - 1 = q
  BY <1>1, <1>4
<1>6. /\ (m - 1) * w + r + 1 = n
  BY <1>2, <1>3, <1>5
<1>7. SectorsOf(c)[n] = Sector(Chain(c)[m], r) /\ Readable(Sector(Chain(c)[m], r))
  BY <1>1, <1>5, <1>6, SectorAt
<1>8. c \in Nat /\ Chain(c)[m] = c + q
  <2>1. Chain(c)[1] = c /\ Chain(c)[1] \in Nat
    BY <1>1, ChainFacts DEF IsChain
  <2>2. Chain(c)[m] = c + (m - 1)
    BY <1>1, <1>5, ContiguousChain
  <2> QED BY <1>5, <2>1, <2>2
<1>9. (c + q) * w + r = c * w + (n - 1)
  BY <1>1, <1>3, <1>8, SumTimes, SMTT(30)
<1> QED BY <1>1, <1>7, <1>8, <1>9 DEF Sector

-----------------------------------------------------------------------------
\* The sectors a file of z bytes needs: none, or one more than the last that
\* fat32_mmap copies.
LEMMA Needed ==
  ASSUME NEW z \in Nat
  PROVE  /\ z = 0 => (z + SectorBytes - 1) \div SectorBytes = 0
         /\ z > 0 => /\ CDiv(z - 1, SectorBytes) \in Nat
                     /\ (z + SectorBytes - 1) \div SectorBytes = CDiv(z - 1, SectorBytes) + 1
                     /\ \A L \in Nat : z <= L * SectorBytes => CDiv(z - 1, SectorBytes) < L
<1>1. PICK b \in Nat \ {0} : b = SectorBytes
  BY FatConsts
<1>2. CASE z = 0
  <2>1. PICK N \in Int : N = z + b - 1 /\ N = 0 * b + (b - 1)
    BY <1>2
  <2>2. 0 \in Int /\ b - 1 \in 0 .. b - 1
    OBVIOUS
  <2>3. N \div b = 0
    BY <2>1, <2>2, DivIs, Zenon
  <2> QED BY <1>1, <1>2, <2>1, <2>3
<1>3. CASE z > 0
  <2>1. PICK q \in Nat, r \in 0 .. b - 1 : z - 1 = q * b + r /\ (z - 1) \div b = q
    <3>1. z - 1 \in Nat
      BY <1>3
    <3> QED BY <3>1, DivSplit
  <2>2. CDiv(z - 1, b) = q
    BY <1>3, <2>1 DEF CDiv
  <2>3. (z + b - 1) \div b = q + 1
    <3>1. PICK N \in Int : N = z + b - 1 /\ N = (q + 1) * b + r
      <4>1. (q + 1) * b = q * b + 1 * b /\ q * b \in Nat
        BY SumTimes
      <4>2. PICK x \in Nat : x = q * b /\ (q + 1) * b = x + b
        BY <4>1
      <4> QED BY <2>1, <4>2
    <3>2. q + 1 \in Int
      OBVIOUS
    <3>3. N \div b = q + 1
      BY <3>1, <3>2, DivIs, Zenon
    <3> QED BY <3>1, <3>3
  <2>4. ASSUME NEW L \in Nat, z <= L * b PROVE q < L
    <3>1. PICK x \in Nat, y \in Nat : x = q * b /\ y = L * b
      BY SumTimes
    <3>2. q * b + r < L * b
      BY <2>1, <2>4, <3>1
    <3> QED BY <3>2, Below
  <2> QED BY <1>1, <1>3, <2>2, <2>3, <2>4
<1> QED BY <1>2, <1>3

\* Types, as far as the files need them.
FatTypes ==
  /\ vol \in Volumes /\ fat_pc \in {"idle", "sector", "entry", "listed", "mmap"}
  /\ cluster_no \in Nat /\ k \in Nat /\ i \in 0 .. PerSector - 1 /\ size \in Int
  /\ \E T : list \in Seq(T)
  /\ \A n \in DOMAIN list : list[n].size \in Nat /\ list[n].st_clust \in Nat
  /\ mem \in Seq(Nat)
  /\ fat_pc # "idle" => returned = Nil
  /\ fat_pc \in {"sector", "entry", "listed"} => mem = <<>>

\* A sector number and the memory it is added to.
LEMMA SectorNat ==
  ASSUME vol \in Volumes, NEW c \in Nat, NEW n \in Nat
  PROVE  Sector(c, n) \in Nat
<1>1. PICK w \in Nat : w = vol.spc
  BY VolFacts DEF VolumeOK
<1>2. PICK x \in Nat : x = c * w
  BY SumTimes
<1>3. x + n \in Nat
  OBVIOUS
<1> QED BY <1>1, <1>2, <1>3 DEF Sector

LEMMA HereNat ==
  ASSUME FatTypes
  PROVE  /\ Here \in Nat
         /\ Append(mem, Here) \in Seq(Nat) /\ Len(Append(mem, Here)) = Len(mem) + 1 /\ Len(mem) \in Nat
         /\ Append(mem, Here)[Len(mem) + 1] = Here
         /\ \A m \in 1 .. Len(mem) : Append(mem, Here)[m] = mem[m]
<1>1. PICK x \in Nat : x = Here
  BY SectorNat DEF Here, FatTypes
<1>2. mem \in Seq(Nat)
  BY DEF FatTypes
<1> QED BY <1>1, <1>2, AppendProperties

\* A node added to the list.
LEMMA NodeAdded ==
  ASSUME NEW T, list \in Seq(T), NEW x, list' = Append(list, x)
  PROVE  /\ list' \in Seq(T \union {x}) /\ Len(list') = Len(list) + 1 /\ Len(list) \in Nat
         /\ DOMAIN list = 1 .. Len(list) /\ DOMAIN list' = 1 .. Len(list) + 1
         /\ \A n \in 1 .. Len(list) : list'[n] = list[n]
         /\ list'[Len(list) + 1] = x
<1>1. PICK U : U = T \union {x}
  OBVIOUS
<1>2. list \in Seq(U) /\ x \in U
  BY <1>1
<1> QED BY <1>1, <1>2, AppendProperties

\* The entries of a directory, whatever is in the buffer.
LEMMA EntryFacts ==
  ASSUME vol \in Volumes, NEW s, NEW n \in 0 .. PerSector - 1
  PROVE  EntryOK(Entry(s, n))
<1>1. CASE OnDisk(s) \in DOMAIN vol.dir
  <2>1. n + 1 \in 1 .. PerSector
    BY FatConsts
  <2> QED BY <1>1, <2>1, VolFacts DEF VolumeOK, Entry
<1>2. CASE OnDisk(s) \notin DOMAIN vol.dir
  BY <1>2 DEF Entry, Stray, EntryOK
<1> QED BY <1>1, <1>2

LEMMA NodeTypes ==
  ASSUME NEW e, EntryOK(e), NEW name
  PROVE  Node(e, name).size \in Nat /\ Node(e, name).st_clust \in Nat
  BY DEF Node, EntryOK

\* A step that adds a node for an entry.
LEMMA TypesAdded ==
  ASSUME FatTypes, NEW s, NEW n \in 0 .. PerSector - 1, NEW name, list' = Append(list, Node(Entry(s, n), name))
  PROVE  /\ \E T : list' \in Seq(T)
         /\ \A m \in DOMAIN list' : list'[m].size \in Nat /\ list'[m].st_clust \in Nat
<1>1. PICK T : list \in Seq(T)
  BY DEF FatTypes
<1>2. PICK x : x = Node(Entry(s, n), name)
  OBVIOUS
<1>3. x.size \in Nat /\ x.st_clust \in Nat
  BY <1>2, EntryFacts, NodeTypes DEF FatTypes
<1>4. /\ list' \in Seq(T \union {x}) /\ Len(list) \in Nat
      /\ DOMAIN list = 1 .. Len(list) /\ DOMAIN list' = 1 .. Len(list) + 1
      /\ \A m \in 1 .. Len(list) : list'[m] = list[m]
      /\ list'[Len(list) + 1] = x
  BY <1>1, <1>2, NodeAdded
<1>5. ASSUME NEW m \in DOMAIN list' PROVE list'[m].size \in Nat /\ list'[m].st_clust \in Nat
  <2>1. m \in DOMAIN list \/ m = Len(list) + 1
    BY <1>4
  <2> QED BY <1>3, <1>4, <2>1 DEF FatTypes
<1> QED BY <1>4, <1>5

\* What fat32_rd_FAT finds.
LEMMA RdFat ==
  ASSUME vol \in Volumes, NEW c, fat32_rd_FAT(c) \notin {EOF, DISK_READ_ERR}
  PROVE  fat32_rd_FAT(c) \in Nat \ {0} /\ c \in DOMAIN vol.fat
  BY VolFacts DEF VolumeOK, fat32_rd_FAT, EOF

LEMMA AdvanceTypes ==
  ASSUME FatTypes, Advance, fat_pc = "entry"
  PROVE  i' \in 0 .. PerSector - 1 /\ k' \in Nat /\ fat_pc' \in {"sector", "entry"}
  BY FatConsts DEF FatTypes, Advance

LEMMA TypesStep ==
  ASSUME FatTypes, [FatNext]_fatVars
  PROVE  FatTypes'
<1>1. CASE UNCHANGED fatVars
  BY <1>1 DEF FatTypes, fatVars
<1>2. ASSUME NEW c \in vol.dirs, NEW name \in Goals \union {Nil}, init_fat32(c, name) PROVE FatTypes'
  <2>1. c \in Nat /\ 0 \in 0 .. PerSector - 1
    BY FatConsts, VolFacts DEF VolumeOK, FatTypes
  <2>2. <<>> \in Seq({}) /\ <<>> \in Seq(Nat) /\ DOMAIN <<>> = {}
    OBVIOUS
  <2> QED BY <1>2, <2>1, <2>2 DEF init_fat32, FatTypes
<1>3. CASE rd_sector
  BY <1>3, FatConsts DEF rd_sector, RdClusterReturn, FatTypes
<1>4. CASE rd_long
  <2>1. \E name : list' = Append(list, Node(Entry(direntry, i), name))
    BY <1>4 DEF rd_long
  <2>2. (\E T : list' \in Seq(T)) /\ \A m \in DOMAIN list' : list'[m].size \in Nat /\ list'[m].st_clust \in Nat
    BY <2>1, TypesAdded DEF FatTypes
  <2> QED BY <1>4, <2>2, AdvanceTypes DEF rd_long, FatTypes
<1>5. CASE rd_short
  <2>1. list' = list \/ \E name : list' = Append(list, Node(Entry(direntry, i), name))
    BY <1>5 DEF rd_short
  <2>2. (\E T : list' \in Seq(T)) /\ \A m \in DOMAIN list' : list'[m].size \in Nat /\ list'[m].st_clust \in Nat
    BY <2>1, TypesAdded DEF FatTypes
  <2> QED BY <1>5, <2>2, AdvanceTypes DEF rd_short, FatTypes
<1>6. CASE rd_next_cluster
  BY <1>6, RdFat DEF rd_next_cluster, RdClusterReturn, FatTypes
<1>7. CASE chdir_return \/ load_refuse
  BY <1>7 DEF chdir_return, load_refuse, Return, FatTypes
<1>8. CASE load_fat32
  BY <1>8 DEF load_fat32, Searched, FatTypes
<1>9. CASE mmap_sector
  <2>2. mem' \in Seq(Nat) /\ k' \in Nat
    <3>1. mem' = mem \/ mem' = Append(mem, Here)
      BY <1>9 DEF mmap_sector
    <3>2. k' = k \/ k' = k + 1
      BY <1>9 DEF mmap_sector
    <3>3. mem \in Seq(Nat) /\ Append(mem, Here) \in Seq(Nat)
      BY HereNat DEF FatTypes
    <3>4. k \in Nat
      BY DEF FatTypes
    <3>5. k' \in Nat
      BY <3>2, <3>4
    <3> QED BY <3>1, <3>3, <3>5
  <2>3. fat_pc = "mmap" /\ ((fat_pc' = "mmap" /\ returned' = returned) \/ fat_pc' = "idle")
    BY <1>9 DEF mmap_sector, Return
  <2>4. UNCHANGED <<vol, cluster_no, i, list, size>>
    BY <1>9 DEF mmap_sector
  <2> QED BY <2>2, <2>3, <2>4 DEF FatTypes
<1>10. CASE mmap_next
  <2>1. UNCHANGED <<vol, i, list, mem>> /\ fat_pc = "mmap" /\ ((fat_pc' = "mmap" /\ returned' = returned) \/ fat_pc' = "idle")
    BY <1>10 DEF mmap_next, Return
  <2>2. cluster_no' \in Nat /\ k' \in Nat /\ size' \in Int
    <3>1. \/ UNCHANGED <<cluster_no, size, k>>
          \/ /\ fat32_rd_FAT(cluster_no) \notin {EOF, DISK_READ_ERR}
             /\ cluster_no' = fat32_rd_FAT(cluster_no) /\ size' = size - SectorBytes /\ k' = 0
      BY <1>10 DEF mmap_next
    <3>2. cluster_no \in Nat /\ k \in Nat /\ size \in Int /\ vol \in Volumes /\ SectorBytes \in Nat
      BY FatConsts DEF FatTypes
    <3> QED BY <3>1, <3>2, RdFat
  <2> QED BY <2>1, <2>2 DEF FatTypes
<1> QED BY <1>1, <1>2, <1>3, <1>4, <1>5, <1>6, <1>7, <1>8, <1>9, <1>10 DEF FatNext, Step, rd_cluster, mmap

-----------------------------------------------------------------------------
\* A file for which FileRight promises something.
Good(f) == Whole(f) /\ Contiguous(f.st_clust)

\* fat32_mmap in its first call, before it looks at the chain.
FirstPass(f) ==
  /\ cluster_no = f.st_clust /\ size = f.size /\ Len(mem) = k
  /\ \A m \in 1 .. k : mem[m] = Sector(f.st_clust, m - 1)

Loading == \E n \in DOMAIN Searched : Found(n) /\ (Good(Searched[n]) => FirstPass(Searched[n]) \/ InMemory(Searched[n]))

\* The inductive invariant of FileRight: memory is what was copied in the first
\* call of fat32_mmap, which copies all of the file.
FileInv == FatTypes /\ (fat_pc = "mmap" => Loading) /\ FileRight

\* The name is found at one place only.
LEMMA FoundOnce ==
  ASSUME FatTypes, NEW n \in DOMAIN Searched, NEW m \in DOMAIN Searched, Found(n), Found(m)
  PROVE  n = m
<1>1. PICK T : Searched \in Seq(T)
  <2>1. \E T : list \in Seq(T)
    BY DEF FatTypes
  <2>2. <<>> \in Seq({})
    OBVIOUS
  <2> QED BY <2>1, <2>2 DEF Searched
<1>2. n \in Nat /\ m \in Nat /\ n >= 1 /\ m >= 1
  BY <1>1
<1>3. CASE n < m
  BY <1>2, <1>3 DEF Found
<1>4. CASE m < n
  BY <1>2, <1>4 DEF Found
<1> QED BY <1>2, <1>3, <1>4

\* A step that leaves list, head and goal alone has found the same file.
LEMMA SameFile ==
  ASSUME UNCHANGED <<vol, list, head, goal>>
  PROVE  /\ Searched' = Searched /\ \A n : Found(n)' <=> Found(n)
         /\ \A f : Good(f)' <=> Good(f)
         /\ \A c : SectorsOf(c)' = SectorsOf(c)
         /\ \A c, n : Sector(c, n)' = Sector(c, n)
<1>1. Searched' = Searched
  BY DEF Searched
<1>2. \A n : Found(n)' <=> Found(n)
  BY <1>1 DEF Found
<1>3. \A c : Chain(c)' = Chain(c)
  BY DEF Chain, IsChain
<1>4. \A c, n : Sector(c, n)' = Sector(c, n)
  BY DEF Sector
<1>5. \A c : SectorsOf(c)' = SectorsOf(c)
  BY <1>3, <1>4 DEF SectorsOf
<1>6. \A c : Intact(c)' <=> Intact(c)
  BY <1>3, <1>5 DEF Intact, IsChain, Readable, OnDisk
<1>7. \A f : Good(f)' <=> Good(f)
  BY <1>3, <1>5, <1>6 DEF Good, Whole, Contiguous
<1> QED BY <1>1, <1>2, <1>4, <1>5, <1>7

\* Once the first call has copied its last sector the file is in memory.
LEMMA FirstPassDone ==
  ASSUME FatTypes, NEW n \in DOMAIN Searched, Good(Searched[n]), FirstPass(Searched[n]), k > LastSector
  PROVE  InMemory(Searched[n])
<1>1. PICK f : f = Searched[n]
  OBVIOUS
<1>2. f.size \in Nat /\ f.st_clust \in Nat
  BY <1>1 DEF Searched, FatTypes
<1>3. PICK L \in Nat : L = Len(SectorsOf(f.st_clust)) /\ L = Len(Chain(f.st_clust)) * vol.spc
  BY <1>1, SectorsLen DEF Good, Whole, FatTypes
<1>4. SUFFICES ASSUME NEW m \in 1 .. (f.size + SectorBytes - 1) \div SectorBytes
               PROVE  m <= Len(mem) /\ mem[m] = SectorsOf(f.st_clust)[m]
  BY <1>1 DEF InMemory
<1>5. f.size > 0
  BY <1>2, <1>4, Needed
<1>6. PICK q \in Nat : /\ q = CDiv(f.size - 1, SectorBytes) /\ q < L
                       /\ (f.size + SectorBytes - 1) \div SectorBytes = q + 1
  BY <1>1, <1>2, <1>3, <1>5, Needed DEF Good, Whole
<1>7. m \in 1 .. q + 1 /\ m \in 1 .. L
  BY <1>4, <1>6
<1>8. k \in Nat /\ k > q /\ Len(mem) = k
  BY <1>1, <1>6 DEF FirstPass, LastSector, FatTypes
<1>9. m <= Len(mem) /\ mem[m] = Sector(f.st_clust, m - 1)
  BY <1>1, <1>7, <1>8 DEF FirstPass
<1>10. SectorsOf(f.st_clust)[m] = Sector(f.st_clust, m - 1)
  BY <1>1, <1>3, <1>7, ContiguousSectors DEF Good, Whole, FatTypes
<1> QED BY <1>9, <1>10

\* A sector of a good file can be read.
LEMMA FirstPassReads ==
  ASSUME FatTypes, NEW n \in DOMAIN Searched, Good(Searched[n]), FirstPass(Searched[n]), k <= LastSector, ~Readable(Here)
  PROVE  InMemory(Searched[n])
<1>1. PICK f : f = Searched[n]
  OBVIOUS
<1>2. f.size \in Nat /\ f.st_clust \in Nat
  BY <1>1 DEF Searched, FatTypes
<1>3. PICK L \in Nat : L = Len(SectorsOf(f.st_clust)) /\ L = Len(Chain(f.st_clust)) * vol.spc
  BY <1>1, SectorsLen DEF Good, Whole, FatTypes
<1>4. CASE f.size = 0
  BY <1>1, <1>4, Needed DEF InMemory
<1>5. CASE f.size > 0
  <2>1. PICK q \in Nat : q = CDiv(f.size - 1, SectorBytes) /\ q < L
    BY <1>1, <1>2, <1>3, <1>5, Needed DEF Good, Whole
  <2>2. k \in Nat /\ k <= q
    BY <1>1, <2>1 DEF FirstPass, LastSector, FatTypes
  <2>3. k + 1 \in 1 .. L /\ (k + 1) - 1 = k
    BY <2>1, <2>2
  <2>4. Readable(Sector(f.st_clust, k))
    BY <1>1, <1>3, <2>3, ContiguousSectors DEF Good, Whole, FatTypes
  <2> QED BY <1>1, <2>4 DEF Here, FirstPass
<1> QED BY <1>2, <1>4, <1>5

LEMMA FileStep ==
  ASSUME FileInv, [FatNext]_fatVars
  PROVE  FileInv'
<1>1. FatTypes /\ FatTypes'
  BY TypesStep DEF FileInv
<1>2. CASE UNCHANGED fatVars
  <2>1. UNCHANGED <<vol, list, head, goal, mem, cluster_no, size, k, fat_pc, returned>>
    BY <1>2 DEF fatVars
  <2>2. \A f : InMemory(f)' <=> InMemory(f)
    BY <2>1, SameFile DEF InMemory
  <2>3. \A f : FirstPass(f)' <=> FirstPass(f)
    BY <2>1, SameFile DEF FirstPass
  <2>4. Loading' <=> Loading
    BY <2>1, <2>2, <2>3, SameFile DEF Loading
  <2>5. FileRight'
    BY <2>1, <2>2, SameFile DEF FileRight, FileInv, Good
  <2> QED BY <1>1, <2>1, <2>4, <2>5 DEF FileInv
<1>3. ASSUME returned' # "loaded", fat_pc' # "mmap" PROVE FileInv'
  BY <1>1, <1>3 DEF FileInv, FileRight
<1>4. ASSUME NEW c \in vol.dirs, NEW name \in Goals \union {Nil}, init_fat32(c, name) PROVE FileInv'
  BY <1>3, <1>4, FatConsts DEF init_fat32
<1>5. CASE rd_cluster
  <2>1. fat_pc' # "mmap" /\ fat_pc' # "idle"
    BY <1>5 DEF rd_cluster, rd_sector, rd_long, rd_short, rd_next_cluster, RdClusterReturn, Advance
  <2>2. returned' = Nil
    BY <1>1, <2>1 DEF FatTypes
  <2> QED BY <1>3, <2>1, <2>2, FatConsts
<1>6. CASE chdir_return \/ load_refuse
  BY <1>3, <1>6 DEF chdir_return, load_refuse, Return
<1>7. CASE load_fat32
  <2>1. UNCHANGED <<vol, list, head, goal, mem>> /\ k' = 0 /\ mem = <<>> /\ returned' # "loaded"
    BY <1>1, <1>7, FatConsts DEF load_fat32, FatTypes
  <2>2. PICK n \in DOMAIN Searched : Found(n) /\ cluster_no' = Searched[n].st_clust /\ size' = Searched[n].size
    BY <1>7 DEF load_fat32
  <2>3. FirstPass(Searched[n])'
    BY <2>1, <2>2, SameFile DEF FirstPass
  <2>4. Loading'
    BY <2>1, <2>2, <2>3, SameFile DEF Loading
  <2> QED BY <1>1, <2>1, <2>4 DEF FileInv, FileRight
<1>8. CASE mmap
  <2>1. fat_pc = "mmap" /\ UNCHANGED <<vol, list, head, goal>>
    BY <1>8 DEF mmap, mmap_sector, mmap_next
  <2>2. PICK n \in DOMAIN Searched : Found(n) /\ (Good(Searched[n]) => FirstPass(Searched[n]) \/ InMemory(Searched[n]))
    BY <2>1 DEF FileInv, Loading
  <2>3. n \in DOMAIN Searched' /\ Found(n)' /\ Searched' = Searched
    BY <2>1, <2>2, SameFile
  <2>4. ASSUME Good(Searched[n]), InMemory(Searched[n]) PROVE InMemory(Searched[n])'
    <3>1. mem' = mem \/ mem' = Append(mem, Here)
      BY <1>8 DEF mmap, mmap_sector, mmap_next
    <3>3. Len(mem) \in Nat /\ Len(mem') \in Nat /\ Len(mem') >= Len(mem) /\ \A m \in 1 .. Len(mem) : mem'[m] = mem[m]
      BY <1>1, <3>1, HereNat
    <3>4. SectorsOf(Searched[n].st_clust)' = SectorsOf(Searched[n].st_clust)
      <4>1. \A c : SectorsOf(c)' = SectorsOf(c)
        BY <2>1, SameFile
      <4> QED BY <2>3, <4>1
    <3>5. Searched[n].size \in Nat
      BY <1>1 DEF Searched, FatTypes
    <3>6. PICK N \in Nat : N = (Searched[n].size + SectorBytes - 1) \div SectorBytes
      BY <3>5, Needed
    <3>7. \A m \in 1 .. N : m <= Len(mem) /\ mem[m] = SectorsOf(Searched[n].st_clust)[m]
      BY <2>4, <3>6 DEF InMemory
    <3>8. \A m \in 1 .. N : m <= Len(mem') /\ mem'[m] = SectorsOf(Searched[n].st_clust)[m]
      BY <3>3, <3>7
    <3> QED BY <2>3, <3>4, <3>6, <3>8 DEF InMemory
  <2>5. Good(Searched[n]) => (FirstPass(Searched[n]) /\ mmap_sector /\ fat_pc' = "mmap") \/ InMemory(Searched[n])
    <3>1. CASE mmap_next
      BY <1>1, <2>2, <3>1, FirstPassDone DEF mmap_next
    <3>2. CASE mmap_sector /\ ~Readable(Here)
      BY <1>1, <2>2, <3>2, FirstPassReads DEF mmap_sector
    <3>3. CASE mmap_sector /\ Readable(Here)
      BY <2>1, <2>2, <3>3 DEF mmap_sector
    <3> QED BY <1>8, <3>1, <3>2, <3>3 DEF mmap
  <2>6. Good(Searched[n]) => (FirstPass(Searched[n])' /\ fat_pc' = "mmap") \/ InMemory(Searched[n])'
    <3>1. SUFFICES ASSUME Good(Searched[n]), FirstPass(Searched[n]), mmap_sector, fat_pc' = "mmap"
                   PROVE  FirstPass(Searched[n])'
      BY <2>4, <2>5
    <3>2. mem' = Append(mem, Here) /\ k' = k + 1 /\ UNCHANGED <<cluster_no, size>>
      BY <3>1 DEF mmap_sector, Return
    <3>3. k \in Nat /\ Len(mem) = k /\ Here = Sector(Searched[n].st_clust, k)
      BY <1>1, <3>1 DEF Here, FatTypes, FirstPass
    <3>4. Len(mem') = k + 1 /\ mem'[k + 1] = Here /\ \A m \in 1 .. k : mem'[m] = mem[m]
      BY <1>1, <3>2, <3>3, HereNat
    <3>5. ASSUME NEW m \in 1 .. k + 1 PROVE mem'[m] = Sector(Searched[n].st_clust, m - 1)
      <4>1. CASE m \in 1 .. k
        BY <3>1, <3>4, <4>1 DEF FirstPass
      <4>2. CASE m = k + 1
        BY <3>3, <3>4, <4>2
      <4> QED BY <3>3, <4>1, <4>2
    <3>6. PICK c : c = Searched[n].st_clust /\ c = Searched'[n].st_clust
      BY <2>3
    <3>7. \A b, m : Sector(b, m)' = Sector(b, m)
      BY <2>1, SameFile
    <3>8. \A m \in 1 .. k' : mem'[m] = Sector(c, m - 1)'
      BY <3>2, <3>5, <3>6, <3>7
    <3>9. \A m \in 1 .. k' : mem'[m] = Sector(Searched[n].st_clust, m - 1)'
      BY <3>6, <3>8, Zenon
    <3> QED BY <2>3, <3>1, <3>2, <3>4, <3>9 DEF FirstPass
  <2>7. fat_pc' = "mmap" => Loading'
    BY <2>1, <2>2, <2>3, <2>6, SameFile DEF Loading
  <2>8. FileRight'
    <3>1. SUFFICES ASSUME NEW m \in DOMAIN Searched', returned' = "loaded", Found(m)', Good(Searched[m])'
                   PROVE  InMemory(Searched[m])'
      BY DEF FileRight, Good
    <3>2. m = n
      BY <1>1, <2>1, <2>2, <2>3, <3>1, FoundOnce, SameFile
    <3>3. fat_pc' # "mmap"
      BY <1>1, <3>1, FatConsts DEF FatTypes
    <3> QED BY <2>1, <2>3, <2>6, <3>1, <3>2, <3>3, SameFile
  <2> QED BY <1>1, <2>7, <2>8 DEF FileInv
<1> QED BY <1>2, <1>4, <1>5, <1>6, <1>7, <1>8 DEF FatNext, Step

\* A file of any FAT volume in consecutive, readable clusters is in memory from
\* its first sector on after load_fat32, whatever ends its chain.
THEOREM VfatFilesLoaded == FatSpec => []FileRight
<1>1. FatInit => FileInv
  <2> SUFFICES ASSUME FatInit PROVE FileInv
    OBVIOUS
  <2>1. <<>> \in Seq({}) /\ <<>> \in Seq(Nat) /\ DOMAIN <<>> = {}
    OBVIOUS
  <2>2. FatTypes
    BY <2>1, FatConsts DEF FatInit, FatTypes
  <2> QED BY <2>2, FatConsts DEF FatInit, FileInv, FileRight
<1>2. FileInv /\ [FatNext]_fatVars => FileInv'
  BY FileStep
<1>3. FileInv => FileRight
  BY DEF FileInv
<1> QED BY <1>1, <1>2, <1>3, PTL DEF FatSpec
-----------------------------------------------------------------------------
\* The directory as a sequence of entries.
Part(c, n) == InUse(Entries(c)[n]) /\ Entries(c)[n].attrib = "lfn"

\* How many entries come before entry j of sector s of the m-th cluster.
Before(m, s, j) == ((m - 1) * vol.spc + s) * PerSector + j

LEMMA EntriesLen ==
  ASSUME vol \in Volumes, NEW c, Intact(c)
  PROVE  /\ DOMAIN Entries(c) = 1 .. Len(Entries(c)) /\ Len(Entries(c)) \in Nat
         /\ Len(Entries(c)) = (Len(Chain(c)) * vol.spc) * PerSector
         /\ \A n \in 1 .. Len(Entries(c)) :
              Entries(c)[n] = Entry(SectorsOf(c)[((n - 1) \div PerSector) + 1], (n - 1) % PerSector)
<1>1. PICK L \in Nat : L = (Len(Chain(c)) * vol.spc) * PerSector /\ L = Len(SectorsOf(c)) * PerSector
  <2>1. PICK M \in Nat : M = Len(Chain(c)) * vol.spc /\ M = Len(SectorsOf(c))
    BY SectorsLen
  <2>2. PICK w \in Nat : w = PerSector
    BY FatConsts
  <2>3. M * w \in Nat
    BY SumTimes
  <2> QED BY <2>1, <2>2, <2>3
<1> QED BY <1>1 DEF Entries

LEMMA EntryAt ==
  ASSUME vol \in Volumes, NEW c, Intact(c), NEW m \in 1 .. Len(Chain(c)), NEW s \in 0 .. vol.spc - 1,
         NEW j \in 0 .. PerSector - 1
  PROVE  /\ Before(m, s, j) \in Nat /\ Before(m, s, j) + 1 \in DOMAIN Entries(c)
         /\ Entries(c)[Before(m, s, j) + 1] = Entry(Sector(Chain(c)[m], s), j)
<1>1. PICK w \in Nat \ {0}, L \in Nat : w = PerSector /\ L = Len(Chain(c)) * vol.spc
  BY FatConsts, SectorsLen
<1>2. PICK q \in Nat : /\ q = (m - 1) * vol.spc + s /\ q + 1 \in 1 .. L
                       /\ SectorsOf(c)[q + 1] = Sector(Chain(c)[m], s)
  BY <1>1, SectorAt
<1>3. q < L /\ j \in 0 .. w - 1
  BY <1>1, <1>2
<1>4. /\ q * w + j \in Nat /\ q * w + j + 1 \in 1 .. L * w
      /\ (q * w + j) \div w = q /\ (q * w + j) % w = j
  BY <1>3, PlaceFacts, Zenon
<1>5. PICK p \in Nat : /\ p = q * w + j /\ p + 1 \in 1 .. L * w /\ p \div w = q /\ p % w = j
  BY <1>4, Zenon
<1>6. p = Before(m, s, j) /\ (p + 1) - 1 = p
  BY <1>1, <1>2, <1>5 DEF Before
<1>7. p + 1 \in DOMAIN Entries(c) /\ Entries(c)[p + 1] = Entry(SectorsOf(c)[q + 1], j)
  BY <1>1, <1>5, <1>6, EntriesLen
<1> QED BY <1>2, <1>6, <1>7

\* The same place by cluster.
LEMMA Regroup == \A q, b, w \in Nat : (q * b) * w = q * (w * b) /\ q * (w * b) \in Nat /\ q * b \in Nat
  OBVIOUS

LEMMA BeforeIs ==
  ASSUME vol \in Volumes, NEW m \in Nat \ {0}, NEW s \in Nat, NEW j \in Nat
  PROVE  /\ Before(m, s, j) = (m - 1) * (PerSector * vol.spc) + (s * PerSector + j)
         /\ \E x \in Nat, z \in Nat : z = s * PerSector /\ Before(m, s, j) = x + (z + j)
         /\ Before(m, s + 1, 0) = Before(m, s, 0) + PerSector /\ Before(m, s, j) = Before(m, s, 0) + j
         /\ Before(m, vol.spc, 0) = Before(m + 1, 0, 0)
         /\ Before(m, s, j) \in Nat /\ Before(m, s, 0) \in Nat
<1>1. PICK w \in Nat, b \in Nat : w = PerSector /\ b = vol.spc
  BY FatConsts, VolFacts DEF VolumeOK
<1>2. PICK q \in Nat : q = m - 1 /\ q + 1 = m /\ (m + 1) - 1 = q + 1
  OBVIOUS
<1>3. PICK x \in Nat, z \in Nat : x = q * b /\ z = s * w
  BY SumTimes
<1>4. PICK y \in Nat : y = x * w /\ y = q * (w * b)
  BY <1>3, Regroup
<1>5. (x + s) * w = y + z
  BY <1>3, <1>4, SumTimes
<1>6. (x + (s + 1)) * w = y + (z + w)
  <2>1. (s + 1) * w = z + 1 * w /\ 1 * w = w
    BY <1>3, SumTimes
  <2> QED BY <1>4, <2>1, SumTimes
<1>7. x + b = (q + 1) * b + 0
  <2>1. (q + 1) * b = x + 1 * b /\ 1 * b = b
    BY <1>3, SumTimes
  <2> QED BY <2>1
<1>8. \A t, g : Before(m, t, g) = (x + t) * w + g
  BY <1>1, <1>2, <1>3 DEF Before
<1>9. Before(m + 1, 0, 0) = (x + b) * w + 0
  BY <1>1, <1>2, <1>7 DEF Before
<1>10. /\ Before(m, s, j) = y + (z + j) /\ Before(m, s, 0) = y + z
       /\ Before(m, s + 1, 0) = y + (z + w)
  <2>1. /\ Before(m, s, j) = (y + z) + j /\ Before(m, s, 0) = (y + z) + 0
        /\ Before(m, s + 1, 0) = (y + (z + w)) + 0
    BY <1>5, <1>6, <1>8, Zenon
  <2> QED BY <2>1
<1>11. Before(m, s, j) = (m - 1) * (PerSector * vol.spc) + (s * PerSector + j)
  BY <1>1, <1>2, <1>3, <1>4, <1>10
<1>12. \E u \in Nat, v \in Nat : v = s * PerSector /\ Before(m, s, j) = u + (v + j)
  BY <1>1, <1>3, <1>10
<1>13. Before(m, vol.spc, 0) = Before(m + 1, 0, 0)
  BY <1>1, <1>8, <1>9, Zenon
<1> QED BY <1>1, <1>10, <1>11, <1>12, <1>13

LEMMA BeforeSum ==
  ASSUME vol \in Volumes, NEW m \in Nat \ {0}, NEW s \in Nat, NEW j \in Nat
  PROVE  /\ Before(m, s + 1, 0) = Before(m, s, 0) + PerSector /\ Before(m, s, j) = Before(m, s, 0) + j
         /\ Before(m, vol.spc, 0) = Before(m + 1, 0, 0)
         /\ Before(m, s, j) \in Nat /\ Before(m, s, 0) \in Nat
         /\ s + j > 0 => Before(m, s, j) > 0
<1>1. PICK w \in Nat \ {0} : w = PerSector
  BY FatConsts
<1>2. PICK x \in Nat, z \in Nat : z = s * w /\ Before(m, s, j) = x + (z + j)
  <2>1. \E x \in Nat, z \in Nat : z = s * PerSector /\ Before(m, s, j) = x + (z + j)
    BY BeforeIs, ZenonT(30)
  <2> QED BY <1>1, <2>1, Zenon
<1>3. s > 0 => z > 0
  BY <1>2
<1>4. s + j > 0 => Before(m, s, j) > 0
  BY <1>2, <1>3
<1> QED BY <1>4, BeforeIs

-----------------------------------------------------------------------------
\* The long name of the entry at n begins at h.
Begins(c, n, h) ==
  /\ h \in 1 .. n - 1 /\ Part(c, h) /\ Entries(c)[h].last
  /\ \A g \in h + 1 .. n - 1 : Part(c, g) /\ ~Entries(c)[g].last

LEMMA LongCases ==
  ASSUME NEW c, NEW n
  PROVE  \/ LongFrom(c, n) = n /\ ~\E h : Begins(c, n, h)
         \/ Begins(c, n, LongFrom(c, n))
  BY DEF LongFrom, Begins, Part

LEMMA WellFacts ==
  ASSUME NEW c, WellFormed(c)
  PROVE  /\ \A n \in DOMAIN Entries(c) : Part(c, n) => n + 1 \in DOMAIN Entries(c) /\ InUse(Entries(c)[n + 1])
         /\ \A n \in DOMAIN Entries(c) : Part(c, n) /\ ~Entries(c)[n].last => n > 1 /\ Part(c, n - 1)
         /\ \A n \in Members(c) : n - LongFrom(c, n) <= PerSector
         /\ \A n \in Members(c) : (n - 1) \div (PerSector * vol.spc) = (LongFrom(c, n) - 1) \div (PerSector * vol.spc)
  BY DEF WellFormed, Part

\* An entry behind a part of a long name has that name.
LEMMA LongBegins ==
  ASSUME vol \in Volumes, NEW c, Intact(c), WellFormed(c), NEW n \in DOMAIN Entries(c), n > 1, Part(c, n - 1)
  PROVE  Begins(c, n, LongFrom(c, n))
<1>1. PICK D \in Nat : DOMAIN Entries(c) = 1 .. D /\ n \in 1 .. D /\ n - 1 \in 1 .. D
  BY EntriesLen
<1>2. SUFFICES \E h : Begins(c, n, h)
  BY LongCases
<1>3. CASE Entries(c)[n - 1].last
  <2>1. Begins(c, n, n - 1)
    BY <1>1, <1>3 DEF Begins
  <2> QED BY <2>1
<1>4. CASE ~Entries(c)[n - 1].last
  <2> DEFINE S == {h \in 1 .. n - 1 : \A g \in h .. n - 1 : Part(c, g) /\ ~Entries(c)[g].last}
  <2>1. n - 1 \in S
    BY <1>1, <1>4
  <2>2. PICK x \in S : \A y \in S : x <= y
    <3>1. S \subseteq Nat /\ S # {}
      BY <2>1
    <3> QED BY <3>1, LeastOf, Zenon
  <2>3. x \in 1 .. n - 1 /\ \A g \in x .. n - 1 : Part(c, g) /\ ~Entries(c)[g].last
    BY <2>2
  <2>4. x > 1 /\ Part(c, x - 1)
    <3>1. x \in DOMAIN Entries(c) /\ Part(c, x) /\ ~Entries(c)[x].last
      BY <1>1, <2>3
    <3> QED BY <3>1, WellFacts, Zenon
  <2>5. x - 1 \notin S
    BY <2>2, <2>3
  <2>6. Entries(c)[x - 1].last
    BY <1>1, <2>3, <2>4, <2>5
  <2>7. Begins(c, n, x - 1)
    BY <1>1, <2>3, <2>4, <2>6 DEF Begins
  <2> QED BY <2>7
<1> QED BY <1>3, <1>4

\* The long name of a member is in its cluster.
LEMMA NameStart ==
  ASSUME vol \in Volumes, NEW c, Intact(c), WellFormed(c), NEW m \in 1 .. Len(Chain(c)),
         NEW s \in 0 .. vol.spc - 1, NEW j \in 0 .. PerSector - 1, Before(m, s, j) + 1 \in Members(c)
  PROVE  /\ LongFrom(c, Before(m, s, j) + 1) \in 1 .. Before(m, s, j) + 1
         /\ Before(m, s, j) + 1 - LongFrom(c, Before(m, s, j) + 1) <= PerSector
         /\ s = 0 => Before(m, s, j) + 1 - LongFrom(c, Before(m, s, j) + 1) <= j
<1>1. PICK w \in Nat \ {0}, b \in Nat \ {0} : w = PerSector /\ b = vol.spc
  BY FatConsts, ChainFacts
<1>2. PICK q \in Nat : q = m - 1
  BY ChainFacts
<1>3. PICK W \in Nat \ {0}, z \in Nat, x \in Nat : W = w * b /\ z = s * w + j /\ x = q * W
  <2>1. w * b \in Nat \ {0}
    OBVIOUS
  <2>2. s * w \in Nat /\ j \in Nat /\ s \in Nat
    BY <1>1
  <2>3. s * w + j \in Nat
    BY <2>2
  <2> QED BY <2>1, <2>3, SumTimes
<1>4. z < W
  <2>1. PICK d \in Nat : b = s + (1 + d)
    <3>1. b - s - 1 \in Nat /\ b = s + (1 + (b - s - 1))
      BY <1>1
    <3> QED BY <3>1
  <2>2. s \in Nat /\ b * w = s * w + (1 + d) * w /\ (1 + d) * w = 1 * w + d * w /\ 1 * w = w /\ d * w \in Nat
    BY <1>1, <2>1, SumTimes
  <2>3. b * w = w * b
    OBVIOUS
  <2>4. PICK e \in Nat, f \in Nat : e = d * w /\ f = s * w
    BY <2>2, SumTimes
  <2>5. PICK B \in Nat : B = W /\ B = f + (w + e)
    BY <1>3, <2>2, <2>3, <2>4, Zenon
  <2>6. z = f + j /\ j < w
    BY <1>1, <1>3, <2>4
  <2> QED BY <2>5, <2>6
<1>5. PICK p \in Nat : p = Before(m, s, j) /\ p = x + z
  <2>1. Before(m, s, j) \in Nat
    BY EntryAt
  <2>2. m \in Nat \ {0} /\ s \in Nat /\ j \in Nat
    BY <1>1, ChainFacts
  <2>3. Before(m, s, j) = (m - 1) * (PerSector * vol.spc) + (s * PerSector + j)
    BY <2>2, BeforeIs
  <2> QED BY <1>1, <1>2, <1>3, <2>1, <2>3, Zenon
<1>6. p \div W = q
  <2>1. p = q * W + z /\ p \in Int /\ q \in Int /\ z \in 0 .. W - 1
    BY <1>3, <1>4, <1>5
  <2> QED BY <2>1, DivIs, Zenon
<1>7. PICK h : h = LongFrom(c, p + 1) /\ (h - 1) \div W = q /\ p + 1 - h <= w
  <2>1. PICK n \in Nat : n = p + 1 /\ n - 1 = p /\ n \in Members(c)
    BY <1>5
  <2>2. (n - 1) \div W = (LongFrom(c, n) - 1) \div W /\ n - LongFrom(c, n) <= w
    BY <1>1, <1>3, <2>1, WellFacts, Zenon
  <2>3. PICK h : h = LongFrom(c, n)
    OBVIOUS
  <2>4. (h - 1) \div W = q
    BY <1>6, <2>1, <2>2, <2>3
  <2>5. h = LongFrom(c, p + 1)
    BY <2>1, <2>3
  <2>6. n - h <= w
    BY <2>2, <2>3, Zenon
  <2>7. h \in Nat
    BY <2>1, <2>3, LongCases DEF Begins
  <2>8. p + 1 - h <= w
    BY <2>1, <2>6, <2>7
  <2> QED BY <2>4, <2>5, <2>8, Zenon
<1>8. h \in 1 .. p + 1
  BY <1>7, LongCases DEF Begins
<1>9. h - 1 >= x
  <2>1. PICK g \in Nat : g = h - 1
    BY <1>8
  <2>2. PICK y \in Nat, r \in 0 .. W - 1 : g = y * W + r /\ g \div W = y
    BY DivSplit
  <2>3. y = q
    BY <1>7, <2>1, <2>2
  <2> QED BY <1>3, <2>1, <2>2, <2>3
<1>10. s = 0 => p + 1 - h <= j
  <2> SUFFICES ASSUME s = 0 PROVE p + 1 - h <= j
    OBVIOUS
  <2>1. z = j
    BY <1>1, <1>3
  <2> QED BY <1>5, <1>8, <1>9, <2>1
<1> QED BY <1>1, <1>5, <1>7, <1>8, <1>10

\* Generate_Long_Name, called for entry j of sector H with d entries of the name
\* to come, looks at the d-th entry before it.
LEMMA LooksBack ==
  ASSUME vol \in Volumes, NEW c, Intact(c), NEW m \in 1 .. Len(Chain(c)), NEW s \in 0 .. vol.spc - 1,
         NEW j \in 0 .. PerSector - 1, NEW d \in 1 .. PerSector, s = 0 => d <= j,
         NEW H, H = Sector(Chain(c)[m], s), NEW s0, s0 = IF j = 0 THEN H - 1 ELSE H,
         NEW i0, i0 = IF j = 0 THEN PerSector ELSE j
  PROVE  Looked(s0, i0, H, d) = Entries(c)[Before(m, s, j) + 1 - d]
<1>1. PICK w \in Nat \ {0}, b \in Nat \ {0} : w = PerSector /\ b = vol.spc /\ m \in Nat \ {0}
  <2>1. vol.spc \in Nat \ {0} /\ Len(Chain(c)) \in Nat
    BY ChainFacts
  <2>2. PerSector \in Nat \ {0}
    BY FatConsts
  <2>3. m \in Nat \ {0}
    BY <2>1
  <2>4. \E w \in Nat \ {0} : w = PerSector
    BY <2>2
  <2>5. \E b \in Nat \ {0} : b = vol.spc
    BY <2>1
  <2> QED BY <2>3, <2>4, <2>5, Zenon
<1>2. s \in 0 .. b - 1 /\ j \in 0 .. w - 1 /\ d \in 1 .. w
  BY <1>1
<1>3. PICK p \in Nat, o \in Nat : p = Before(m, s, j) /\ o = Before(m, s, 0) /\ p = o + j
  <2>1. s \in Nat /\ j \in Nat
    BY <1>2
  <2>2. Before(m, s, j) \in Nat /\ Before(m, s, 0) \in Nat /\ Before(m, s, j) = Before(m, s, 0) + j
    BY <1>1, <2>1, BeforeSum, ZenonT(30)
  <2> QED BY <2>2, Zenon
<1>4. CASE d <= j
  <2>1. Looked(s0, i0, H, d) = Entry(H, j - d)
    BY <1>1, <1>2, <1>4 DEF Looked
  <2>2. PICK g \in Nat : g = j - d /\ g \in 0 .. w - 1
    BY <1>2, <1>4
  <2>3. Entries(c)[Before(m, s, g) + 1] = Entry(H, g)
    BY <1>1, <2>2, EntryAt
  <2>4. Before(m, s, g) = o + g
    BY <1>1, <1>2, <1>3, BeforeSum
  <2>5. Before(m, s, g) + 1 = p + 1 - d
    BY <1>2, <1>3, <2>2, <2>4
  <2> QED BY <1>3, <2>1, <2>2, <2>3, <2>5
<1>5. CASE d > j
  <2>1. s > 0
    BY <1>2, <1>5
  <2>2. PICK g \in Nat : g = w + j - d /\ g \in 0 .. w - 1
    BY <1>2, <1>5
  <2>3. PICK t \in Nat : t = s - 1 /\ t + 1 = s /\ t \in 0 .. b - 1
    BY <1>2, <2>1
  <2>4. Entries(c)[Before(m, t, g) + 1] = Entry(Sector(Chain(c)[m], t), g)
    BY <1>1, <2>2, <2>3, EntryAt
  <2>5. Before(m, t, g) = Before(m, t, 0) + g /\ Before(m, t, 0) + w = o /\ Before(m, t, 0) \in Nat
    BY <1>1, <1>3, <2>3, BeforeSum, SMTT(30)
  <2>6. Before(m, t, g) + 1 = p + 1 - d
    <3>1. PICK u \in Nat : u = Before(m, t, 0)
      BY <2>5
    <3>2. PICK v \in Nat : v = Before(m, t, g) /\ v = u + g /\ u + w = o
      BY <2>5, <3>1
    <3>3. v + 1 = p + 1 - d
      BY <1>2, <1>3, <2>2, <3>2, SMTT(30)
    <3> QED BY <3>2, <3>3
  <2>7. Sector(Chain(c)[m], t) = H - 1
    <3>1. PICK x \in Nat : x = Chain(c)[m] * b
      BY <1>1, ChainFacts, SumTimes
    <3> QED BY <1>1, <1>2, <2>3, <3>1 DEF Sector
  <2>8. Looked(s0, i0, H, d) = Entry(H - 1, g)
    <3>1. CASE j = 0
      BY <1>1, <1>2, <2>2, <3>1 DEF Looked
    <3>2. CASE j > 0
      <4>1. PICK e \in Int : e = d - j - 1 /\ e \in 0 .. w - 1
        BY <1>2, <1>5
      <4>3. e \div w = 0 /\ e % w = e
        BY <4>1, DivSmall
      <4>4. ~(d <= i0) /\ s0 = H /\ i0 = j
        BY <1>2, <1>5, <3>2
      <4>5. Looked(s0, i0, H, d) = Entry(H - 1 - 0, w - 1 - e)
        BY <1>1, <4>1, <4>3, <4>4 DEF Looked
      <4>6. Chain(c)[m] \in Nat /\ s \in Nat
        BY <1>2, ChainFacts
      <4>8. H \in Nat
        BY <4>6, SectorNat
      <4>7. H - 1 - 0 = H - 1 /\ w - 1 - e = g
        BY <1>2, <2>2, <4>1, <4>8
      <4> QED BY <4>5, <4>7
    <3> QED BY <1>2, <3>1, <3>2
  <2> QED BY <1>3, <2>4, <2>6, <2>7, <2>8
<1> QED BY <1>2, <1>4, <1>5

\* So it returns the long name, and has the sector of the entry in the buffer.
LEMMA LongName ==
  ASSUME vol \in Volumes, NEW c, Intact(c), WellFormed(c), NEW m \in 1 .. Len(Chain(c)),
         NEW s \in 0 .. vol.spc - 1, NEW j \in 0 .. PerSector - 1, s + j > 0,
         Before(m, s, j) + 1 \in Members(c), Part(c, Before(m, s, j)),
         NEW H, H = Sector(Chain(c)[m], s), NEW s0, s0 = IF j = 0 THEN H - 1 ELSE H,
         NEW i0, i0 = IF j = 0 THEN PerSector ELSE j
  PROVE  /\ Generate_Long_Name(s0, i0, H) = NameOf(c, Before(m, s, j) + 1)
         /\ j > 0 => LeftInBuffer(s0, i0, H) = H
<1>1. PICK w \in Nat \ {0}, b \in Nat \ {0} : w = PerSector /\ b = vol.spc /\ w <= LongMax /\ LongMax \in Nat
  BY FatConsts, ChainFacts
<1>2. s \in 0 .. b - 1 /\ j \in 0 .. w - 1 /\ m \in Nat \ {0}
  BY <1>1, ChainFacts
<1>3. PICK p \in Nat : p = Before(m, s, j) /\ p + 1 \in DOMAIN Entries(c)
  BY EntryAt
<1>4. p > 0
  <2>1. s \in Nat /\ j \in Nat
    BY <1>2
  <2> QED BY <1>2, <1>3, <2>1, BeforeSum
<1>5. PICK h \in Nat : h = LongFrom(c, p + 1) /\ Begins(c, p + 1, h)
  <2>1. (p + 1) - 1 = p /\ p + 1 > 1
    BY <1>4
  <2>2. Begins(c, p + 1, LongFrom(c, p + 1))
    BY <1>3, <2>1, LongBegins
  <2> QED BY <2>2 DEF Begins
<1>6. PICK L \in Nat : L = p + 1 - h /\ L \in 1 .. w /\ (s = 0 => L <= j)
  <2>1. p + 1 - h <= w /\ (s = 0 => p + 1 - h <= j)
    BY <1>1, <1>3, <1>5, NameStart
  <2>2. h \in 1 .. p
    BY <1>5 DEF Begins
  <2> QED BY <2>1, <2>2
<1>7. ASSUME NEW d \in 1 .. L PROVE Looked(s0, i0, H, d) = Entries(c)[p + 1 - d]
  <2>1. d \in 1 .. PerSector /\ (s = 0 => d <= j)
    BY <1>1, <1>2, <1>6
  <2> QED BY <1>3, <2>1, LooksBack, SMTT(30)
<1>8. Looked(s0, i0, H, L).last /\ \A d \in 1 .. L - 1 : ~Looked(s0, i0, H, d).last
  <2>1. p + 1 - L = h /\ Entries(c)[h].last
    BY <1>5, <1>6, SMTT(30) DEF Begins
  <2>2. ASSUME NEW d \in 1 .. L - 1 PROVE ~Entries(c)[p + 1 - d].last
    <3>1. p + 1 - d \in h + 1 .. (p + 1) - 1
      BY <1>6
    <3> QED BY <1>5, <3>1 DEF Begins
  <2> QED BY <1>6, <1>7, <2>1, <2>2
<1>9. LongLen(s0, i0, H) = L
  <2> DEFINE Is(n) == Looked(s0, i0, H, n).last /\ \A g \in 1 .. n - 1 : ~Looked(s0, i0, H, g).last
  <2>1. Is(L) /\ L \in 1 .. LongMax
    BY <1>1, <1>6, <1>8
  <2>2. ASSUME NEW n \in 1 .. LongMax, Is(n) PROVE n = L
    BY <1>6, <1>8, <2>2
  <2>3. LongLen(s0, i0, H) = CHOOSE n \in 1 .. LongMax : Is(n)
    BY DEF LongLen
  <2> HIDE DEF Is
  <2> QED BY <2>1, <2>2, <2>3
<1>10. Generate_Long_Name(s0, i0, H) = NameOf(c, p + 1)
  <2>1. Generate_Long_Name(s0, i0, H) = [d \in 1 .. L |-> Entries(c)[p + 1 - d].part]
    BY <1>7, <1>9 DEF Generate_Long_Name
  <2>2. LongFrom(c, p + 1) # p + 1 /\ (p + 1) - LongFrom(c, p + 1) = L
    BY <1>5, <1>6 DEF Begins
  <2>3. NameOf(c, p + 1) = [d \in 1 .. L |-> Entries(c)[p + 1 - d].part]
    BY <2>2 DEF NameOf
  <2> QED BY <2>1, <2>3
<1>11. j > 0 => LeftInBuffer(s0, i0, H) = H
  <2> SUFFICES ASSUME j > 0 PROVE LeftInBuffer(s0, i0, H) = H
    OBVIOUS
  <2>1. s0 = H /\ i0 = j
    OBVIOUS
  <2>2. CASE L <= j
    BY <1>9, <2>1, <2>2 DEF LeftInBuffer
  <2>3. CASE L > j
    <3>1. PICK e \in Int : e = L - j - 1 /\ e \in 0 .. w - 1
      BY <1>2, <1>6, <2>3
    <3>3. e \div w = 0
      BY <3>1, DivSmall
    <3>2. Chain(c)[m] \in Nat /\ s \in Nat
      BY <1>2, ChainFacts
    <3>4. H \in Nat
      BY <3>2, SectorNat
    <3>5. ~(L <= j)
      BY <1>2, <1>6, <2>3
    <3> QED BY <1>1, <1>9, <2>1, <3>1, <3>3, <3>4, <3>5 DEF LeftInBuffer
  <2> QED BY <1>2, <1>6, <2>2, <2>3
<1> QED BY <1>3, <1>10, <1>11

-----------------------------------------------------------------------------
\* The members among the first p entries, and a list that is these.
Upto(c, p) == {n \in Members(c) : n <= p}
Listed(l, c, p) ==
  /\ Len(l) = Cardinality(Upto(c, p))
  /\ \A n \in Upto(c, p) : l[Cardinality(Upto(c, n))] = Node(Entries(c)[n], NameOf(c, n))

LEMMA UptoFacts ==
  ASSUME vol \in Volumes, NEW c, Intact(c), NEW p \in Nat
  PROVE  /\ IsFiniteSet(Upto(c, p)) /\ Cardinality(Upto(c, p)) \in Nat
         /\ p + 1 \in Members(c) => /\ Upto(c, p + 1) = Upto(c, p) \union {p + 1}
                                    /\ Cardinality(Upto(c, p + 1)) = Cardinality(Upto(c, p)) + 1
         /\ p + 1 \notin Members(c) => Upto(c, p + 1) = Upto(c, p)
         /\ \A n \in Upto(c, p) : Cardinality(Upto(c, n)) \in 1 .. Cardinality(Upto(c, p))
<1>1. PICK D \in Nat : Members(c) \subseteq 1 .. D
  BY EntriesLen DEF Members
<1>2. ASSUME NEW n \in Nat PROVE IsFiniteSet(Upto(c, n)) /\ Cardinality(Upto(c, n)) \in Nat
  <2>1. Upto(c, n) \subseteq 1 .. D /\ IsFiniteSet(1 .. D)
    BY <1>1, FS_Interval DEF Upto
  <2> QED BY <2>1, FS_Subset, FS_CardinalityType
<1>3. p + 1 \notin Upto(c, p)
  BY DEF Upto
<1>4. p + 1 \in Members(c) => Upto(c, p + 1) = Upto(c, p) \union {p + 1}
  BY <1>1 DEF Upto
<1>5. p + 1 \in Members(c) => Cardinality(Upto(c, p + 1)) = Cardinality(Upto(c, p)) + 1
  BY <1>2, <1>3, <1>4, FS_AddElement
<1>6. p + 1 \notin Members(c) => Upto(c, p + 1) = Upto(c, p)
  BY <1>1 DEF Upto
<1>7. ASSUME NEW n \in Upto(c, p) PROVE Cardinality(Upto(c, n)) \in 1 .. Cardinality(Upto(c, p))
  <2>1. n \in Nat /\ n \in Upto(c, n) /\ Upto(c, n) \subseteq Upto(c, p)
    BY <1>1 DEF Upto
  <2>2. Cardinality(Upto(c, n)) <= Cardinality(Upto(c, p))
    BY <1>2, <2>1, FS_Subset
  <2>3. Cardinality(Upto(c, n)) # 0
    BY <1>2, <2>1, FS_EmptySet
  <2> QED BY <1>2, <2>1, <2>2, <2>3
<1> QED BY <1>2, <1>4, <1>5, <1>6, <1>7

\* A node added for the next entry, or none.
LEMMA ListedMore ==
  ASSUME vol \in Volumes, NEW c, Intact(c), NEW p \in Nat, NEW T, NEW l \in Seq(T), Listed(l, c, p),
         p + 1 \in Members(c), NEW x, x = Node(Entries(c)[p + 1], NameOf(c, p + 1))
  PROVE  Listed(Append(l, x), c, p + 1)
<1>1. PICK U : l \in Seq(U) /\ x \in U
  <2>1. l \in Seq(T \union {x})
    OBVIOUS
  <2> QED BY <2>1
<1>2. PICK N \in Nat : N = Cardinality(Upto(c, p)) /\ N = Len(l) /\ Cardinality(Upto(c, p + 1)) = N + 1
  BY UptoFacts DEF Listed
<1>3. /\ Len(Append(l, x)) = N + 1 /\ Append(l, x)[N + 1] = x
      /\ \A n \in 1 .. N : Append(l, x)[n] = l[n]
  BY <1>1, <1>2, AppendProperties
<1>4. ASSUME NEW n \in Upto(c, p + 1)
      PROVE  Append(l, x)[Cardinality(Upto(c, n))] = Node(Entries(c)[n], NameOf(c, n))
  <2>1. CASE n = p + 1
    BY <1>2, <1>3, <2>1
  <2>2. CASE n \in Upto(c, p)
    BY <1>2, <1>3, <2>2, UptoFacts DEF Listed
  <2>3. Upto(c, p + 1) = Upto(c, p) \union {p + 1}
    BY UptoFacts
  <2> QED BY <2>1, <2>2, <2>3
<1> QED BY <1>2, <1>3, <1>4 DEF Listed

LEMMA ListedSame ==
  ASSUME vol \in Volumes, NEW c, Intact(c), NEW p \in Nat, NEW l, Listed(l, c, p), p + 1 \notin Members(c)
  PROVE  Listed(l, c, p + 1)
<1>1. Upto(c, p + 1) = Upto(c, p)
  BY UptoFacts
<1> QED BY <1>1 DEF Listed

\* What depends on the volume only.
LEMMA SameVolume ==
  ASSUME vol' = vol
  PROVE  /\ \A c : Chain(c)' = Chain(c) /\ SectorsOf(c)' = SectorsOf(c) /\ Entries(c)' = Entries(c)
         /\ \A c, n : Sector(c, n)' = Sector(c, n)
         /\ \A c : (Intact(c)' <=> Intact(c)) /\ (WellFormed(c)' <=> WellFormed(c)) /\ (EndKnown(c)' <=> EndKnown(c))
         /\ \A c, n : Part(c, n)' <=> Part(c, n)
         /\ \A l, c, n : Listed(l, c, n)' <=> Listed(l, c, n)
<1>1. \A c : Chain(c)' = Chain(c)
  BY DEF Chain, IsChain
<1>2. \A c, n : Sector(c, n)' = Sector(c, n)
  BY DEF Sector
<1>3. \A c : SectorsOf(c)' = SectorsOf(c)
  BY <1>1, <1>2 DEF SectorsOf
<1>4. \A c : Intact(c)' <=> Intact(c)
  BY <1>1, <1>3 DEF Intact, IsChain, Readable, OnDisk
<1>5. \A s, n : Entry(s, n)' = Entry(s, n)
  BY DEF Entry, OnDisk
<1>6. \A c : Entries(c)' = Entries(c)
  BY <1>3, <1>5 DEF Entries
<1>7. \A c : Members(c)' = Members(c)
  BY <1>6 DEF Members
<1>8. \A c, n : LongFrom(c, n)' = LongFrom(c, n)
  BY <1>6 DEF LongFrom
<1>9. \A c : WellFormed(c)' <=> WellFormed(c)
  BY <1>6, <1>7, <1>8 DEF WellFormed
<1>10. \A c, n : NameOf(c, n)' = NameOf(c, n)
  BY <1>6, <1>8 DEF NameOf
<1>11. \A c, n : Upto(c, n)' = Upto(c, n)
  BY <1>7 DEF Upto
<1>12. \A l, c, n : Listed(l, c, n)' <=> Listed(l, c, n)
  BY <1>6, <1>10, <1>11 DEF Listed
<1>13. \A c, n : Part(c, n)' <=> Part(c, n)
  BY <1>6 DEF Part
<1>14. \A c : EndKnown(c)' <=> EndKnown(c)
  BY <1>1 DEF EndKnown
<1> QED BY <1>1, <1>2, <1>3, <1>4, <1>6, <1>9, <1>12, <1>13, <1>14

-----------------------------------------------------------------------------
\* fat32_rd_cluster is in the m-th cluster of directory c and has listed what
\* comes before the entry it looks at.
ScanningAt(c, m) ==
  /\ cluster_no = Chain(c)[m] /\ k \in 0 .. vol.spc
  /\ IF fat_pc = "sector" THEN i = 0 ELSE k < vol.spc /\ direntry = Here
  /\ Listed(list, c, Before(m, k, i))
  /\ prev = "lfn" <=> k + i > 0 /\ Part(c, Before(m, k, i))

Right(c) == vol.boot /\ Intact(c) /\ EndKnown(c) /\ WellFormed(c)

\* The inductive invariant of ListingRight.
ListInv ==
  /\ FatTypes
  /\ Right(current_cluster) =>
       /\ fat_pc \in {"sector", "entry"} =>
            \E m \in 1 .. Len(Chain(current_cluster)) : ScanningAt(current_cluster, m)
       /\ fat_pc = "listed" \/ returned = "listing" => Listed(list, current_cluster, Len(Entries(current_cluster)))

LEMMA ScanningNext ==
  ASSUME vol' = vol, NEW c, NEW m, NEW s, NEW j, k' = s, i' = j, cluster_no' = Chain(c)[m], s \in 0 .. vol.spc,
         IF fat_pc' = "sector" THEN j = 0 ELSE s < vol.spc /\ direntry' = Sector(Chain(c)[m], s),
         Listed(list', c, Before(m, s, j)), prev' = "lfn" <=> s + j > 0 /\ Part(c, Before(m, s, j))
  PROVE  ScanningAt(c, m)'
<1>1. Before(m, k, i)' = Before(m, s, j)
  BY DEF Before
<1>2. PICK p : p = Before(m, s, j)
  OBVIOUS
<1>3. PICK l : l = list'
  OBVIOUS
<1>4. Listed(list, c, Before(m, k, i))'
  <2>1. Listed(l, c, p)'
    BY <1>2, <1>3, SameVolume
  <2> QED BY <1>1, <1>2, <1>3, <2>1
<1>5. Part(c, Before(m, k, i))' <=> Part(c, p)
  <2>1. Part(c, p)' <=> Part(c, p)
    BY SameVolume
  <2> QED BY <1>1, <1>2, <2>1
<1>6. Here' = Sector(cluster_no', s)
  BY DEF Here, Sector
<1>7. Chain(c)' = Chain(c)
  BY SameVolume
<1> QED BY <1>2, <1>4, <1>5, <1>6, <1>7 DEF ScanningAt

\* The entry looked at.
LEMMA EntryHere ==
  ASSUME FatTypes, NEW c, Right(c), fat_pc = "entry", NEW m \in 1 .. Len(Chain(c)), ScanningAt(c, m)
  PROVE  /\ Before(m, k, i) \in Nat /\ Before(m, k, i) + 1 \in DOMAIN Entries(c)
         /\ Entry(direntry, i) = Entries(c)[Before(m, k, i) + 1]
         /\ k \in 0 .. vol.spc - 1 /\ i \in 0 .. PerSector - 1 /\ vol.spc \in Nat
         /\ direntry = Here /\ Here = Sector(Chain(c)[m], k) /\ m \in Nat \ {0}
<1>1. k \in 0 .. vol.spc - 1 /\ i \in 0 .. PerSector - 1 /\ vol \in Volumes /\ Intact(c) /\ m \in Nat \ {0} /\ vol.spc \in Nat
  BY ChainFacts DEF FatTypes, ScanningAt, Right
<1>2. direntry = Here /\ Here = Sector(Chain(c)[m], k)
  BY DEF ScanningAt, Here
<1> QED BY <1>1, <1>2, EntryAt

\* On to the next entry.
LEMMA AdvanceScan ==
  ASSUME FatTypes, NEW c, Right(c), fat_pc = "entry", NEW m \in 1 .. Len(Chain(c)), ScanningAt(c, m),
         Advance, UNCHANGED <<vol, cluster_no>>, direntry' = Here,
         Listed(list', c, Before(m, k, i) + 1), prev' = "lfn" <=> Part(c, Before(m, k, i) + 1)
  PROVE  ScanningAt(c, m)'
<1>1. /\ k \in 0 .. vol.spc - 1 /\ i \in 0 .. PerSector - 1 /\ vol.spc \in Nat
      /\ Here = Sector(Chain(c)[m], k) /\ m \in Nat \ {0} /\ vol \in Volumes /\ cluster_no = Chain(c)[m]
  BY EntryHere DEF FatTypes, ScanningAt
<1>2. PICK s \in Nat, j \in Nat : s = k /\ j = i
  BY <1>1
<1>3. PICK p \in Nat, o \in Nat : p = Before(m, s, j) /\ o = Before(m, s, 0) /\ p = o + j
  <2>1. Before(m, s, j) \in Nat /\ Before(m, s, 0) \in Nat /\ Before(m, s, j) = Before(m, s, 0) + j
    BY <1>1, BeforeSum, Zenon
  <2> QED BY <2>1, Zenon
<1>4. CASE j + 1 < PerSector
  <2>1. i' = j + 1 /\ k' = s /\ fat_pc' = "entry"
    BY <1>2, <1>4 DEF Advance
  <2>2. Before(m, s, j + 1) = p + 1
    <3>1. Before(m, s, j + 1) = o + (j + 1)
      BY <1>1, <1>3, BeforeSum
    <3> QED BY <1>3, <3>1
  <2>3. s \in 0 .. vol.spc /\ s < vol.spc /\ s + (j + 1) > 0
    BY <1>1, <1>2
  <2>4. Listed(list', c, Before(m, s, j + 1)) /\ (prev' = "lfn" <=> s + (j + 1) > 0 /\ Part(c, Before(m, s, j + 1)))
    BY <1>2, <1>3, <2>2, <2>3
  <2>5. direntry' = Sector(Chain(c)[m], s) /\ cluster_no' = Chain(c)[m] /\ fat_pc' # "sector"
    BY <1>1, <1>2, <2>1
  <2> QED BY <2>1, <2>3, <2>4, <2>5, ScanningNext
<1>5. CASE ~(j + 1 < PerSector)
  <2>1. i' = 0 /\ k' = s + 1 /\ fat_pc' = "sector"
    BY <1>2, <1>5 DEF Advance
  <2>2. Before(m, s + 1, 0) = p + 1
    <3>1. Before(m, s + 1, 0) = o + PerSector
      BY <1>1, <1>3, BeforeSum
    <3>2. PerSector = j + 1
      BY <1>1, <1>2, <1>5, FatConsts
    <3> QED BY <1>3, <3>1, <3>2
  <2>3. s + 1 \in 0 .. vol.spc /\ (s + 1) + 0 > 0
    BY <1>1, <1>2
  <2>4. Listed(list', c, Before(m, s + 1, 0)) /\ (prev' = "lfn" <=> (s + 1) + 0 > 0 /\ Part(c, Before(m, s + 1, 0)))
    BY <1>2, <1>3, <2>2, <2>3
  <2>5. cluster_no' = Chain(c)[m]
    BY <1>1
  <2> QED BY <2>1, <2>3, <2>4, <2>5, ScanningNext
<1> QED BY <1>4, <1>5

\* An entry that stands behind no part of a long name has its short one.
LEMMA ShortName ==
  ASSUME vol \in Volumes, NEW c, Intact(c), WellFormed(c), NEW m \in 1 .. Len(Chain(c)),
         NEW s \in 0 .. vol.spc - 1, NEW j \in 0 .. PerSector - 1, Before(m, s, j) + 1 \in Members(c),
         ~(s + j > 0 /\ Part(c, Before(m, s, j)))
  PROVE  NameOf(c, Before(m, s, j) + 1) = <<Entries(c)[Before(m, s, j) + 1].part>>
<1>1. PICK p \in Nat : p = Before(m, s, j)
  BY EntryAt
<1>2. PICK h : h = LongFrom(c, p + 1)
  OBVIOUS
<1>3. s \in Nat /\ j \in Nat
  BY FatConsts, ChainFacts
<1>4. ASSUME h # p + 1 PROVE FALSE
  <2>1. Begins(c, p + 1, h)
    BY <1>2, <1>4, LongCases
  <2>2. h \in 1 .. p
    BY <2>1 DEF Begins
  <2>3. Part(c, p)
    <3>1. CASE h = p
      BY <2>1, <3>1 DEF Begins
    <3>2. CASE h # p
      <4>1. p \in h + 1 .. (p + 1) - 1
        BY <2>2, <3>2
      <4> QED BY <2>1, <4>1 DEF Begins
    <3> QED BY <3>1, <3>2
  <2>4. s = 0 /\ j = 0
    BY <1>1, <1>3, <2>3
  <2>5. s = 0 => p + 1 - h <= j
    BY <1>1, <1>2, NameStart
  <2> QED BY <2>2, <2>4, <2>5
<1> QED BY <1>1, <1>2, <1>4 DEF NameOf

LEMMA LongStep ==
  ASSUME FatTypes, NEW c, Right(c), NEW m \in 1 .. Len(Chain(c)), ScanningAt(c, m), rd_long
  PROVE  ScanningAt(c, m)'
<1>1. vol \in Volumes /\ Intact(c) /\ WellFormed(c) /\ fat_pc = "entry" /\ \E T : list \in Seq(T)
  BY DEF Right, FatTypes, rd_long
<1>2. /\ Before(m, k, i) \in Nat /\ Before(m, k, i) + 1 \in DOMAIN Entries(c)
      /\ Entry(direntry, i) = Entries(c)[Before(m, k, i) + 1]
      /\ k \in 0 .. vol.spc - 1 /\ i \in 0 .. PerSector - 1
      /\ direntry = Here /\ Here = Sector(Chain(c)[m], k)
  BY <1>1, EntryHere
<1>3. PICK s, j, H, p, e :
        /\ s = k /\ j = i /\ H = Here /\ p = Before(m, s, j) /\ p \in Nat
        /\ e = Entry(direntry, i) /\ e = Entries(c)[p + 1] /\ p + 1 \in DOMAIN Entries(c)
  BY <1>2
<1>4. k + i > 0 /\ Part(c, p) /\ e.attrib \notin {"lfn", "label"}
  BY <1>3 DEF rd_long, ScanningAt
<1>5. p \in DOMAIN Entries(c)
  <2>1. p > 0
    <3>1. s \in Nat /\ j \in Nat /\ m \in Nat \ {0} /\ s + j > 0
      BY <1>1, <1>2, <1>3, <1>4, ChainFacts DEF FatTypes
    <3> QED BY <1>1, <1>3, <3>1, BeforeSum
  <2> QED BY <1>1, <1>3, <2>1, EntriesLen
<1>6. InUse(e) /\ p + 1 \in Members(c)
  BY <1>3, <1>4, <1>5, <1>1, WellFacts DEF Members
<1>7. PICK s0, i0 : s0 = (IF j = 0 THEN H - 1 ELSE H) /\ i0 = (IF j = 0 THEN PerSector ELSE j)
  OBVIOUS
<1>8. /\ Generate_Long_Name(s0, i0, H) = NameOf(c, p + 1)
      /\ j > 0 => LeftInBuffer(s0, i0, H) = H
  BY <1>1, <1>2, <1>3, <1>4, <1>6, <1>7, LongName
<1>9. /\ list' = Append(list, Node(e, Generate_Long_Name(s0, i0, H)))
      /\ direntry' = IF j = 0 THEN H ELSE LeftInBuffer(s0, i0, H)
  BY <1>2, <1>3, <1>7 DEF rd_long
<1>10. direntry' = H /\ direntry = H
  BY <1>2, <1>3, <1>8, <1>9
<1>11. Entry(direntry', i) = e
  BY <1>3, <1>10
<1>12. prev' = e.attrib /\ Advance /\ UNCHANGED <<vol, cluster_no>>
  BY <1>6, <1>11 DEF rd_long
<1>13. prev' # "lfn" /\ ~Part(c, p + 1)
  BY <1>3, <1>4, <1>12 DEF Part
<1>14. Listed(list, c, p)
  BY <1>3 DEF ScanningAt
<1>15. Listed(list', c, p + 1)
  BY <1>1, <1>3, <1>6, <1>8, <1>9, <1>14, ListedMore
<1> QED BY <1>1, <1>3, <1>10, <1>12, <1>13, <1>15, AdvanceScan

LEMMA ShortStep ==
  ASSUME FatTypes, NEW c, Right(c), NEW m \in 1 .. Len(Chain(c)), ScanningAt(c, m), rd_short
  PROVE  ScanningAt(c, m)'
<1>1. vol \in Volumes /\ Intact(c) /\ WellFormed(c) /\ fat_pc = "entry" /\ \E T : list \in Seq(T)
  BY DEF Right, FatTypes, rd_short
<1>2. /\ Before(m, k, i) \in Nat /\ Before(m, k, i) + 1 \in DOMAIN Entries(c)
      /\ Entry(direntry, i) = Entries(c)[Before(m, k, i) + 1]
      /\ k \in 0 .. vol.spc - 1 /\ i \in 0 .. PerSector - 1
      /\ direntry = Here /\ Here = Sector(Chain(c)[m], k)
  BY <1>1, EntryHere
<1>3. PICK s, j, p, e :
        /\ s = k /\ j = i /\ p = Before(m, s, j) /\ p \in Nat
        /\ e = Entry(direntry, i) /\ e = Entries(c)[p + 1] /\ p + 1 \in DOMAIN Entries(c)
  BY <1>2
<1>4. /\ e.attrib \in {"lfn", "label"} \/ prev # "lfn"
      /\ list' = IF e.attrib \notin {"lfn", "label"} /\ InUse(e) THEN Append(list, Node(e, <<e.part>>)) ELSE list
      /\ prev' = IF InUse(e) THEN e.attrib ELSE prev
      /\ Advance /\ UNCHANGED <<vol, cluster_no, direntry>>
  BY <1>3 DEF rd_short
<1>5. Listed(list, c, p) /\ (prev = "lfn" <=> s + j > 0 /\ Part(c, p))
  BY <1>3 DEF ScanningAt
<1>6. p + 1 \in Members(c) <=> e.attrib \notin {"lfn", "label"} /\ InUse(e)
  BY <1>3 DEF Members
<1>7. Listed(list', c, p + 1)
  <2>1. CASE p + 1 \in Members(c)
    <3>1. NameOf(c, p + 1) = <<e.part>>
      BY <1>1, <1>2, <1>3, <1>4, <1>5, <1>6, <2>1, ShortName
    <3> QED BY <1>1, <1>3, <1>4, <1>5, <1>6, <2>1, <3>1, ListedMore
  <2>2. CASE p + 1 \notin Members(c)
    <3>1. list' = list
      BY <1>4, <1>6, <2>2
    <3>2. Listed(list, c, p + 1)
      BY <1>1, <1>3, <1>5, <2>2, ListedSame
    <3> QED BY <3>1, <3>2
  <2> QED BY <2>1, <2>2
<1>8. prev' = "lfn" <=> Part(c, p + 1)
  <2>1. CASE InUse(e)
    BY <1>3, <1>4, <2>1 DEF Part
  <2>2. CASE ~InUse(e)
    <3>1. ~Part(c, p + 1)
      BY <1>3, <2>2 DEF Part
    <3>2. ASSUME prev = "lfn" PROVE FALSE
      <4>1. s + j > 0 /\ Part(c, p)
        BY <1>5, <3>2
      <4>2. p > 0
        <5>1. s \in Nat /\ j \in Nat /\ m \in Nat \ {0}
          BY <1>1, <1>2, <1>3, ChainFacts DEF FatTypes
        <5> QED BY <1>1, <1>3, <4>1, <5>1, BeforeSum
      <4>3. p \in DOMAIN Entries(c)
        BY <1>1, <1>3, <4>2, EntriesLen
      <4> QED BY <1>1, <1>3, <2>2, <4>1, <4>3, WellFacts
    <3> QED BY <1>4, <2>2, <3>1, <3>2
  <2> QED BY <2>1, <2>2
<1>9. direntry' = Here
  BY <1>2, <1>4
<1> QED BY <1>1, <1>3, <1>4, <1>7, <1>8, <1>9, AdvanceScan

\* A sector of a directory that is read, and the end of a cluster.
LEMMA SectorStep ==
  ASSUME FatTypes, NEW c, Right(c), NEW m \in 1 .. Len(Chain(c)), ScanningAt(c, m), rd_sector
  PROVE  fat_pc' = "entry" /\ ScanningAt(c, m)'
<1>1. vol \in Volumes /\ Intact(c) /\ fat_pc = "sector" /\ k < vol.spc /\ k \in Nat /\ vol.spc \in Nat
  BY ChainFacts DEF Right, FatTypes, rd_sector
<1>2. /\ cluster_no = Chain(c)[m] /\ i = 0 /\ Listed(list, c, Before(m, k, 0))
      /\ prev = "lfn" <=> k + 0 > 0 /\ Part(c, Before(m, k, 0))
  BY <1>1 DEF ScanningAt
<1>3. Here = Sector(Chain(c)[m], k) /\ Readable(Here)
  BY <1>1, <1>2, SectorAt DEF Here
<1>4. fat_pc' = "entry" /\ i' = 0 /\ direntry' = Here /\ UNCHANGED <<vol, cluster_no, k, prev, list>>
  BY <1>3 DEF rd_sector
<1>5. PICK s \in Nat : s = k
  BY <1>1
<1>6. /\ k' = s /\ s \in 0 .. vol.spc /\ s < vol.spc /\ direntry' = Sector(Chain(c)[m], s) /\ cluster_no' = Chain(c)[m]
      /\ Listed(list', c, Before(m, s, 0)) /\ (prev' = "lfn" <=> s + 0 > 0 /\ Part(c, Before(m, s, 0)))
  BY <1>1, <1>2, <1>3, <1>4, <1>5
<1>7. ScanningAt(c, m)'
  BY <1>4, <1>6, ScanningNext
<1> QED BY <1>4, <1>7

LEMMA ClusterStep ==
  ASSUME FatTypes, NEW c, Right(c), NEW m \in 1 .. Len(Chain(c)), ScanningAt(c, m), rd_next_cluster
  PROVE  \/ fat_pc' = "listed" /\ Listed(list, c, Len(Entries(c)))
         \/ fat_pc' = "sector" /\ m + 1 \in 1 .. Len(Chain(c)) /\ ScanningAt(c, m + 1)'
<1>1. /\ vol \in Volumes /\ Intact(c) /\ fat_pc = "sector" /\ k = vol.spc /\ vol.spc \in Nat \ {0}
      /\ UNCHANGED <<vol, list, i>>
  BY ChainFacts DEF Right, FatTypes, rd_next_cluster
<1>2. PICK L \in Nat \ {0} : L = Len(Chain(c)) /\ m \in 1 .. L
  BY <1>1, ChainFacts
<1>3. cluster_no = Chain(c)[m] /\ i = 0 /\ Listed(list, c, Before(m, vol.spc, 0))
  BY <1>1 DEF ScanningAt
<1>4. Before(m, vol.spc, 0) = Before(m + 1, 0, 0)
  <2>1. m \in Nat \ {0} /\ 0 \in Nat
    BY <1>2
  <2> QED BY <1>1, <2>1, BeforeSum, Zenon
<1>5. fat32_rd_FAT(cluster_no) = vol.fat[Chain(c)[m]]
  BY <1>1, <1>3, ChainFacts DEF fat32_rd_FAT
<1>6. CASE m < L
  <2>1. m + 1 \in 1 .. L /\ m \in 1 .. L - 1
    BY <1>2, <1>6
  <2>2. vol.fat[Chain(c)[m]] = Chain(c)[m + 1] /\ Chain(c)[m + 1] \in Nat \ {0}
    BY <1>1, <1>2, <2>1, ChainFacts DEF IsChain
  <2>3. cluster_no' = Chain(c)[m + 1] /\ k' = 0 /\ prev' = "none" /\ fat_pc' = "sector" /\ i' = 0
    BY <1>1, <1>3, <1>5, <2>2 DEF rd_next_cluster, EOF, DISK_READ_ERR
  <2>4. 0 \in 0 .. vol.spc /\ ~(0 + 0 > 0)
    BY <1>1
  <2>5. Listed(list', c, Before(m + 1, 0, 0)) /\ (prev' = "lfn" <=> 0 + 0 > 0 /\ Part(c, Before(m + 1, 0, 0)))
    BY <1>1, <1>3, <1>4, <2>3, <2>4
  <2>6. ScanningAt(c, m + 1)'
    BY <1>1, <2>3, <2>4, <2>5, ScanningNext
  <2> QED BY <1>2, <2>1, <2>3, <2>6
<1>7. CASE m = L
  <2>1. Before(m + 1, 0, 0) = Len(Entries(c))
    <3>1. (m + 1) - 1 = L
      BY <1>2, <1>7
    <3>2. PICK x \in Nat, y \in Nat : x = L * vol.spc /\ y = x * PerSector
      BY <1>1, FatConsts, SumTimes
    <3>3. Before(m + 1, 0, 0) = (x + 0) * PerSector + 0 /\ x + 0 = x /\ y + 0 = y
      BY <3>1, <3>2 DEF Before
    <3>4. Len(Entries(c)) = y
      BY <1>1, <1>2, <3>2, EntriesLen
    <3> QED BY <3>2, <3>3, <3>4
  <2>2. Listed(list, c, Len(Entries(c)))
    BY <1>3, <1>4, <2>1
  <2>3. vol.fat[Chain(c)[m]] = EOF
    BY <1>2, <1>7 DEF Right, EndKnown
  <2> QED BY <1>5, <2>2, <2>3 DEF rd_next_cluster, RdClusterReturn
<1> QED BY <1>2, <1>6, <1>7

\* A step after which the list of the same directory is what it was.
LEMMA ListedStays ==
  ASSUME UNCHANGED <<vol, list, current_cluster>>
  PROVE  /\ Right(current_cluster)' <=> Right(current_cluster)
         /\ Listed(list, current_cluster, Len(Entries(current_cluster)))'
              <=> Listed(list, current_cluster, Len(Entries(current_cluster)))
<1>1. PICK c, l : c = current_cluster /\ l = list /\ c = current_cluster' /\ l = list'
  OBVIOUS
<1>2. PICK n : n = Len(Entries(c))
  OBVIOUS
<1>3. /\ Entries(c)' = Entries(c) /\ (Intact(c)' <=> Intact(c)) /\ (WellFormed(c)' <=> WellFormed(c))
      /\ (EndKnown(c)' <=> EndKnown(c))
      /\ Listed(l, c, n)' <=> Listed(l, c, n)
  BY SameVolume
<1>4. Right(c)' <=> Right(c)
  BY <1>3 DEF Right
<1> QED BY <1>1, <1>2, <1>3, <1>4

LEMMA ListStep ==
  ASSUME ListInv, [FatNext]_fatVars
  PROVE  ListInv'
<1> DEFINE All == Listed(list, current_cluster, Len(Entries(current_cluster)))
<1>1. FatTypes /\ FatTypes'
  BY TypesStep DEF ListInv
<1>2. CASE UNCHANGED fatVars
  <2>1. UNCHANGED <<vol, fat_pc, current_cluster, cluster_no, k, i, prev, direntry, list, returned>>
    BY <1>2 DEF fatVars
  <2>2. PICK c : c = current_cluster /\ c = current_cluster'
    BY <2>1
  <2>3. Chain(c)' = Chain(c) /\ Entries(c)' = Entries(c)
    BY <2>1, SameVolume
  <2>4. ASSUME NEW m, ScanningAt(c, m) PROVE ScanningAt(c, m)'
    BY <2>1, <2>4, ScanningNext DEF ScanningAt, Here
  <2>5. (All' <=> All) /\ (Right(current_cluster)' <=> Right(current_cluster))
    BY <2>1, ListedStays
  <2> QED BY <1>1, <2>1, <2>2, <2>3, <2>4, <2>5 DEF ListInv
<1>3. ASSUME UNCHANGED <<vol, list, current_cluster>>, fat_pc' \notin {"sector", "entry"},
             Right(current_cluster) /\ (fat_pc' = "listed" \/ returned' = "listing") => All
      PROVE  ListInv'
  BY <1>1, <1>3, ListedStays DEF ListInv
<1>4. ASSUME NEW c \in vol.dirs, NEW name \in Goals \union {Nil}, init_fat32(c, name) PROVE ListInv'
  <2>1. /\ current_cluster' = c /\ cluster_no' = c /\ k' = 0 /\ i' = 0 /\ prev' = "none" /\ list' = <<>>
        /\ returned' = Nil /\ vol' = vol /\ (vol.boot => fat_pc' = "sector")
    BY <1>4 DEF init_fat32, fat32_rd_bootsec
  <2>2. SUFFICES ASSUME Right(c)' PROVE 1 \in 1 .. Len(Chain(c)') /\ ScanningAt(c, 1)' /\ fat_pc' = "sector"
    BY <1>1, <2>1, FatConsts DEF ListInv
  <2>3. vol \in Volumes /\ Right(c) /\ Intact(c) /\ vol.boot
    BY <1>1, <2>1, <2>2, SameVolume DEF Right, FatTypes
  <2>4. Len(Chain(c)) \in Nat \ {0} /\ Chain(c)[1] = c /\ vol.spc \in Nat \ {0}
    BY <2>3, ChainFacts DEF IsChain
  <2>5. Before(1, 0, 0) = 0
    BY <2>4, FatConsts DEF Before
  <2>6. Upto(c, 0) = {}
    BY <2>3, EntriesLen DEF Upto, Members
  <2>7. Listed(<<>>, c, 0)
    BY <2>6, FS_EmptySet DEF Listed
  <2>8. ScanningAt(c, 1)'
    <3>1. 0 \in 0 .. vol.spc /\ ~(0 + 0 > 0) /\ fat_pc' = "sector"
      BY <2>1, <2>3, <2>4
    <3> QED BY <2>1, <2>4, <2>5, <2>7, <3>1, ScanningNext
  <2> QED BY <2>1, <2>3, <2>4, <2>8, SameVolume
<1>5. CASE rd_cluster
  <2>1. UNCHANGED <<vol, current_cluster, returned>> /\ fat_pc \in {"sector", "entry"} /\ returned' = Nil
    BY <1>1, <1>5 DEF rd_cluster, rd_sector, rd_long, rd_short, rd_next_cluster, FatTypes
  <2>2. PICK c : c = current_cluster /\ c = current_cluster'
    BY <2>1
  <2>3. Chain(c)' = Chain(c) /\ (Right(c)' <=> Right(c))
    BY <2>1, SameVolume DEF Right
  <2>4. CASE ~Right(c)
    BY <1>1, <2>2, <2>3, <2>4 DEF ListInv
  <2>6. CASE Right(c)
    <3>1. PICK m \in 1 .. Len(Chain(c)) : ScanningAt(c, m)
      BY <2>1, <2>2, <2>6 DEF ListInv
    <3>2. ASSUME NEW h \in 1 .. Len(Chain(c)), ScanningAt(c, h)', fat_pc' \in {"sector", "entry"} PROVE ListInv'
      BY <1>1, <2>1, <2>2, <2>3, <3>2, FatConsts DEF ListInv
    <3>3. CASE rd_sector
      BY <1>1, <2>6, <3>1, <3>2, <3>3, SectorStep
    <3>4. CASE rd_long
      <4>1. fat_pc' \in {"sector", "entry"}
        BY <3>4 DEF rd_long, Advance
      <4> QED BY <1>1, <2>6, <3>1, <3>2, <3>4, <4>1, LongStep
    <3>5. CASE rd_short
      <4>1. fat_pc' \in {"sector", "entry"}
        BY <3>5 DEF rd_short, Advance
      <4> QED BY <1>1, <2>6, <3>1, <3>2, <3>5, <4>1, ShortStep
    <3>6. CASE rd_next_cluster
      <4>1. UNCHANGED <<vol, list, current_cluster>>
        BY <3>6 DEF rd_next_cluster
      <4>2. CASE fat_pc' = "listed" /\ Listed(list, c, Len(Entries(c)))
        BY <1>3, <2>2, <4>1, <4>2
      <4>4. CASE fat_pc' = "sector" /\ m + 1 \in 1 .. Len(Chain(c)) /\ ScanningAt(c, m + 1)'
        BY <3>2, <4>4
      <4> QED BY <1>1, <2>6, <3>1, <3>6, <4>2, <4>4, ClusterStep
    <3> QED BY <1>5, <3>3, <3>4, <3>5, <3>6 DEF rd_cluster
  <2> QED BY <2>4, <2>6
<1>6. CASE chdir_return \/ load_refuse
  <2>1. fat_pc = "listed" /\ fat_pc' = "idle" /\ UNCHANGED <<vol, list, current_cluster>>
    BY <1>6 DEF chdir_return, load_refuse, Return
  <2> QED BY <1>3, <2>1 DEF ListInv
<1>7. CASE load_fat32 \/ mmap
  <2>1. /\ fat_pc' \in {"mmap", "idle"} /\ returned' # "listing" /\ UNCHANGED <<vol, list, current_cluster>>
    BY <1>1, <1>7, FatConsts DEF load_fat32, mmap, mmap_sector, mmap_next, Return, FatTypes
  <2> QED BY <1>3, <2>1
<1> QED BY <1>2, <1>4, <1>5, <1>6, <1>7 DEF FatNext, Step

\* fat32_rd_cluster lists any intact and well-formed directory whose chain ends
\* in FAT_EOF_MARKER: every member once, in order and under its name.
THEOREM VfatListingRight == FatSpec => []ListingRight
<1>1. FatInit => ListInv
  <2> SUFFICES ASSUME FatInit PROVE ListInv
    OBVIOUS
  <2>1. <<>> \in Seq({}) /\ <<>> \in Seq(Nat) /\ DOMAIN <<>> = {}
    OBVIOUS
  <2>2. FatTypes
    BY <2>1, FatConsts DEF FatInit, FatTypes
  <2> QED BY <2>2, FatConsts DEF FatInit, ListInv
<1>2. ListInv /\ [FatNext]_fatVars => ListInv'
  BY ListStep
<1>3. ListInv => ListingRight
  <2>1. SUFFICES ASSUME ListInv, returned = "listing", Right(current_cluster)
                 PROVE  LET c == current_cluster
                            rank(n) == Cardinality({m \in Members(c) : m <= n})
                        IN /\ Len(list) = Cardinality(Members(c))
                           /\ \A n \in Members(c) : list[rank(n)] = Node(Entries(c)[n], NameOf(c, n))
    BY DEF ListingRight, Right
  <2>2. PICK c : c = current_cluster
    OBVIOUS
  <2>3. Listed(list, c, Len(Entries(c))) /\ vol \in Volumes /\ Intact(c)
    BY <2>1, <2>2 DEF ListInv, FatTypes, Right
  <2>4. Upto(c, Len(Entries(c))) = Members(c)
    BY <2>3, EntriesLen DEF Upto, Members
  <2> QED BY <2>2, <2>3, <2>4 DEF Listed, Upto
<1> QED BY <1>1, <1>2, <1>3, PTL DEF FatSpec
=============================================================================
