------------------------------ MODULE FsShell ------------------------------
(***************************************************************************)
(* src/kernel/fs.c with the commands of src/utils/shell_builtin.c that     *)
(* drive it: root, cd, ldmod and rmdrv.  fs.c keeps a list of registered   *)
(* filesystem drivers and three function pointers to the one in use; ls    *)
(* shows the listing fs_prop that the last root or cd left.                *)
(*                                                                         *)
(* A driver is its name: its three symbols are one value.  "ext2" is       *)
(* compiled in and the others are modules with the code of vfat_module;    *)
(* each keeps its own current partition, drive and directory.  All volumes *)
(* have the same directories (Lookup).  A listing is the directory it was  *)
(* read from; cd resolves one path component per step.                     *)
(***************************************************************************)
EXTENDS Naturals, Sequences

CONSTANTS
  Modules,     \* the names of the loadable drivers
  DriverType,  \* fs_type_byte of every driver
  Parts,       \* the partition list: Parts[n] = [type, drive]
  Written,     \* the types that save_part_props puts into a node's type_byte
  StaleType,   \* what the heap may hold where a type_byte was not written
  Root, Dirs,  \* directories
  Names,       \* path components
  Lookup,      \* Lookup[dir][name]: a directory, "file" or "missing"
  Paths,       \* the paths given to cd
  MaxDepth,    \* DIRECTORY_NUM
  MaxDrivers,  \* bound on the length of the driver list
  Null

Drivers == Modules \union {"ext2"}
Types == {DriverType[d] : d \in Drivers} \union {Parts[n].type : n \in DOMAIN Parts} \union StaleType

ASSUME FsAssumption ==
  /\ "ext2" \notin Modules /\ Null \notin Drivers
  /\ DOMAIN DriverType = Drivers
  /\ Parts \in Seq([type : Types, drive : Nat])
  /\ StaleType # {}
  /\ Root \in Dirs /\ {"file", "missing"} \cap Dirs = {}
  /\ Lookup \in [Dirs -> [Names -> Dirs \union {"file", "missing"}]]
  /\ Paths \subseteq Seq(Names)
  /\ MaxDepth \in Nat /\ MaxDrivers \in Nat \ {0}

\* What each driver keeps: current_lba (the partition; 0: none of the list),
\* current_drive, and current_inode or current_cluster.
Mount == [part : Nat, drive : Nat, dir : Dirs]
Listing == [driver : Drivers, mount : Mount]

VARIABLES
  fs_drv_list,                        \* names, in list order
  drv_root, drv_chdir, drv_loadfile,  \* the driver each pointer belongs to
  mount,                              \* the drivers' own state
  fs_prop,                            \* the listing ls shows, or Null
  pc, rest,                           \* "chdir" while cd resolves rest
  answer                              \* ghost: how the last command ended

pointers == <<drv_root, drv_chdir, drv_loadfile>>
vars == <<fs_drv_list, drv_root, drv_chdir, drv_loadfile, mount, fs_prop, pc, rest, answer>>

-----------------------------------------------------------------------------
UsePointers(d) == drv_root' = d /\ drv_chdir' = d /\ drv_loadfile' = d

ListingOf(d, m) == [driver |-> d, mount |-> m]
Boot == [part |-> 0, drive |-> 0, dir |-> Root]

\* init_fs_modules: ext2 is compiled in.
Init ==
  /\ fs_drv_list = <<"ext2">>
  /\ drv_root = Null /\ drv_chdir = Null /\ drv_loadfile = Null
  /\ mount = [d \in Drivers |-> Boot]
  /\ fs_prop = Null
  /\ pc = "shell" /\ rest = <<>>
  /\ answer = "boot"

\* The type byte fs_root finds for n, in the node of partition n or, when there
\* is no such partition, in the empty last node of the list: the scan has put
\* it there for Linux and FAT32 partitions, elsewhere it is what the heap held.
TypeBytes(n) ==
  IF n \in DOMAIN Parts /\ Parts[n].type \in Written THEN {Parts[n].type} ELSE StaleType

\* The first registered driver for type t.
Handles(j, t) ==
  /\ j \in DOMAIN fs_drv_list
  /\ DriverType[fs_drv_list[j]] = t
  /\ \A i \in 1 .. j - 1 : DriverType[fs_drv_list[i]] # t

\* fs_root with the driver's root routine, which is always told drive 0.
RootFound(n, j) ==
  LET d == fs_drv_list[j]
      m == [part |-> IF n \in DOMAIN Parts THEN n ELSE 0, drive |-> 0, dir |-> Root]
  IN /\ UsePointers(d)
     /\ mount' = [mount EXCEPT ![d] = m]
     /\ fs_prop' = ListingOf(d, m)
     /\ answer' = "FS_DRV_FOUND"

\* Mutant: any driver on the list is taken.
cmd_root_Bug(n) ==
  /\ pc = "shell"
  /\ \E j \in DOMAIN fs_drv_list : RootFound(n, j)
  /\ UNCHANGED <<fs_drv_list, pc, rest>>

\* root p<n>
cmd_root(n) ==
  /\ pc = "shell"
  /\ \E t \in TypeBytes(n) :
       \/ \E j \in DOMAIN fs_drv_list : Handles(j, t) /\ RootFound(n, j)
       \/ /\ \A j \in DOMAIN fs_drv_list : ~Handles(j, t)
          /\ answer' = "FS_DRV_NOT_FOUND"
          /\ UNCHANGED <<drv_root, drv_chdir, drv_loadfile, mount, fs_prop>>
  /\ UNCHANGED <<fs_drv_list, pc, rest>>

-----------------------------------------------------------------------------
\* How a chdir routine that fails leaves fs_prop: ext2 reports the error itself
\* and returns where it got to (NULL for a path that is too long); a module
\* returns the error, and cmd_cd then only refreshes fs_temp.
FailedChdir(toolong) ==
  fs_prop' = IF drv_chdir # "ext2" THEN fs_prop
             ELSE IF toolong THEN Null
             ELSE ListingOf(drv_chdir, mount[drv_chdir])

\* Mutant: fs_chdir does not look whether there is a driver.
cmd_cd_Bug(path) ==
  /\ pc = "shell"
  /\ pc' = "chdir" /\ rest' = path
  /\ UNCHANGED <<fs_drv_list, drv_root, drv_chdir, drv_loadfile, mount, fs_prop, answer>>

\* cd: fs_chdir without a driver returns 0, which becomes the listing.
cmd_cd(path) ==
  /\ pc = "shell"
  /\ \/ /\ drv_chdir = Null
        /\ fs_prop' = Null
        /\ answer' = "FS_DRV_NOT_FOUND"
        /\ UNCHANGED <<pc, rest>>
     \/ /\ drv_chdir # Null /\ Len(path) > MaxDepth
        /\ FailedChdir(TRUE)
        /\ answer' = "PAT_LEN_EXCEED"
        /\ UNCHANGED <<pc, rest>>
     \/ /\ drv_chdir # Null /\ Len(path) <= MaxDepth
        /\ pc' = "chdir" /\ rest' = path
        /\ UNCHANGED <<fs_prop, answer>>
  /\ UNCHANGED <<fs_drv_list, drv_root, drv_chdir, drv_loadfile, mount>>

Target == Lookup[mount[drv_chdir].dir][Head(rest)]

\* A component that is a directory: the driver is in it from here on.
chdir_enter ==
  /\ pc = "chdir"
  /\ rest # <<>>
  /\ Target \in Dirs
  /\ mount' = [mount EXCEPT ![drv_chdir].dir = Target]
  /\ rest' = Tail(rest)
  /\ UNCHANGED <<fs_drv_list, drv_root, drv_chdir, drv_loadfile, fs_prop, pc, answer>>

\* Mutant: ext2 too leaves the listing of the directory it came from.
chdir_fail_Bug ==
  /\ pc = "chdir"
  /\ rest # <<>>
  /\ Target \notin Dirs
  /\ answer' = Target
  /\ pc' = "shell" /\ rest' = <<>>
  /\ UNCHANGED <<fs_drv_list, drv_root, drv_chdir, drv_loadfile, mount, fs_prop>>

\* A file or a missing name: the components before it are not undone.
chdir_fail ==
  /\ pc = "chdir"
  /\ rest # <<>>
  /\ Target \notin Dirs
  /\ FailedChdir(FALSE)
  /\ answer' = Target
  /\ pc' = "shell" /\ rest' = <<>>
  /\ UNCHANGED <<fs_drv_list, drv_root, drv_chdir, drv_loadfile, mount>>

chdir_done ==
  /\ pc = "chdir"
  /\ rest = <<>>
  /\ fs_prop' = ListingOf(drv_chdir, mount[drv_chdir])
  /\ answer' = "SUCCESS"
  /\ pc' = "shell"
  /\ UNCHANGED <<fs_drv_list, drv_root, drv_chdir, drv_loadfile, mount, rest>>

-----------------------------------------------------------------------------
\* ldmod of a module, loaded where it is linked: register_module appends it,
\* whether or not it is on the list already.
ldmod_register(m) ==
  /\ pc = "shell"
  /\ drv_loadfile # Null
  /\ Len(fs_drv_list) < MaxDrivers
  /\ fs_drv_list' = Append(fs_drv_list, m)
  /\ answer' = "FS_MODULE_REGISTERED"
  /\ UNCHANGED <<drv_root, drv_chdir, drv_loadfile, mount, fs_prop, pc, rest>>

\* No driver to load it with (address 0 is looked at), or a file that is no
\* module: the signature is wrong.
ldmod_bad ==
  /\ pc = "shell"
  /\ answer' = "FS_BAD_MODULE_FMT"
  /\ UNCHANGED <<fs_drv_list, drv_root, drv_chdir, drv_loadfile, mount, fs_prop, pc, rest>>

\* The file cannot be loaded: the error code is taken for an address, which is
\* not mapped; without an IDT the machine resets.
ldmod_reset ==
  /\ pc = "shell"
  /\ drv_loadfile # Null
  /\ fs_drv_list' = <<"ext2">>
  /\ UsePointers(Null)
  /\ mount' = [d \in Drivers |-> Boot]
  /\ fs_prop' = Null
  /\ answer' = "boot"
  /\ UNCHANGED <<pc, rest>>

\* The first node called m.
FirstAt(j, m) ==
  /\ j \in DOMAIN fs_drv_list
  /\ fs_drv_list[j] = m
  /\ \A i \in 1 .. j - 1 : fs_drv_list[i] # m

Without(j) == SubSeq(fs_drv_list, 1, j - 1) \o SubSeq(fs_drv_list, j + 1, Len(fs_drv_list))

\* Mutant: the pointers are left alone.
unregister_inner_Bug(j) ==
  /\ fs_drv_list' = Without(j)
  /\ UNCHANGED pointers

\* Behind the first node: unlink, and point to the driver before it.
unregister_inner(j) ==
  /\ fs_drv_list' = Without(j)
  /\ UsePointers(fs_drv_list[j - 1])

unregister_module(m) ==
  \/ /\ FirstAt(1, m)
     /\ fs_drv_list' = Tail(fs_drv_list)
     /\ answer' = "FS_MODULE_REMOVED"
     /\ UNCHANGED pointers
  \/ /\ \E j \in DOMAIN fs_drv_list \ {1} : FirstAt(j, m) /\ unregister_inner(j)
     /\ answer' = "FS_MODULE_REMOVED"
  \/ /\ \A j \in DOMAIN fs_drv_list : fs_drv_list[j] # m
     /\ answer' = "FS_MODULE_NOT_FOUND"
     /\ UNCHANGED <<fs_drv_list, drv_root, drv_chdir, drv_loadfile>>

\* rmdrv <m>
cmd_rmdrv(m) ==
  /\ pc = "shell"
  /\ unregister_module(m)
  /\ UNCHANGED <<mount, fs_prop, pc, rest>>

cmd_ldmod == (\E m \in Modules : ldmod_register(m)) \/ ldmod_bad \/ ldmod_reset
chdir == chdir_enter \/ chdir_fail \/ chdir_done
Commands ==
  \/ \E n \in 0 .. Len(Parts) + 1 : cmd_root(n)
  \/ \E path \in Paths : cmd_cd(path)
  \/ cmd_ldmod
  \/ chdir

Next == Commands \/ \E m \in Drivers : cmd_rmdrv(m)

Spec == Init /\ [][Next]_vars

\* The user never removes the first driver of the list.
GuardedNext ==
  Commands \/ \E m \in Drivers : (fs_drv_list # <<>> => Head(fs_drv_list) # m) /\ cmd_rmdrv(m)

GuardedSpec == Init /\ [][GuardedNext]_vars

-----------------------------------------------------------------------------
\* Every variable has its type.
TypeOK ==
  /\ fs_drv_list \in Seq(Drivers)
  /\ drv_root \in Drivers \union {Null}
  /\ drv_chdir \in Drivers \union {Null}
  /\ drv_loadfile \in Drivers \union {Null}
  /\ mount \in [Drivers -> Mount]
  /\ fs_prop \in Listing \union {Null}
  /\ pc \in {"shell", "chdir"}
  /\ rest \in Seq(Names)
  /\ pc = "chdir" => drv_chdir # Null

\* The three pointers belong to one driver, and it is registered: no removal of
\* a driver leaves a pointer to its code.
ActiveRegistered ==
  /\ drv_root = drv_chdir /\ drv_chdir = drv_loadfile
  /\ drv_chdir # Null => \E j \in DOMAIN fs_drv_list : fs_drv_list[j] = drv_chdir

\* "Change control to any directory in the current partition": a listing of
\* ext2 is of the directory ext2 is in, however long the path and wherever a cd
\* failed, and whatever modules do in between.
Ext2Shown ==
  fs_prop # Null /\ fs_prop.driver = "ext2" /\ (pc = "chdir" => drv_chdir # "ext2") =>
    fs_prop.mount = mount["ext2"]

\* Driver d belongs on n: partition n is of its type, or n is a node whose type
\* byte nobody wrote and the heap held the driver's type there.
Suits(d, n) ==
  \/ n \in DOMAIN Parts /\ Parts[n].type = DriverType[d]
  \/ DriverType[d] \in StaleType /\ (n \in DOMAIN Parts => Parts[n].type \notin Written)

\* What ls shows was read by a driver of the partition's type, through every
\* root, cd, ldmod and rmdrv: a Linux or FAT32 partition is never given to
\* another driver, and a partition of another type, or none at all, only to a
\* driver whose type the unwritten byte of the node happened to hold.
RootMatches == fs_prop # Null => Suits(fs_prop.driver, fs_prop.mount.part)
=============================================================================
