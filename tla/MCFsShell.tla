----------------------------- MODULE MCFsShell -----------------------------
(***************************************************************************)
(* FsShell with three directories, "/" > "a" > "b", and a file in each.    *)
(***************************************************************************)
EXTENDS FsShell

MCDirs == {"/", "a", "b"}
MCNames == {"a", "b", "f", ".."}
MCLookup ==
  [d \in MCDirs |-> [n \in MCNames |->
     CASE n = "f" -> "file"
       [] n = ".." /\ d = "b" -> "a"
       [] n = ".." /\ d # "b" -> "/"
       [] d = "/" /\ n = "a" -> "a"
       [] d = "a" /\ n = "b" -> "b"
       [] OTHER -> "missing"]]

LongPaths == {<<>>} \union {<<n>> : n \in MCNames}
                    \union {<<m, n>> : m \in MCNames, n \in MCNames} \union {<<"a", "b", "..">>}

Type == [d \in Drivers |-> CASE d = "ext2" -> "native" [] d = "vfat" -> "fat32_lba" [] OTHER -> "ntfs"]
P(t, d) == [type |-> t, drive |-> d]
OneDrive == <<P("native", 0), P("fat32_lba", 0), P("ntfs", 0)>>
=============================================================================
