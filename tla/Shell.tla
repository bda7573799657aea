------------------------------- MODULE Shell -------------------------------
(***************************************************************************)
(* A line of the shell, from the end of getline to the routine a command   *)
(* calls: shell_parse, shell_gen_args, shell_exec and the commands of      *)
(* shell_builtin.c, with strcmp, strcat and atoi.                          *)
(*                                                                         *)
(* Two buffers outlive a line and are worked on in place: the one getline  *)
(* types into, mem, and the copy the arguments point into, sc.  A character *)
(* is a glyph, the name of a command one glyph; pointers are offsets in sc, *)
(* NULL points to the string at address 0.  What a command calls is kept   *)
(* in calls; the filesystem and the disk behind the calls are external.    *)
(***************************************************************************)
EXTENDS Integers, Sequences, SequencesExt

CONSTANTS
  Sessions,    \* sequences of lines typed
  LowStrings,  \* what may be at address 0
  Partitions,  \* the names of the partitions listed
  CMDLEN, ARGNUM,
  WordMod,     \* ULONG counts modulo this
  Uninit       \* values an int may have that was never set

NUL == "nul"
NULL == -1
Blank == {" ", "\t"}
Places == 0 .. CMDLEN

\* Lines fit in the buffer, with the string at address 0 joined to them.
ASSUME ShellAssumption ==
  /\ CMDLEN \in Nat /\ ARGNUM \in Nat /\ WordMod \in Nat /\ Uninit # {}
  /\ \A s \in Sessions : s \in Seq(Range(s)) /\ \A k \in DOMAIN s : s[k] \in Seq(Range(s[k])) /\ Len(s[k]) <= CMDLEN
  /\ \A s \in Sessions, n \in LowStrings : \A k \in DOMAIN s : Len(s[k]) + Len(n) <= CMDLEN

VARIABLES
  todo, typed,     \* the lines still to type, and the last one
  mem, sc, low,    \* getline's buffer, the arguments' buffer, the string at 0
  shell_pc,
  input,           \* where in mem the line is that shell_parse gets
  ccp, args,       \* of shell_gen_args
  argtable, argc,
  calls            \* what the command called

shellVars == <<todo, typed, mem, sc, low, shell_pc, input, ccp, args, argtable, argc, calls>>
inputVars == <<todo, typed, mem, input>>
argVars == <<ccp, args, argtable, argc>>

-----------------------------------------------------------------------------
\* The string at place p of a buffer.
StringAt(b, p) ==
  LET end == CHOOSE e \in p .. CMDLEN : b[e] = NUL /\ \A j \in p .. e - 1 : b[j] # NUL
  IN [k \in 1 .. end - p |-> b[p + k - 1]]

\* The buffer after string s and its end are written to place p.
strcpy(b, p, s) ==
  [j \in Places |-> IF j \in p .. p + Len(s) - 1 THEN s[j - p + 1] ELSE IF j = p + Len(s) THEN NUL ELSE b[j]]

\* The string a pointer stands for.
Str(p) == IF p = NULL THEN low ELSE StringAt(sc, p)

\* The buffer while strcat moves the characters from s to the end of d, one by
\* one, and how many it moves.
Moved(d, s) ==
  LET to == d + Len(Str(d))
      moved[k \in Nat] ==
        IF k = 0 THEN sc ELSE [moved[k - 1] EXCEPT ![to + k - 1] = moved[k - 1][s + k - 1]]
      n == CHOOSE k \in 0 .. CMDLEN : moved[k][s + k] = NUL /\ \A j \in 0 .. k - 1 : moved[j][s + j] # NUL
  IN [buf |-> moved[n], end |-> to + n]

\* Mutant: the end of the string is not marked.
strcat_Bug(d, s) ==
  IF d = NULL THEN low' = low \o Str(s) /\ UNCHANGED sc
  ELSE IF s = NULL THEN sc' = strcpy(sc, d, Str(d) \o low) /\ UNCHANGED low
  ELSE sc' = Moved(d, s).buf /\ UNCHANGED low

\* strcat, in place; NULL is not tested.
strcat(d, s) ==
  IF d = NULL THEN low' = low \o Str(s) /\ UNCHANGED sc
  ELSE IF s = NULL THEN sc' = strcpy(sc, d, Str(d) \o low) /\ UNCHANGED low
  ELSE sc' = [Moved(d, s).buf EXCEPT ![Moved(d, s).end] = NUL] /\ UNCHANGED low

\* The string a pointer stands for afterwards.
StrAfter(p) == IF p = NULL THEN low' ELSE StringAt(sc', p)

\* Some digits of each kind.
Decimal == [g \in {"0", "1", "9"} |-> IF g = "0" THEN 0 ELSE IF g = "1" THEN 1 ELSE 9]
Hex == [g \in {"0", "1", "9", "a", "F"} |-> IF g = "a" THEN 10 ELSE IF g = "F" THEN 15 ELSE Decimal[g]]

\* The hexadecimal branch, from the last character to the first: one that is no
\* digit counts like the one after it, the last like what val happens to be.
FromHex(s, val) ==
  LET Add(st, g) ==
        LET v == IF g \in DOMAIN Hex THEN Hex[g] ELSE st.val
        IN [ret |-> (st.ret + 16^st.i * v) % WordMod, val |-> v, i |-> st.i + 1]
  IN FoldLeft(Add, [ret |-> 0, val |-> val, i |-> 0], Reverse(s)).ret

\* The decimal branch ends at the first character that is no digit.
FromDecimal(s) ==
  LET n == CHOOSE k \in 0 .. Len(s) : /\ \A j \in 1 .. k : s[j] \in DOMAIN Decimal
                                      /\ k = Len(s) \/ s[k + 1] \notin DOMAIN Decimal
      Add(ret, g) == (10 * ret + Decimal[g]) % WordMod
  IN FoldLeft(Add, 0, SubSeq(s, 1, n))

\* What atoi may return.
atoi(s) ==
  IF Len(s) >= 2 /\ s[1] = "0" /\ s[2] \in {"x", "X"}
    THEN {FromHex(SubSeq(s, 3, Len(s)), v) : v \in Uninit}
    ELSE {FromDecimal(s)}

-----------------------------------------------------------------------------
\* The end of getline: the line has been typed over the last one.  Leading
\* blanks are skipped before the end is marked, as far as there are any.
getline ==
  /\ shell_pc = "getline" /\ todo # <<>>
  /\ todo' = Tail(todo) /\ typed' = Head(todo)
  /\ LET over == [j \in Places |-> IF j < Len(typed') THEN typed'[j + 1] ELSE mem[j]]
     IN /\ input' = CHOOSE k \in Places : over[k] \notin Blank /\ \A j \in 0 .. k - 1 : over[j] \in Blank
        /\ mem' = [over EXCEPT ![Len(typed')] = NUL]
  /\ calls' = <<>> /\ shell_pc' = "parse"
  /\ UNCHANGED <<sc, low, argVars>>

\* Back in shell_main, which empties the line.
Back ==
  /\ mem' = [mem EXCEPT ![input] = NUL]
  /\ shell_pc' = "getline"
  /\ UNCHANGED <<todo, typed, input>>

\* Nothing typed: shell_parse returns.
shell_parse_empty ==
  /\ shell_pc = "parse" /\ mem[input] = NUL
  /\ Back
  /\ UNCHANGED <<sc, low, argVars, calls>>

\* shell_gen_args starts with a copy of the line.
shell_parse ==
  /\ shell_pc = "parse" /\ mem[input] # NUL
  /\ sc' = strcpy(sc, 0, StringAt(mem, input))
  /\ ccp' = 0 /\ args' = 0 /\ shell_pc' = "args"
  /\ UNCHANGED <<inputVars, low, argtable, argc, calls>>

\* The end of the argument at ccp, and the end of the blanks there.
ArgEnd(p) ==
  LET Ends(e) == sc[e] = NUL \/ sc[e] = "\t" \/ (sc[e] = " " /\ (e = 0 \/ sc[e - 1] # "\\"))
  IN CHOOSE e \in p .. CMDLEN : Ends(e) /\ \A j \in p .. e - 1 : ~Ends(j)
BlankEnd(p) == CHOOSE e \in p .. CMDLEN : sc[e] \notin Blank /\ \A j \in p .. e - 1 : sc[j] \in Blank

\* Mutant: only the first of the blanks is overwritten and skipped.
gen_arg_Bug ==
  /\ shell_pc = "args" /\ sc[ccp] # NUL /\ args < ARGNUM
  /\ argtable' = [argtable EXCEPT ![args] = ccp]
  /\ args' = args + 1
  /\ LET e == ArgEnd(ccp)
     IN /\ ccp' = IF sc[e] = NUL THEN e ELSE e + 1
        /\ sc' = [sc EXCEPT ![e] = NUL]
  /\ UNCHANGED <<inputVars, low, shell_pc, argc, calls>>

\* One round of shell_gen_args: an argument, and the blanks after it.
gen_arg ==
  /\ shell_pc = "args" /\ sc[ccp] # NUL /\ args < ARGNUM
  /\ argtable' = [argtable EXCEPT ![args] = ccp]
  /\ args' = args + 1
  /\ LET e == ArgEnd(ccp)
     IN /\ ccp' = BlankEnd(e)
        /\ sc' = [j \in Places |-> IF j \in e .. BlankEnd(e) - 1 THEN NUL ELSE sc[j]]
  /\ UNCHANGED <<inputVars, low, shell_pc, argc, calls>>

\* "Argument List Exceeded".
gen_too_many ==
  /\ shell_pc = "args" /\ sc[ccp] # NUL /\ args >= ARGNUM
  /\ Back
  /\ UNCHANGED <<sc, low, argVars, calls>>

gen_done ==
  /\ shell_pc = "args" /\ sc[ccp] = NUL
  /\ argtable' = [argtable EXCEPT ![args] = NULL]
  /\ argc' = args /\ shell_pc' = "exec"
  /\ UNCHANGED <<inputVars, sc, low, ccp, args, calls>>

-----------------------------------------------------------------------------
argv(k) == argtable[k]
cmdtab == {"help", "ls", "cd", "reboot", "clear", "ppart", "more", "load", "ldmod", "root",
           "lsdrv", "rmdrv", "chload", "dump"}

\* shell_exec has found the command.
Runs(name) == shell_pc = "exec" /\ Str(argv(0)) = <<name>>

\* The command calls cs and is done.
Calls(cs) == calls' = cs /\ Back /\ UNCHANGED argVars
Usage == Calls(<<>>)
Same == UNCHANGED <<sc, low>>

\* The first character at p, NUL at the end of a string.
Char(s, k) == IF k <= Len(s) THEN s[k] ELSE NUL
From(s, k) == SubSeq(s, k, Len(s))

shell_exec_unknown ==
  /\ shell_pc = "exec" /\ Str(argv(0)) \notin {<<name>> : name \in cmdtab}
  /\ Usage /\ Same

\* help: the commands, or from the last argument on what is known of each.
cmd_help ==
  /\ Runs("help")
  /\ Calls(IF argc <= 1 THEN <<<<"names">>>>
           ELSE [k \in 1 .. argc - 1 |->
                   <<IF Str(argv(argc - k)) \in {<<name>> : name \in cmdtab} THEN "help" ELSE "not found",
                     Str(argv(argc - k))>>])
  /\ Same

\* ls, which says so when no filesystem is in use.
cmd_ls ==
  /\ Runs("ls")
  /\ \/ Usage
     \/ argc = 1 /\ Calls(<<<<"list names">>>>)
     \/ argc = 2 /\ Char(Str(argv(1)), 1) = "-" /\ Char(Str(argv(1)), 2) = "l" /\ Calls(<<<<"list all">>>>)
     \/ argc = 2 /\ ~(Char(Str(argv(1)), 1) = "-" /\ Char(Str(argv(1)), 2) = "l") /\ Usage
     \/ argc > 2 /\ Usage
  /\ Same

\* cd wants one argument; after a refusal it has the directory listed again.
cmd_cd ==
  /\ Runs("cd")
  /\ LET cd == <<"fs_chdir", Str(argv(1))>>
     IN IF argc = 2 THEN Calls(<<cd>>) \/ Calls(<<cd, <<"fs_chdir", <<".">>>>>>) ELSE Usage
  /\ Same

\* rmdrv wants one argument too.
cmd_rmdrv ==
  /\ Runs("rmdrv")
  /\ IF argc = 2 THEN Calls(<<<<"unregister_module", Str(argv(1))>>>>) ELSE Usage
  /\ Same

\* clear, ppart and lsdrv take what they have.
Plain(name, routine) == Runs(name) /\ Calls(<<<<routine>>>>) /\ Same
cmd_clear == Plain("clear", "kclear_screen")
cmd_ppart == Plain("ppart", "list partitions")
cmd_lsdrv == Plain("lsdrv", "list_drivers")

\* reboot and chload do not come back.
Leave(cs) == calls' = cs /\ shell_pc' = "left" /\ UNCHANGED <<inputVars, argVars>>
cmd_reboot == Runs("reboot") /\ Leave(<<<<"reboot">>>>) /\ Same
cmd_chload == Runs("chload") /\ Leave(<<<<"pto_rmode">>>>) /\ Same

\* The results of fs_loadfile, 0 if no filesystem is in use, and those that
\* shell_panic reports.
LoadResults == {"load_mem", "FS_DRV_NOT_FOUND", "FIL_NOT_FOUND", "NOT_REG_FILE", "BAD_FAT_BOOT_SECTOR"}
shell_panic(r) == r \in {"FIL_NOT_FOUND", "NOT_REG_FILE"}

\* more goes on after a usage message, and after a result shell_panic does not
\* know.  It has the directory listed again, and prints as much as the list
\* says of the file, or a size never set.
cmd_more ==
  /\ Runs("more")
  /\ \E r \in LoadResults, listed \in BOOLEAN :
       /\ listed => r = "load_mem"
       /\ LET load == <<"fs_loadfile", Str(argv(1)), 0>>
          IN Calls(IF shell_panic(r) THEN <<load>>
                   ELSE <<load, <<"fs_chdir", <<".">>>>, <<"print", IF listed THEN "size" ELSE "any">>>>)
  /\ Same

\* load p<partition>: its boot sector, to 0x7C00.
cmd_load_partition ==
  /\ Runs("load") /\ Char(Str(argv(1)), 1) = "p"
  /\ \E n \in atoi(From(Str(argv(1)), 2)) :
       Calls(IF n \in Partitions THEN <<<<"read_disk_sector", "partition", n>>>> ELSE <<>>)
  /\ Same

\* load -s and -f: the second argument is joined to the switch, and the third
\* read after that.  Sector 0 is run.
cmd_load ==
  /\ Runs("load") /\ Char(Str(argv(1)), 1) = "-"
  /\ strcat(argv(1), argv(2))
  /\ LET s == StrAfter(argv(1))
     IN \E n, again \in atoi(From(s, 3)), load_mem \in atoi(StrAfter(argv(3))) :
          LET read == <<"read_disk_sector", n, load_mem>>
          IN \/ Char(s, 2) = "s" /\ again # 0 /\ Calls(<<read>>)
             \/ Char(s, 2) = "s" /\ again = 0 /\ Leave(<<read, <<"pto_rmode">>>>)
             \/ Char(s, 2) = "f" /\ Calls(<<<<"fs_loadfile", From(s, 3), load_mem>>>>)
             \/ Char(s, 2) \notin {"s", "f"} /\ Usage

\* load and something else does nothing.
cmd_load_other ==
  /\ Runs("load") /\ Char(Str(argv(1)), 1) \notin {"p", "-"}
  /\ Usage /\ Same

\* ldmod registers what fs_loadfile returns, an address or not.
cmd_ldmod ==
  /\ Runs("ldmod")
  /\ \E load_mem \in atoi(Str(argv(2))), r \in LoadResults :
       Calls(<<<<"fs_loadfile", Str(argv(1)), load_mem>>, <<"register_module", r>>>>)
  /\ Same

cmd_root ==
  /\ Runs("root")
  /\ IF Char(Str(argv(1)), 1) = "p" /\ argc <= 2
       THEN \E n \in atoi(From(Str(argv(1)), 2)) : Calls(<<<<"fs_root", n>>>>)
       ELSE Usage
  /\ Same

\* strcat never ends when it adds a string to itself.
Itself == argv(1) = NULL /\ argv(2) = NULL /\ low # <<>>

\* dump -x and -c: as load, the address is joined to the switch.
cmd_dump ==
  /\ Runs("dump") /\ ~Itself
  /\ strcat(argv(1), argv(2))
  /\ LET s == StrAfter(argv(1))
     IN IF Char(s, 1) = "-" /\ Char(s, 2) \in {"x", "c"}
          THEN \E n \in atoi(From(s, 3)) : Calls(<<<<"dump", n>>>>)
          ELSE Usage

cmd_dump_hangs == Runs("dump") /\ Itself /\ Leave(<<>>) /\ Same

ShellCommand ==
  \/ shell_exec_unknown \/ cmd_help \/ cmd_ls \/ cmd_cd \/ cmd_rmdrv \/ cmd_clear \/ cmd_ppart
  \/ cmd_lsdrv \/ cmd_reboot \/ cmd_chload \/ cmd_more \/ cmd_load_partition \/ cmd_load
  \/ cmd_load_other \/ cmd_ldmod \/ cmd_root \/ cmd_dump \/ cmd_dump_hangs

ShellInit ==
  /\ todo \in Sessions /\ typed = <<>> /\ low \in LowStrings
  /\ mem = [j \in Places |-> NUL] /\ sc = [j \in Places |-> NUL]
  /\ shell_pc = "getline" /\ input = 0 /\ ccp = 0 /\ args = 0
  /\ argtable = [k \in 0 .. ARGNUM |-> NULL] /\ argc = 0
  /\ calls = <<>>

ShellNext ==
  \/ getline \/ shell_parse_empty \/ shell_parse \/ gen_arg \/ gen_too_many \/ gen_done
  \/ ShellCommand

ShellSpec == ShellInit /\ [][ShellNext]_shellVars

-----------------------------------------------------------------------------
\* The words of a line, by what separates them: a tab, or a blank that does not
\* follow a backslash.
Separates(s, k) == s[k] = "\t" \/ (s[k] = " " /\ (k = 1 \/ s[k - 1] # "\\"))
Starts(s) == {k \in DOMAIN s : ~Separates(s, k) /\ (k = 1 \/ Separates(s, k - 1))}
WordFrom(s, k) ==
  SubSeq(s, k, CHOOSE e \in k .. Len(s) : /\ \A j \in k .. e : ~Separates(s, j)
                                          /\ e = Len(s) \/ Separates(s, e + 1))
Words(s) ==
  [n \in 1 .. Cardinality(Starts(s)) |->
     WordFrom(s, CHOOSE k \in Starts(s) : Cardinality({j \in Starts(s) : j < k}) = n - 1)]

\* A line of blanks only, or one with the NUL that Ctrl, Alt and Caps Lock type.
Void(s) == (\A k \in DOMAIN s : s[k] \in Blank) \/ \E k \in DOMAIN s : s[k] = NUL

\* When a command is looked up, argv has the words of the line that was typed,
\* each as typed, and NULL after them, although they are found in place in a
\* buffer that still has the last line's.
ArgsRight ==
  shell_pc = "exec" /\ ~Void(typed) =>
    /\ argc = Len(Words(typed))
    /\ \A k \in 1 .. argc : Str(argv(k - 1)) = Words(typed)[k]
    /\ argv(argc) = NULL

\* The value of a word, if it is a number.
Numeral(ds, base, value) == FoldLeft(LAMBDA n, g : (base * n + value[g]) % WordMod, 0, ds)
IsHex(w) == Len(w) > 2 /\ w[1] = "0" /\ w[2] \in {"x", "X"} /\ \A k \in 3 .. Len(w) : w[k] \in DOMAIN Hex
IsDecimal(w) == w # <<>> /\ \A k \in DOMAIN w : w[k] \in DOMAIN Decimal
IsNumber(w) == IsHex(w) \/ IsDecimal(w)
Value(w) == IF IsHex(w) THEN Numeral(From(w, 3), 16, Hex) ELSE Numeral(w, 10, Decimal)

\* The calls a line asks for that has every word its command uses.
Asked(w) ==
  LET has(n) == Len(w) > n
  IN IF w[1] = <<"load">> /\ has(3) /\ w[2] = <<"-", "s">> /\ IsNumber(w[3]) /\ IsNumber(w[4])
       THEN <<"read_disk_sector", Value(w[3]), Value(w[4])>>
     ELSE IF w[1] = <<"load">> /\ has(3) /\ w[2] = <<"-", "f">> /\ IsNumber(w[4])
       THEN <<"fs_loadfile", w[3], Value(w[4])>>
     ELSE IF w[1] = <<"ldmod">> /\ has(2) /\ IsNumber(w[3])
       THEN <<"fs_loadfile", w[2], Value(w[3])>>
     ELSE IF w[1] = <<"dump">> /\ has(2) /\ w[2] \in {<<"-", "x">>, <<"-", "c">>} /\ IsNumber(w[3])
       THEN <<"dump", Value(w[3])>>
     ELSE IF w[1] = <<"root">> /\ Len(w) = 2 /\ w[2][1] = "p" /\ IsNumber(Tail(w[2]))
       THEN <<"fs_root", Value(Tail(w[2]))>>
     ELSE <<>>

\* The file, the sector and the addresses handed on are those typed, although
\* the words are joined in place and the table keeps older arguments.
HandedOn ==
  calls # <<>> /\ ~Void(typed) /\ Asked(Words(typed)) # <<>> => calls[1] = Asked(Words(typed))
=============================================================================
