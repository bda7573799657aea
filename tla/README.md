# A TLA+ model of janus86

janus86 is a small x86 kernel in C. It boots, enables paging, scans the IDE
drives for partitions and enters a command shell from which the user mounts
(`root`), walks (`cd`, `ls`) and reads partitions through a compiled-in ext2
driver and loadable filesystem modules. There is one thread. At this commit
`k_main` does not set up the IDT, the 8259 or the scheduler (the calls are
commented out) and interrupts stay disabled. What is hard in the code that runs
is mostly sequential: pointer structures that survive many calls, buffers worked
on in place and kept from line to line, state shared by globals between parts
that each update it by rules of their own, input from disks that the code trusts,
and commands that fail half way. Beside the code only the devices run: drives,
which the code polls, and the keyboard, which collects what is typed meanwhile.
The timer interrupt meets the code in the two parts that are compiled and not
called yet, the scheduler and the calibration of the delay loop.

## 1. Inventory

| part | source | state | operations | interacts with |
|---|---|---|---|---|
| storage allocator | `src/mm/kmalloc.c` | circular free list inside the arena, `freep` | `kmalloc`, `kfree`, `morecore` | called by every part below |
| console | `drivers/video.c`, `src/kernel/kprintf.c`, `getline` of `src/utils/shell.c` | video memory, globals `cursor_x`, `cursor_y` | `kclear_screen`, `kscroll_display`, `set_cursor_position`, `kprintf`, `getline`, `print_prompt` | the shell writes the cursor globals behind `kprintf`'s back |
| partition scan | `drivers/diskio.c` | sector structures `bslist`, `temp`; the list `partition` | `read_mbr`, `traverse_primary_partitions`, `traverse_extended_partitions`, `check_if_extended`, `get_boot_sector`, `save_part_props` | reads through `hd.c`; the list is read by `fs_root` and `ppart` |
| filesystem switch | `src/kernel/fs.c`, `src/utils/shell_builtin.c` | driver list, three function pointers, `fs_prop` | `fs_root`, `fs_chdir`, `fs_loadfile`, `register_module`, `unregister_module` and their commands | calls drivers through the pointers |
| ext2 driver | `src/fs/ext2/*.c` | current inode, partition and drive | `ext2_root`, `ext2_chdir`, `ext2_loadfile`, directory and inode reading | called through the switch |
| vfat module | `src/fs/vfat_module/fat32.c` | current cluster, partition, drive | `root_fat32`, `chdir_fat32`, `load_fat32`, FAT and cluster reading | loaded by `ldmod`, called through the switch |
| shell parser | `src/utils/shell.c`, `shell_builtin.c`, `src/kernel/string.c` | getline's buffer, static `sc` and `argtable` | `shell_parse`, `shell_gen_args`, `shell_exec`, the commands | hands words and numbers to the switch, the disk and memory |
| IDE driver | `drivers/hd.c` | controller ports, `ide_drive` | `read_sector`, `write_sector`, `probe_ide_drives` | polls the drives; under scan and drivers |
| keyboard | `drivers/keyboard.c` | shift state | `getch`, `GetRawKey` | polls the controller; under `getline` |
| paging | `src/mm/pageinit.c` | page directory and tables | `mem_init` | once at boot |
| scheduler | `src/kernel/sched.c`, `switch.asm` | ring of task records, clock | `make_task`, `task_timer_c`, `schedule`, `start_sys` | compiled, not linked; the timer interrupts it |
| ELF loader | `src/kernel/elf.c` | program image | `elf_load` | compiled, not linked |
| 8259, IDT, PIT, delay | `drivers/8259.c`, `pit.c`, `src/kernel/idt.c`, `delay.c` | interrupt mask, vectors, `ticks`, `delay_count` | `Init8259`, `InitIDT`, `set_vector`, `enable_irq`, `disable_irq`, `calibrateDelayLoop` | the timer interrupts the calibration; the calls in `k_main` are commented out |
| boot code, serial, strings | assembly, port I/O, library routines | | | |

What makes each part correct:

* *allocator*: live blocks never overlap, are never on the free list and are as
  large as asked; nothing is leaked and neighbours are joined; NULL exactly when
  nothing fits; every call returns although the list is walked in memory.
* *console*: no character outside the screen; `kprintf`'s private index and the
  shared cursor agree; no output overwrites earlier output; what is on the screen
  after the prompt is what is in the line buffer.
* *scan*: the list is the partitions of all drives, once each and where they are;
  nothing comes from a sector that is unreadable or not signed; the scan ends.
* *switch*: the pointers belong to one registered driver, the one `root` asked
  for; the listing is of the current directory; a driver works on a partition of
  its own type and on its drive.
* *ext2 driver*: an inode is read from where it is, a listing is the directory, a
  loaded file is in memory from its first byte on; every call returns.
* *vfat module*: the same, with names put together from several entries and files
  found by their cluster chain.
* *shell parser*: the arguments are the words typed, and what is handed on are those
  words and their values, whatever the buffers hold from the line before.
* *IDE driver, keyboard*: data are the disk's, errors are reported, no wait is for
  ever; characters come once, in order and in their case.
* *scheduler*: no record is lost, doubled or mixed; tasks take turns and each is
  chosen again and again.
* *timer and calibration*: no interrupt meets a missing handler; the count found is
  that of one tick; the calibration ends if the user answers its prompts.

`PROJECT.json` lists the hazards line by line. The recurrent ones are state used
after a callee has moved it (`temp` in `diskio.c`), equality tests at the edge of
the screen, the two joins of `kfree`, results that are ignored (`read_mbr`, a
failed load in `ldmod`) and pointers that outlive what they point to.

## 2. Modules

| module | what it is |
|---|---|
| `HeapContract` | what an allocator promises: blocks out of free units, refusal only without room |
| `Kmalloc` | `kmalloc.c`, one action per loop iteration; implements `HeapContract` |
| `Console` | `video.c`, `kprintf`'s output loop, `getline` and `print_prompt` |
| `DiskScan` | `diskio.c`: the boot-time scan |
| `FsShell` | `fs.c` with `root`, `cd`, `ldmod`, `rmdrv` and the drivers' path walks |
| `Ext2` | the ext2 driver below the path walk: inode addresses, directories, files |
| `Fat32` | the vfat module below the path walk: directory scan with long names, cluster chains, files |
| `Shell` | the line from the end of `getline` to the routine a command calls |
| `Ide` | `hd.c` and the drives |
| `Keyboard` | `keyboard.c`, the controller and a user |
| `Drivers` | `Ide` and `Keyboard` on one processor |
| `RoundRobin` | what a scheduler of equal turns promises |
| `Sched` | `sched.c` with the timer; implements `RoundRobin` |
| `Calib` | `8259.c`, `InitIDT`, `init_pit` and `calibrateDelayLoop` with the timer interrupt |
| `MC*` | the values TLC runs them with |
| `*Proofs` | the theorems, checked by TLAPS; those of `Shell` are in `ConsoleProofs`, those of `Fat32` in `FsShellProofs` |

In every module a definition has the name of the function it models where there
is one. Definitions marked "Mutant" (`_Bug`, `_Lost`, `_Drq`, `_Up`) are deliberately wrong variants; no
specification uses them, they are what the properties are tried against.

**Kmalloc.** Memory is an array of header-sized units, each with the two words of
`union header`; a block is the unit of its header. The list lives in that memory:
`ptr` and `size` hold whatever was last written there, headers or payload, and
`CallerWrite` lets a caller fill the payload of a block it holds with arbitrary
words. `KmallocCall` is the entry (with the lazy building of the list on the first
call), `KmallocTakeExact`, `KmallocTakeTail`, `KmallocNone` and `KmallocNext` the
branches of one iteration, `KfreeCall`, `KfreeNext` and `KfreeLink` those of
`kfree`; `KfreeLink` does the two joins in the code's order, the second reading
what the first wrote. Byte counts are reduced modulo `WordMod` where the code's
32-bit arithmetic would. `held` and `want` are the callers' side.

**Console.** A cell stands for a character and its attribute. The text printed is
abstracted to whether the next character is a newline; the index `i` of `kprintf`
and the cursor are advanced each by its own rule as in the code. `wrote`, the cell
of the last character, scrolls with the screen and is a ghost; so is `lit`, the cell
whose attribute byte `set_cursor_position` wrote last. That byte is written wherever the
cursor is: when it waits at the start of the row below the screen, the write is to the
first cell behind the screen, and `OnScreen` says that this is as far as it goes. The digits and
strings produced by `vsnprintf` are not modelled: they only decide which
characters follow.

**DiskScan.** A sector is its signature test and its table; a structure that was
not filled because the read failed holds `Stale`, what the heap may hold. `temp`
moves to the sector just read even if it is bad, which is what later
`check_if_extended` calls look at. The recursion of `get_boot_sector` is a tail
call and is a loop. `drive`, `entry` and `from` of a list node are ghosts.

**FsShell.** A driver is its name, its three symbols are one value, and each keeps
its own partition, drive and directory. `cd` is resolved one component per step, so
that a failure in the middle of a path leaves what it leaves. All modules have the
control flow of `vfat_module`, whose error handling differs from ext2's: ext2 prints
the error and returns the listing of where it got to, a module returns an error
code and `cmd_cd` discards the listing. A file that `ldmod` cannot load yields an
error code used as an address; that is `ldmod_reset`, back to the boot state.
`save_part_props` writes a node's type byte for the Linux and FAT32 types only
(`Written`); for any other partition, and for the empty node at the end of the list that
a number no partition has leads to, `fs_root` compares what the heap held (`TypeBytes`).
`RootMatches` compares the driver with the partition's type on the disk, not with that byte:
it says which listings the unwritten bytes can cause and that they cause no other.

**Ext2.** Sizes are in kilobytes. A volume has its block size, its group sizes, the
inodes in use, directory blocks, blocks of pointers and unreadable blocks. `Home` is
where mke2fs puts an inode, which is not in this repository; `inode_to_lba` and
`get_index` are the code's arithmetic, and the inode the code gets is the one whose
home is the address it computed. For the last inode of a group the slot is -1, in
front of the buffer: any inode may be read there. `ext2_load_file` uses `grblock`,
which points into the frame of `ext2_rd_inode`, a function that has returned: the
model reads the old value or one of `DeadStack`. `ext2_rd_dir` is one step per entry,
`ext2_rd_file` one per block. `Ext2Assumption` asks for `Consistent` volumes; files may
have holes and blocks may be unreadable. fs_root passes drive 0 to every driver, so the
constant 0 in `ext2_rd_file` is the volume's drive.

**Fat32.** Sectors are numbered through, so that reading past a cluster is reading
the next one. `rd_long` and `rd_short` are the two branches of `fat32_rd_cluster` for
an entry. `Generate_Long_Name` is given in closed form: the n-th entry it looks at,
walking back from the entry and through the sectors before, and the sector it leaves
in the buffer the scan goes on with. The recursion over clusters is a loop; `first`
is the outermost call, whose errors are the only ones reported. `size` may become
negative in `mmap_next`, and C's division rounds towards 0 (`CDiv`). A FAT has several end-of-chain
values and the code knows one; each other (`OtherEnds`) is taken for a cluster, of which the
drive reads the sectors that its address has after the wrap of the 28 bit registers
(`OnDisk`) and the code the table word, if the disk is large enough to have it. `fat` is
therefore a function on every number whose table sector is on the disk. Sectors and table
entries may be unreadable and files in any order. A long name has up to
`LongMax` entries, no fewer than a sector holds.

**Shell.** A character is a glyph; the name of a command is one glyph and so are some
digits of each base. `mem` is the buffer `getline` types into and `sc` the copy that
`shell_gen_args` cuts into arguments; both keep what older lines left. Pointers are
offsets in `sc`; NULL points to `low`, the string at address 0, because no command
tests for it. `gen_arg` is a round of the loop over arguments, `strcat` moves single
characters in place (`Moved`), and a command's action evaluates what it hands on after
that. `atoi` is a set of values: a character that is no digit, at the end of a
hexadecimal number, counts as an int that was never set. `getline`'s buffer is an
uninitialised pointer in the code; the model takes it to point to the same memory at
every call, which is one of the things it can do. `ShellAssumption` asks that lines fit.

**Ide, Keyboard, Drivers.** A drive is `busy` from a command until `DriveWorks`, then has
data or an error; between the sectors of one command it is busy again unless it
streams. hd.c waits only before the first sector. A word carries its drive, sector and
number, so that a wrong one shows. `write_sector` calls `outportw` without a value: the
sectors it names are marked `overwritten`. An address is the four registers of the code
with a small `Base`. In `Keyboard` a code is a key and its direction; `typed` is what the
user means, `got` what `getch` has returned, and the controller drops codes when it is
full. In `Drivers` the processor is in one of the two at a time, the drives and the user
go on.

**Sched.** The ring is the array of `sched.h` with its two indices; `make_task` is two
steps, because the timer may come between them. `GuardedNext` adds what `make_task`
does not test. The model is of the choice of a task: `chosen` is the stack pointer that
`schedule` returns to `task_timer`. What that pointer leads to is not modelled, and the
code does not look after it: `schedule` drops the stack of the interrupted task and returns
the frame `make_task` built, which the task's own pushes overwrite from its first turn on
(after `switch.asm` has popped the frame, the first push goes to the slot of `eip`), and
`task_timer` calls C code with the null segment in `ds`. `KeepsTurns` maps the ring, from `front` to `end`, to the queue of
`RoundRobin`.

**Calib.** The interrupt is an action that comes before any statement when line 0 is
requested, not masked and not in service and interrupts are on; the code's actions wait
for it. Time is counted in rounds of `__delay`: a round and a look at `ticks` take one,
other statements up to `Cost`. `Init8259`, `init_pit` (twice) and the end of
`calibrateDelayLoop` wait for a key: `getch` is the user's step, after any time. The handlers are names; `int_null` sends no EOI.

Modules that run apart meet at values: the list `DiskScan` builds is the constant
`Parts` of `FsShell`, what `Kmalloc` leaves in a fresh block is `Stale`, `StaleByte` and
`StaleType` in the other two, `Readable` of `DiskScan` is what `ErrorSeen` says of `Ide`,
and the names `Shell` hands to `fs_chdir` and `fs_loadfile` are the inputs of `FsShell`.

## 3. Runs

| run | specification and bounds | shows |
|---|---|---|
| `kmalloc_guarded` | `FairSpec`; arena of 6 units, requests of 0, 8 and 9 bytes (1, 2, 3 units); 245k states | the free list is exactly the maximal gaps, held blocks are disjoint and off the list, big enough; `HeapContract` is implemented; every call returns |
| `kmalloc_exact` | `Spec`; 4 units | *violation*: a block that is the whole list is granted and stays listed |
| `console_edit` | 3 rows, 6 columns, prompt of 2, lines of 3, keys that have a character | characters stay on the screen and the cursor's attribute byte within one cell of it, index and cursor agree, no overwriting; screen and buffer agree under echo, BACKSPACE and scrolling on lines that do not wrap |
| `disk_scan` | 2 drives, 3 table entries, boot sectors 1 to 3, at most one extended entry in a table, each drive sound or with unreadable and unsigned sectors; 228k states | the list is complete and right for every sound drive, no chain sector is listed twice, nothing is listed that a signed, readable sector does not hold, the scan ends |
| `fs_guarded` | `GuardedSpec`; ext2 and one module, 3 partitions, 3 directories, paths of up to 2 components and one that is too long, list of at most 3 | pointers stay with a registered driver, ext2 shows the directory it is in, Linux and FAT32 partitions are shown by the driver of their type whatever the heap holds |
| `ext2_read` | blocks of 1, 2 and 4 kilobytes, 2 direct blocks, 2 pointers in a block; the file's inode in group 0, 1, 2, 4, 625 or the last of group 0; 864 volumes, 269k states | inodes are found where they are, one-block directories are listed as they are, files with 4 kilobyte blocks are loaded right, every call returns |
| `fat32_read` | 3 entries in a sector, clusters of 1 and 2 sectors, directories of 1 to 3 clusters with every choice of 3 groups of entries, files of 1 to 3 clusters, broken sectors and table entries, chains that end in a marker the code does not know (of two, one wraps onto the disk) with a table word behind it or none; 318k states | long names are right wherever sectors divide them, contiguous files are loaded right, every call returns unless the table leads in a circle |
| `fat32_fragmented` | the same files on volumes without a fault | *violation*: a file in clusters 7 and 9 is loaded with the sectors of 7 and 8 |
| `sched_turns` | `GuardedSpec`; ring of 4, 3 tasks of 2 priorities, a clock that wraps; 9k states | no record is lost, doubled or mixed; `RoundRobin` is implemented; every task is chosen again and again; ticks and seconds agree |
| `calib_tick` | ticks of 9 to 45 rounds, other statements of 0 or 1; 27k states | the count is a tick's up to a step, whenever ticks come; the handler is there before the line opens; the calibration ends if the user types |
| `drivers_wait` | two drives (hard disk, ATAPI, none; streaming or not; with bad sectors), 2 calls of 1 or 2 sectors of 2 words, 4 key strokes, controller buffer of 2; 561k states | data and errors are right, the probe finds the hard disks, keys come in order and case, no call waits for ever |
| `shell_line` | all lines of up to 5 glyphs, all addresses of up to 4, all pairs of 39 command lines; words modulo 16^3; 65k states | arguments are the words typed; what is handed on is what they say |

**Why the bounds are enough.** Six units with blocks of one to three units give
every case of `kfree`: first, last and middle place, no join, either join, both,
with a list of up to three blocks. Three rows and six columns have a top, middle
and bottom row, and a prompt and line that end before the last column; `Any` text
fills and scrolls the screen any number of times. Two drives and three table
slots have an entry before and after an extended one, chains of length one to
three, and a second drive scanned after a first of any kind. A list of three
drivers holds a module twice, which the code allows. The ext2 volumes have an inode
in a group of each of the code's cases, the last entry of its list (625) and a slot
that is out of the sector; two direct blocks and two pointers have a first and a last
of each, with holes, unreadable blocks, single and double indirection. With three
entries in a sector and long names of up to four entries with their file, the groups
put every kind of entry at every place of a sector and a name across every sector
boundary. A ring of four with three tasks has one record free, the tightest the code
allows, and both indices wrap at different times. The tick lengths are just below, at and above powers of
two, where the two stages of the calibration meet, and one long enough for `PRECISION`
to end the second stage. Two calls give a read after a write and after an error; two
words in a sector have a first and a last, and two sectors the gap between them; four
key strokes hold both shift keys, release one and type. Five glyphs have two words with
separators of two between, before or after them, escaped or not; a pair of lines is what it
takes for one to leave something behind. The theorems of section 4
have no bounds.

**What the passing runs assume.** Each names a condition the code does not enforce:

* `kmalloc_guarded`: no request needs exactly the size of the lowest block
  (`base`). K&R's allocator, which this one follows, avoids the case with a base
  block of size 0; here `base` is the arena. Without it see `kmalloc_exact`.
  A weaker condition (never exactly the only free block) is not enough: once
  `base` is granted out of a longer list, freeing the block below the one left
  makes both joins act on the same block.
* `console_edit`: typed lines end before the last column (`PromptLen + MaxLine < Col`).
  `getline` never checks. On a line that has wrapped BACKSPACE moves the cursor within its
  row only, to the prompt's length at the least, so screen and buffer part, and the
  shell's Enter does not scroll: a line that wraps on the last row leaves the cursor two
  rows below the screen. `EchoMatchesBuffer` does not cover either.
* `console_edit` also: keys have a character. Ctrl, Alt and Caps Lock yield 0, which is
  stored and not shown.
* `disk_scan`: one extended entry per table and chains that go up the drive. A
  boot sector that links to itself is followed for ever, and of two extended entries
  in one MBR the second is not followed, because `temp` has moved on.
* `disk_scan` also: heap content does not pass for a signed sector.
* `fs_guarded`: the user keeps the first driver of the list (removing it leaves the
  pointers to it). The heap may hold a driver's type where no type byte was written, and
  does in the run: then a partition of another type, or none, is given to that driver,
  which `RootMatches` allows. `Ext2Shown` is about ext2:
  on a module a `cd` that fails half way leaves the listing of where it started. With
  two modules, removing one that is not in use redirects the pointers to the driver
  before it, which is registered and not the one asked for.
* `ext2_read`: the volume has a valid superblock, 128 byte inodes and sparse
  superblocks, and its directory and pointer blocks can be read (otherwise the code
  goes on with an uninitialised buffer). `ListingRight` is about directories of one
  block: with two, the first entry of the second overwrites the last of the first.
  `FileRight` is about readable files without holes and without a double indirect
  block (there the code copies the block of pointers itself) on volumes with 4 kilobyte
  blocks: 4096 bytes are copied for each block whatever its size, so with smaller
  ones the file has gaps; and about a group descriptor that is still in its dead
  frame. `Addressable` leaves out the last inode of each group and the groups from
  729 on, the first backup missing from the code's list.
* `fat32_read`: `CallsReturn` is about tables that do not lead in a circle (`NoLoops`),
  what the code finds behind a marker it takes for a cluster included: on a large disk
  that word is data of some file and may lead back. `ListingRight` is about directories
  that end in `FAT_EOF_MARKER` (`EndKnown`), because behind another marker the scan goes
  on in sectors that are not the directory's; and about directories that are written
  the way Windows does, with each long name and its entry in one cluster and of at
  most as many entries as a sector has; `FileRight` about files in consecutive
  clusters, whatever ends their chain. What is copied behind the end of a
  file is not judged: the code copies whole blocks and, on FAT, the rest of the file
  once per cluster, over whatever follows the buffer.
* `sched_turns`: `Room`, memory for the stack, and no timer interrupt inside `make_task`.
  `EveryTaskChosen` and `KeepsTurns` are about which record `schedule` takes, not about a
  task going on: see **Sched** above.
* `calib_tick`: a tick is longer than the statements around a measurement, and the
  timer does not wrap the counter; `delay_count` is 1 at the start, as its comment asks,
  so this is about the first calibration. `Finishes` has the user's keys as its
  hypothesis, `WF_vars(getch)`: a user who does not type keeps the code in `Init8259` or
  `init_pit` before a tick is counted.
* `drivers_wait`: a drive shows BUSY as soon as it has a command, and where there is
  none the status reads 0. `DataRight` asks for the second of two sectors only when the
  drive streams and can read it. `KeysRight` is about runs in which the controller
  dropped nothing, and about case as long as both shift keys are not held at once.
* `shell_line`: a line, with what is at address 0, fits into `sc`; the code has no test.
  `ArgsRight` leaves out lines of blanks only: `getline` skips blanks before it marks the
  end, so such a line is continued by what is left of an older one. It also leaves out
  lines with a NUL in them, which Ctrl, Alt and Caps Lock type: the copy ends there.
  `HandedOn` is about
  lines that have every word their command uses and numbers that are numbers; with
  fewer, commands take what is at address 0 or an older line's argument.

**Fairness.** `FairSpec` of `Kmalloc` and `Spec` of `DiskScan`, `Ext2` and `Fat32` (`FatSpec`) have weak fairness of
the steps of a call that is under way. The code is the only thread and interrupts
are off, so a step that can be taken is taken. `Drivers` adds that the shell calls
`getch` again and that a drive ends what it works on, which ATA demands of it; `Sched`
and `Calib` that the processor takes the interrupts it is shown and goes on between
them, the timer being periodic. Nothing is assumed of the callers, and no
specification makes a user type; where the code waits for one, in `Calib`, the property
says so (`Finishes`). `CallsReturn`, `ShellEntered`,
`EveryTaskChosen` and `Finishes` are the liveness properties.

**Deadlock** is checked in every run but two. `DiskScan` ends in the shell, where `Stay`
stands for the shell's own loop, and `Calib` in `Done`. `Drivers` really stops: `getch`
waits for a user who types no more. `Shell` stops when the lines of a session are typed
and when the machine is rebooted.

## 4. Proofs

TLAPS checks the theorems for every value of the constants that satisfies the
assumptions named in the modules.

**KmallocProofs.** `ListInv` is inductive together with `TypeOK` and the bound on
requests: some set `F` of blocks with `base` in it is the free list, `ptr` runs
through it in address order and wraps once (`Sorted`), the blocks of `F`, the held
ones and the one being freed tile the arena (`Tiled`), no two blocks of `F` touch
(`Coalesced`), and a running walk knows that every block it passed was too small
(`Passed`). The properties that are wanted (disjointness, the list is the gaps) are
not inductive: they do not say that the list is sorted, on which `kfree`'s search
depends, nor what a half-finished walk has seen, on which `Refuse` of the contract
depends. From it follow `TypeCorrect`, `ListInvariant`, `HeldBlocksDisjoint`,
`HeldBlocksNotFree`, `FreeListCoalesced`, `BlocksBigEnough` (when no request wraps
in the word) and `Refinement`: the allocator implements `HeapContract`, step by
step. All are about `GuardedSpec`.

**ConsoleProofs.** `ConsoleInv` relates index, cursor, `wrote` and the edited line
during every call of `kprintf`; from it `StaysOnScreen`, `IndexAndCursor`,
`OutputInOrder` and `EchoCorrect`, for every screen and prompt size with lines that
end before the last column. The screen's size is a product of two constants: the
proofs reduce every step to named facts about cells and rows.

The same module has the shell's parser. `ArgumentsRight`: `ArgsRight` for every
session of lines that fit (`ShellAssumption`), of any length, with any number of words and
of arguments. `ArgsRight` is about the end of `shell_gen_args`; the inductive `ArgsInv` says
how far it has come: the line starts behind its blanks (`Leading`), the words before `ccp`
stand in `sc` with their ends marked (`Cut`), the rest stands there as typed and the next
word starts at `ccp` (`Uncut`), and the pointers so far are to the first words, in order
(`Table`). That `ArgEnd` and `BlankEnd` stop where a word and its separators do is
`ArgEnds` and `NextStart`: a blank behind a backslash does not end a word, so the test reads
the character before, which must not be one already overwritten; `Uncut` has for this
that no word starts with a blank. A word is the n-th by the number of starts before it
(`Ranks`), so nothing is sorted.

**DiskScanProofs.** `ScanTypes`, and for any number of drives, entries, sectors and
any damage:

* `ListFromSigned`: a listed entry comes from a readable signed sector of its drive,
  when what the heap holds does not pass for a signed sector;
* `ListedOnce`: no sector is listed twice, if links go up the drive (`UpwardDisks`) and
  the heap holds no extended entry (`StalePlain`). `SavedOnce` says nothing of the future
  of a scan; `OnceInv` does: everything listed of the drive is below the sector that is
  read next, and `temp`, wherever `get_boot_sector` has moved it, has no way back;
* `ListComplete`: of a drive without damage exactly the MBR's entries and the chain's
  are listed. The chain is the least set closed under links, which no step of the scan
  mentions; `FindsInv` has the set `R` of the boot sectors followed so far: it is part of the
  chain, its links stay in it but for the last, and when the last link ends `R` is closed
  and hence all of the chain. `TidyDisks` asks for one extended entry in a table and
  none in `temp` behind the one that was followed. The drives of `disk_scan` satisfy
  the three conditions.

**FsShellProofs.** `FsTypes`; `PointersRegistered`, for any modules, loaded any
number of times; `Ext2Listing`: a listing of ext2 is of the directory ext2 is in,
however a `cd` ended and whatever is done with modules in between; `ListingsRooted`:
a Linux or FAT32 partition is only shown by the driver of its type, whatever the heap
holds in the bytes the scan leaves unwritten. The last one is about a
single module, the repository has no other: `rmdrv` moves the pointers to the driver
before the removed one, and with two modules that may be one that was never given a
partition. `RootedInv` adds that ext2 is first and has a root from the first `root` on,
so that it is a safe place to fall back to.

The same module has the vfat module, for every set of volumes, sector size and
number of entries in a sector that `FatAssumption` allows:

* `VfatFilesLoaded`: a file in consecutive readable clusters is in memory from its first
  sector on. `FileRight` is about a call that has returned; `FileInv` follows the load: until
  the first cluster's round is over memory is a prefix of the file (`FirstPass`), and from
  then on all of the file is there (`InMemory`), whatever the later rounds append, because
  that round already reads on over the cluster's end. `Needed` is the arithmetic of it.
* `VfatListingRight`: a directory that is intact and written as `WellFormed` says is listed
  with each member once, in order, under its name. `ListInv` has the place of the scan
  (`ScanningAt`: cluster, sector and entry, with the sector in the buffer), the nodes so far
  as the members up to there (`Listed`). The directory's chain ends in the marker the code
  knows (`EndKnown`). `LooksBack` is the walk of `Generate_Long_Name`
  backwards over sector boundaries, `LongName` that it finds the entry marked last which
  belongs to the name and no earlier one, and that the sector left in the buffer is the one
  the scan goes on with.

**SchedProofs.** `SchedInv` for every ring and set of tasks: the records from `front`
on are one for each task made, with its stack (`TasksKept`), a task half made is in
none of them, the clocks agree and the ring is not empty once the timer runs. From it
`RingKeepsTasks`, `ClockReadingsAgree`, `FrontTaskChosen` and `TurnsRefined`: the ring
implements `RoundRobin` step by step (`RR!Init` and `[][RR!Next]`; `KeepsTurns` has
its fairness too, which stays with TLC). The ring's remainders are replaced by case
distinctions once, in `RingSize` and `RingPlace`.

**CalibProofs.** `CalibInv` says for every point of the calibration where in a tick the
processor is: a measurement starts within a few statements of a tick, the loop has
counted `c` rounds since then, and an interrupt that came or waits means that a tick
has gone by. With it the first stage keeps "half the count is shorter than a tick" and
the second "the bits kept are shorter than a tick, and longer once the bit tested last
and the statements around a measurement are added".
`DelayCalibrated` for every length of a tick above the statements around a measurement
and below a quarter of the word; `HandlerInPlace`, `CalibTypes`.

**DriversProofs.** `KeysInOrder`: `KeysRight` speaks of what `getch` returned; the
inductive `KeyInv` needs what is still in the controller: some counting of the
characters among its codes and of the shift state in front of each agrees with what
was typed. `DiskInvariant`: during a read the words in the buffer and those still
in the drive are together the words of the sectors asked for, the registers hold the
address and the drive is as far as the buffer; `SectorsReadRight`,
`ProbeFindsDisks` and, for addresses that fit into the registers, `ErrorsReported`, for
any number of sectors and words, any defects and every pair of drives. `Drivers`
interleaves both; each invariant is kept by the other's steps.

**Ext2Proofs.** All are about volumes that are `Consistent`: tables lie in their groups,
entries in use have their inode, and indirect blocks hold block numbers, as mke2fs
and a working system leave them. `InodesFound` is the address arithmetic: for every
block size, group size and position of the tables the two cases of `inode_to_lba`
give the sector of `Home`, up to group 728. That the code's list has the groups with
a backup is the ground fact `BackupGroups`, which TLC evaluates. `Ext2Inv` is the rest:
where a directory scan is (`ScanAt`), that the nodes so far are its entries so far,
that a load was begun for the file that is asked for (`LoadsWanted`), and that the blocks
the load went through (direct and single indirect) are in memory without a gap
(`LoadedSoFar`); the steps for a double indirect block only append. The properties are about a call that has returned, so none of them
is inductive. From it `DirectoriesListed` and `FilesLoaded`, for any number of direct
blocks and of pointers in a block; `FilesLoaded` is about files without a double indirect
block.

**Only model-checked.** The liveness properties (`CallsReturn`, `ShellEntered`,
`EveryTaskChosen`, `Finishes`, and the fairness in `KeepsTurns`), which are out of the prover's
reach. `HandedOn` of `Shell`: the numbers `atoi` makes and the joined words of `strcat` are
folds and a recursive function over a string, and what those compute needs induction over
data. The
violations are single executions found by TLC. The inductive invariants are proved and
are not invariants of a run; TLC was used to try them on the bounds of section 3 before
they were proved.

## 5. What is not modelled

Left out for good: the boot assembly and port access (no state of their own), the
serial driver (pure I/O, its commands are commented out), `vsnprintf`'s formatting,
the colours of the screen, the switch of stacks in `switch.asm`, the dumps of the GDT, the exception handlers (they print and
stop), `init_ide`, `dec_cur_task_time` and the string routines nothing calls. `elf.c` is
unfinished and not linked: it reads the headers, copies no string table and loads
nothing. In `getline` the buffer is an uninitialised pointer; what else its writes
destroy depends on the build and is not modelled. Not yet modelled: paging (`page_init`
fills the tables once; its directory has half the entries `MEM_SIZE` asks for, since
`>>` binds weaker than `+`), `delay`, and scan codes with a prefix.

Remarks on behaviour the models keep as it is and no property judges: `cd /` is an
empty path and stays where it is; a newline printed while the cursor is below the
last row scrolls instead of adding a row; the scan lists unused table
entries too; `fs_root` reads the first drive whatever drive a partition is on, since
the partition list does not say.

## 6. Plan

Done: all modules of section 2, and theorems about each of them: every invariant the
passing runs check but `HandedOn` is a theorem. Next:

1. **Compositions**: `Kmalloc` with the callers of `register_module`, `make_task` and the
   scan, none of which tests for NULL; `DiskScan` feeding `FsShell`, with the heap's old
   content as the type byte; the page tables as a function.
2. **Shell**: `HandedOn` for numbers of a fixed number of digits, where the folds can be
   written out.
