-------------------------------- MODULE Ide --------------------------------
(***************************************************************************)
(* drivers/hd.c against the drives: read_sector and write_sector, which    *)
(* write a command to the ports, wait while BUSY and move the words, and   *)
(* probe_ide_drives, which asks both drives who they are.                  *)
(*                                                                         *)
(* The drives are external and run beside the code.  A word of a sector is *)
(* <<drive, sector, k>>, one of the answer to IDENT <<drive, "id", k>>, and *)
(* Junk whatever the data port has when there is no word.  A drive shows   *)
(* BUSY as soon as it has a command and, unless it streams, again between  *)
(* two sectors of one.  Where there is no drive the status reads 0.        *)
(***************************************************************************)
EXTENDS Integers, Sequences, FiniteSets

CONSTANTS
  Machines,   \* what may be drive 0 and 1: their kinds, whether they stream, and
              \* the sectors <<drive, lba>> that cannot be read
  Requests,   \* what is asked of the driver: [drive, lba, num]
  Base, Nib,  \* values of a byte, and of the nibble in the drive register
  Words,      \* words in a sector, 256 in the code
  Junk

ASSUME IdeAssumption ==
  /\ \A m \in Machines : /\ m.kind \in [0 .. 1 -> {"ata", "atapi", "none"}]
                        /\ m.streams \in [0 .. 1 -> BOOLEAN]
                        /\ m.defects \subseteq (0 .. 1) \X Nat
  /\ Requests \subseteq [drive : 0 .. 1, lba : Nat, num : Nat \ {0}]
  /\ Base \in Nat \ {0} /\ Nib \in Nat \ {0} /\ Words \in Nat \ {0}

VARIABLES
  kind, streams, defects,  \* of the drives
  overwritten,             \* sectors whose content is no longer their own
  select, regs,            \* the drive and address registers
  cmd, busy, drq, err,     \* by drive: the command it works on and its status
  fifo, left,              \* by drive: words to transfer, sectors still to do
  at,                      \* the sector the drive has got to
  op, pc, arg,             \* the routine called, where it is, its arguments
  buf, result,
  drive, num_ide_drives, ide_drive  \* of the probe; the drives with known geometry

portVars == <<select, regs, cmd, busy, drq, err, fifo, left, at>>
worldVars == <<kind, streams, defects>>
probeVars == <<drive, num_ide_drives, ide_drive>>
ideVars == <<kind, streams, defects, overwritten, select, regs, cmd, busy, drq, err, fifo,
             left, at, op, pc, arg, buf, result, drive, num_ide_drives, ide_drive>>

-----------------------------------------------------------------------------
\* The four registers of an address, and the address a drive sees in them.
Bytes(lba) ==
  <<lba % Base, (lba \div Base) % Base, (lba \div (Base * Base)) % Base,
    (lba \div (Base * Base * Base)) % Nib>>
Address(r) == r[1] + Base * (r[2] + Base * (r[3] + Base * r[4]))

\* What is on the disk.
SectorWords(d, lba) ==
  [k \in 1 .. Words |-> IF <<d, lba>> \in overwritten THEN Junk ELSE <<d, lba, k>>]
IdentWords(d) == [k \in 1 .. Words |-> <<d, "id", k>>]

\* A command to drive d; one that is not there does not notice.
Command(d, what, num) ==
  IF kind[d] = "none" THEN UNCHANGED <<cmd, busy, drq, err, fifo, left>>
  ELSE /\ cmd' = [cmd EXCEPT ![d] = what]
       /\ busy' = [busy EXCEPT ![d] = TRUE]
       /\ drq' = [drq EXCEPT ![d] = FALSE] /\ err' = [err EXCEPT ![d] = FALSE]
       /\ fifo' = [fifo EXCEPT ![d] = <<>>] /\ left' = [left EXCEPT ![d] = num]

\* Mutant: the two middle bytes of the address are swapped.
IssueTransfer_Bug(what) ==
  /\ regs' = LET b == Bytes(arg.lba) IN <<b[1], b[3], b[2], b[4]>>
  /\ select' = arg.drive
  /\ at' = Address(regs')
  /\ Command(arg.drive, what, arg.num)

\* The command block of read_sector and write_sector; drive_num is 0 or 1.
IssueTransfer(what) ==
  /\ regs' = Bytes(arg.lba)
  /\ select' = arg.drive
  /\ at' = Address(regs')
  /\ Command(arg.drive, what, arg.num)

Return(r) == result' = r /\ op' = "none" /\ pc' = "idle"

Call(what, r) ==
  /\ op = "none"
  /\ op' = what /\ pc' = "issue" /\ arg' = r
  /\ buf' = <<>> /\ result' = "none"
  /\ UNCHANGED <<worldVars, overwritten, portVars, probeVars>>

Issue ==
  /\ op \in {"read_sector", "write_sector"} /\ pc = "issue"
  /\ IssueTransfer(op)
  /\ pc' = "poll"
  /\ UNCHANGED <<worldVars, overwritten, op, arg, buf, result, probeVars>>

\* Mutant: the status is not waited for.
Polled_Bug == TRUE

\* Mutant: data are waited for, which an error and an absent drive never have.
Polled_Drq == drq[select]

\* while (inportb(IDE_STATUS) & IDE_STATUS_BUSY);
Polled == ~busy[select]

\* read_sector looks for an error before the first word only.
ReadTest ==
  /\ op = "read_sector" /\ pc = "poll" /\ Polled
  /\ \/ err[select] /\ Return("IO_ERROR")
     \/ ~err[select] /\ pc' = "words" /\ UNCHANGED <<op, result>>
  /\ UNCHANGED <<worldVars, overwritten, portVars, arg, buf, probeVars>>

\* The word at the data port of drive d, and what taking it does to the drive.
PortWord(d) == IF drq[d] /\ fifo[d] # <<>> THEN Head(fifo[d]) ELSE Junk
TakeWord(d) ==
  IF PortWord(d) = Junk /\ (~drq[d] \/ fifo[d] = <<>>) THEN UNCHANGED <<busy, drq, fifo, left, at>>
  ELSE IF Len(fifo[d]) > 1
    THEN fifo' = [fifo EXCEPT ![d] = Tail(@)] /\ UNCHANGED <<busy, drq, left, at>>
  ELSE \* the last word of a sector
    LET more == left[d] > 1
        next == more /\ streams[d] /\ <<d, at + 1>> \notin defects
    IN /\ left' = [left EXCEPT ![d] = @ - 1]
       /\ at' = IF more THEN at + 1 ELSE at
       /\ fifo' = [fifo EXCEPT ![d] = IF next THEN SectorWords(d, at + 1) ELSE <<>>]
       /\ drq' = [drq EXCEPT ![d] = next]
       /\ busy' = [busy EXCEPT ![d] = more /\ ~next]

\* One word of the loop over 256 * num_sectors words.
ReadWord ==
  /\ op = "read_sector" /\ pc = "words"
  /\ Len(buf) < Words * arg.num
  /\ buf' = Append(buf, PortWord(select))
  /\ TakeWord(select)
  /\ UNCHANGED <<worldVars, overwritten, select, regs, cmd, err, op, pc, arg, result, probeVars>>

ReadDone ==
  /\ op = "read_sector" /\ pc = "words"
  /\ Len(buf) = Words * arg.num
  /\ Return("NOERROR")
  /\ UNCHANGED <<worldVars, overwritten, portVars, arg, buf, probeVars>>

\* write_sector calls outportw without the value: what is sent is not the
\* caller's, and the buffer gets what comes back.
WriteWords ==
  /\ op = "write_sector" /\ pc = "poll" /\ Polled
  /\ buf' = [k \in 1 .. Words * arg.num |-> Junk]
  /\ overwritten' = IF drq[select] THEN overwritten \union {<<select, at + k>> : k \in 0 .. arg.num - 1}
                    ELSE overwritten
  /\ drq' = [drq EXCEPT ![select] = FALSE]
  /\ busy' = [busy EXCEPT ![select] = drq[select]]
  /\ pc' = "written"
  /\ UNCHANGED <<worldVars, select, regs, cmd, err, fifo, left, at, op, arg, result, probeVars>>

WriteDone ==
  /\ op = "write_sector" /\ pc = "written" /\ Polled
  /\ Return(IF err[select] THEN "IO_ERROR" ELSE "NOERROR")
  /\ UNCHANGED <<worldVars, overwritten, portVars, arg, buf, probeVars>>

-----------------------------------------------------------------------------
\* IDENT, and for a drive that does not answer it ATAPI_IDENT.
ProbeIssue ==
  /\ op = "probe" /\ pc \in {"issue", "atapi"} /\ drive < 2
  /\ select' = drive
  /\ Command(drive, IF pc = "issue" THEN "ident" ELSE "atapi_ident", 1)
  /\ pc' = IF pc = "issue" THEN "poll" ELSE "pollatapi"
  /\ UNCHANGED <<worldVars, overwritten, regs, at, op, arg, buf, result, probeVars>>

\* The drive asks for its data to be read: the geometry is saved.
ProbeAta ==
  /\ op = "probe" /\ pc = "poll" /\ Polled /\ drq[select]
  /\ ide_drive' = IF fifo[select] = IdentWords(drive) THEN ide_drive \union {drive} ELSE ide_drive
  /\ fifo' = [fifo EXCEPT ![select] = <<>>] /\ drq' = [drq EXCEPT ![select] = FALSE]
  /\ num_ide_drives' = num_ide_drives + 1
  /\ drive' = drive + 1 /\ pc' = "issue"
  /\ UNCHANGED <<worldVars, overwritten, select, regs, cmd, busy, err, left, at, op, arg, buf, result>>

ProbeNoAta ==
  /\ op = "probe" /\ pc = "poll" /\ Polled /\ ~drq[select]
  /\ pc' = "atapi"
  /\ UNCHANGED <<worldVars, overwritten, portVars, op, arg, buf, result, probeVars>>

\* The answer to ATAPI_IDENT is not used, and not read from the drive.
ProbeAtapi ==
  /\ op = "probe" /\ pc = "pollatapi" /\ Polled
  /\ drive' = drive + 1 /\ pc' = "issue"
  /\ UNCHANGED <<worldVars, overwritten, portVars, op, arg, buf, result, num_ide_drives, ide_drive>>

ProbeDone ==
  /\ op = "probe" /\ drive = 2
  /\ Return(IF num_ide_drives = 0 THEN "DRIVE_NOT_FOUND" ELSE "NOERROR")
  /\ UNCHANGED <<worldVars, overwritten, portVars, arg, buf, probeVars>>

IdeCode ==
  \/ Issue \/ ReadTest \/ ReadWord \/ ReadDone \/ WriteWords \/ WriteDone
  \/ ProbeIssue \/ ProbeAta \/ ProbeNoAta \/ ProbeAtapi \/ ProbeDone

-----------------------------------------------------------------------------
\* The drive has words for its command.
Ready(d, words) ==
  /\ fifo' = [fifo EXCEPT ![d] = words] /\ drq' = [drq EXCEPT ![d] = TRUE]
  /\ UNCHANGED <<err, overwritten>>

\* The drive gives its command up.
Abort(d) ==
  /\ err' = [err EXCEPT ![d] = TRUE]
  /\ UNCHANGED <<fifo, drq, overwritten>>

\* A drive works on its command.
DriveWorks(d) ==
  /\ busy[d]
  /\ LET writes == cmd[d] = "write_sector" /\ op = "write_sector"
         good == <<d, at>> \notin defects
     IN \/ kind[d] = "ata" /\ cmd[d] = "read_sector" /\ good /\ Ready(d, SectorWords(d, at))
        \/ kind[d] = "ata" /\ cmd[d] = "read_sector" /\ ~good /\ Abort(d)
        \/ kind[d] = "ata" /\ writes /\ pc = "poll" /\ Ready(d, <<Junk>>)
        \/ kind[d] = "ata" /\ writes /\ pc = "written" /\ UNCHANGED <<err, fifo, drq, overwritten>>
        \/ kind[d] = "ata" /\ cmd[d] = "ident" /\ Ready(d, IdentWords(d))
        \/ kind[d] = "atapi" /\ cmd[d] = "atapi_ident" /\ Ready(d, IdentWords(d))
        \/ kind[d] = "atapi" /\ cmd[d] # "atapi_ident" /\ Abort(d)
  /\ busy' = [busy EXCEPT ![d] = FALSE]
  /\ UNCHANGED <<worldVars, select, regs, cmd, left, at, op, pc, arg, buf, result, probeVars>>

IdeInit ==
  /\ \E m \in Machines : kind = m.kind /\ streams = m.streams /\ defects = m.defects
  /\ overwritten = {}
  /\ select = 0 /\ regs = <<0, 0, 0, 0>> /\ at = 0
  /\ cmd = [d \in 0 .. 1 |-> "none"] /\ left = [d \in 0 .. 1 |-> 0]
  /\ busy = [d \in 0 .. 1 |-> FALSE] /\ drq = busy /\ err = busy
  /\ fifo = [d \in 0 .. 1 |-> <<>>]
  /\ op = "probe" /\ pc = "issue" /\ arg = [drive |-> 0, lba |-> 0, num |-> 1]
  /\ buf = <<>> /\ result = "none"
  /\ drive = 0 /\ num_ide_drives = 0 /\ ide_drive = {}

-----------------------------------------------------------------------------
\* What a caller of read_sector counts on: no error means that the buffer has
\* the sectors asked for, as they are on the drive.  The driver looks at the
\* status before the first sector only, so for more than one the drive has to
\* stream and the others have to be readable.
DataRight ==
  op = "none" /\ result = "NOERROR" /\ buf # <<>> /\ cmd[select] = "read_sector"
    /\ kind[arg.drive] = "ata" /\ arg.lba < Base * Base * Base * Nib =>
    \A s \in 0 .. arg.num - 1 :
      s = 0 \/ (streams[arg.drive] /\ \A t \in 1 .. s : <<arg.drive, arg.lba + t>> \notin defects) =>
        SubSeq(buf, s * Words + 1, (s + 1) * Words) = SectorWords(arg.drive, arg.lba + s)

\* A sector that cannot be read, and a drive that does not know the command, is
\* reported: the callers' error paths start here.
ErrorSeen ==
  op = "none" /\ result # "none" /\ cmd[select] = "read_sector" /\ kind[arg.drive] # "none" =>
    (result = "IO_ERROR") = (kind[arg.drive] = "atapi" \/ <<arg.drive, arg.lba>> \in defects)

\* The probe finds the hard disks, each with its own geometry, and no other
\* drive, before anything is read.
ProbeRight ==
  op # "probe" =>
    /\ ide_drive = {d \in 0 .. 1 : kind[d] = "ata"}
    /\ num_ide_drives = Cardinality(ide_drive)
=============================================================================
