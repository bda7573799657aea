------------------------------ MODULE Drivers ------------------------------
(***************************************************************************)
(* The two drivers the shell waits in, on one processor: at any time it is *)
(* in getch or in hd.c, or between calls, while the user and the drives go *)
(* on.  Keys typed while a sector is read wait in the controller.          *)
(***************************************************************************)
EXTENDS Ide, Keyboard

CONSTANT MaxCalls  \* bound on the calls of hd.c

VARIABLE calls

vars == <<ideVars, keyVars, calls>>

Init == IdeInit /\ KeyInit /\ calls = 0

CallDisk ==
  /\ ~reading /\ calls < MaxCalls
  /\ \E what \in {"read_sector", "write_sector"}, r \in Requests : Call(what, r)
  /\ calls' = calls + 1
  /\ UNCHANGED keyVars

CallGetch == op = "none" /\ getch /\ UNCHANGED <<ideVars, calls>>

DiskCode == ~reading /\ IdeCode /\ UNCHANGED <<keyVars, calls>>
KeyCode == op = "none" /\ GetRawKey /\ UNCHANGED <<ideVars, calls>>
DriveStep == (\E d \in 0 .. 1 : DriveWorks(d)) /\ UNCHANGED <<keyVars, calls>>
UserStep == User /\ UNCHANGED <<ideVars, calls>>

Next == CallDisk \/ CallGetch \/ DiskCode \/ KeyCode \/ DriveStep \/ UserStep

\* The code runs on, the shell reads the next key, and drives end what they do.
Spec ==
  /\ Init /\ [][Next]_vars
  /\ WF_vars(DiskCode) /\ WF_vars(KeyCode) /\ WF_vars(CallGetch) /\ WF_vars(DriveStep)

\* Every call of hd.c returns: no wait for BUSY lasts for ever, whatever is
\* connected and typed.
CallsReturn == (op # "none") ~> (op = "none")
=============================================================================
