------------------------------- MODULE Access -------------------------------
(***************************************************************************)
(* What an operator reaches the board by: the command line on its two      *)
(* transports (Console), the SSH server around one of them (SshServer),    *)
(* and the update by way of the web server and the command line (Ota).     *)
(*                                                                         *)
(* Console takes the session as it comes, SshServer what happens in one as *)
(* it ends, and an update needs neither; a behaviour is about one of them. *)
(***************************************************************************)
EXTENDS Console, SshServer, Ota

CONSTANT Caller        \* one caller for each transport

VARIABLE door          \* what this behaviour is about

doorVars == <<vars, sshVars, otaVars>>

AccessInit == /\ door \in {"console", "ssh", "ota"}
              /\ Init /\ SshInit /\ OtaInit

InConsole == door = "console" /\ UNCHANGED <<door, sshVars, otaVars>>
InSsh     == door = "ssh" /\ UNCHANGED <<door, vars, otaVars>>
InOta     == door = "ota" /\ UNCHANGED <<door, vars, sshVars>>

ConsoleStep == InConsole /\ Next
SshStep     == InSsh /\ SshNext
OtaStep     == InOta /\ OtaNext

AccessNext == ConsoleStep \/ SshStep \/ OtaStep

\* Every task runs and power stays on.  A FreeRTOS mutex that is given goes to the
\* waiting task of highest priority, and both waiters of the paint lock outrank the
\* draw task, and the console task is not passed over for s_lock for ever; an SSH
\* session may last, but turns callers away as it does.  No client need ever connect,
\* and no key be pressed; of the sender of an image nothing is assumed but that a
\* receive with nothing to take times out.
AccessFairness ==
  /\ WF_<<at, sshVars, otaVars>>((InConsole /\ ConsoleTask) \/ (InSsh /\ ServeTask) \/ (InOta /\ Handler))
  /\ WF_<<at, otaVars>>((InConsole /\ at["ssh"] \notin {"idle", "loop"} /\ SshTask) \/ (InOta /\ Silence))
  /\ WF_<<drawVars, otaVars>>((InConsole /\ DrawTask) \/ (InOta /\ (Crash \/ Restart)))
  /\ WF_<<printer, otaVars>>((InConsole /\ AsyncPrint) \/ (InOta /\ (ConfirmLook \/ ConfirmMark)))
  /\ WF_<<ready, otaVars>>((InConsole /\ ConsoleStart) \/ (InOta /\ (MarkInvalid \/ BootOther)))
  /\ SF_at(InConsole /\ Lock)
  /\ \A u \in Transport : SF_<<at, calls>>((InConsole /\ Hold(u)) \/ (InSsh /\ Answer(Caller[u])))

AccessSpec == /\ AccessInit /\ [][AccessNext]_<<door, doorVars>>
              /\ AccessFairness

-----------------------------------------------------------------------------
(* Properties *)

\* Each server at work, and what frees it.
Occupied == CASE door = "console" -> at["ssh"] = "bye"
              [] door = "ssh"     -> ssh_at \in {"kex", "auth"}
              [] door = "ota"     -> http = "recv"
Freed == CASE door = "console" -> owner = "uart" \/ fg["uart"] # NoScreen \/ at["ssh"] = "reset"
           [] door = "ssh"     -> ssh_at \notin {"kex", "auth"}
           [] door = "ota"     -> http \in {"idle", "restart"}
Queues(u) == at[u] = "hold" \/ (calls[Caller[u]] = "queued" /\ s_pass)

\* What others wait for is not kept for ever: not the paint lock, when the task that
\* leaves the display is the one that would make room in the ring the draw task
\* waits for (screen.c:71-76, net_ssh.c:158-162), not the SSH server by a caller that
\* never logs in (net_ssh.c:656-690), not the web server by an upload whose client is
\* gone (ota.c:119-136).  Whoever calls is served or turned away while there is a
\* password, and when a session ends the serial port is usable again.
NobodyWaits == /\ \A u \in Transport : Queues(u) ~> ~ Queues(u)
               /\ Occupied ~> Freed

-----------------------------------------------------------------------------
(* The instance that is checked *)

BothCallers == [u \in Transport |-> u]
=============================================================================
