------------------------------ MODULE Console ------------------------------
(***************************************************************************)
(* Who may write to which terminal.  The firmware has one command line,    *)
(* one global stdout and two transports for them, the serial port and one  *)
(* SSH session (src/main/shell.c, net_ssh.c), and on each transport a      *)
(* full-screen display may be in front instead, which one draw task paints *)
(* (src/main/screen.c).  Four tasks write:                                 *)
(*   - the console task runs the command line of the serial port and holds *)
(*     s_lock while it does;                                               *)
(*   - the SSH task takes the console away under s_lock, swaps stdout and  *)
(*     then runs the same command line without it;                         *)
(*   - the draw task writes frames to the sinks, past stdout, run by run,  *)
(*     and holds the paint lock for a frame;                               *)
(*   - any task may print a line of its own, wiping the prompt and drawing *)
(*     it again if it finds s_lock free.                                   *)
(* Commands other than tui, top and exit only print, and are one step.     *)
(***************************************************************************)
EXTENDS Naturals, FiniteSets

CONSTANTS
  Screens,     \* SCREEN_TUI, SCREEN_TOP
  NoScreen,    \* SCREEN_NONE
  Runs         \* how many runs fb_flush() splits a frame into

ASSUME ConsoleAssumption == NoScreen \notin Screens /\ Runs \in Nat \ {0}

VARIABLES
  owner,         \* s_owner
  fg,            \* s_fg_uart, s_fg_ssh
  ready,         \* s_ready
  running,       \* s_running
  remoteQuit,    \* s_remote_quit
  clearPending,  \* s_clear_pending
  lock,          \* s_lock
  stdout,        \* where stdout points
  session,       \* net_ssh_state() = NET_SSH_SESSION
  sinks,         \* s_sinks
  paintLock,     \* s_paint_lock
  ringFull,      \* the session's output ring has no room
  at,            \* where the console task ("uart") and the SSH task ("ssh") are
  slot, opening, \* the locals of screen_attach, per task; 1 and NoScreen outside
  draw,          \* where draw_task is
  painting, target, curRun, idx,   \* s_painting and the locals of the draw task; initial outside
  printer,       \* where shell_async_print is
  shown          \* history: what is on each terminal

ownVars   == <<owner, fg, ready, running, remoteQuit, clearPending>>
shellVars == <<at, slot, opening>>
drawVars  == <<paintLock, draw, painting, target, curRun, idx>>
vars == <<ownVars, lock, stdout, session, sinks, ringFull, shellVars, drawVars, printer, shown>>

Transport == {"uart", "ssh"}
Sink      == 1 .. 2                          \* SCREEN_MAX_SINKS
Free      == [fn |-> "none", screen |-> NoScreen]
Viewers(s) == {i \in Sink : sinks[i].fn # "none" /\ sinks[i].screen = s}

Init ==
  /\ owner = "none" /\ fg = [u \in Transport |-> NoScreen]
  /\ ready = FALSE /\ running = FALSE /\ remoteQuit = FALSE /\ clearPending = FALSE
  /\ lock = "free" /\ stdout = "uart" /\ session = FALSE
  /\ sinks = [i \in Sink |-> Free] /\ ringFull = FALSE
  /\ at = [uart |-> "poll", ssh |-> "idle"]
  /\ slot = [u \in Transport |-> 1] /\ opening = [u \in Transport |-> NoScreen]
  /\ paintLock = "free" /\ draw = "idle" /\ painting = NoScreen
  /\ target = "none" /\ curRun = 1 /\ idx = 1
  /\ printer = "idle"
  /\ shown = [u \in Transport |-> "text"]

(* What a terminal shows.  A frame belongs on a cleared terminal or over    *)
(* the frame before it, text on a terminal that shows text or was cleared.  *)
Text(u)  == shown' = [shown EXCEPT ![u] = IF @ \in {"text", "clear"} THEN "text" ELSE "mess"]
Frame(u) == shown' = [shown EXCEPT ![u] = IF @ \in {"clear", "frame"} THEN "frame" ELSE "mess"]
Wiped(u) == shown' = [shown EXCEPT ![u] = "text"]

Goto(u, place) == at' = [at EXCEPT ![u] = place]
Done(u) == IF u = "uart" THEN "settle2" ELSE "loop"     \* behind handle_byte()

-----------------------------------------------------------------------------
(* The command line, which the console task and the SSH task share:        *)
(* handle_byte(), run_line(), enter_screen(), screen_attach().             *)

AtPrompt(u) == at[u] = "key" /\ IF u = "uart" THEN owner = "uart" ELSE fg["ssh"] = NoScreen

(* Bytes that are echoed, and commands that just print.                    *)
Type(u) ==
  /\ AtPrompt(u)
  /\ Text(stdout) /\ Goto(u, "prompt")
  /\ UNCHANGED <<ownVars, lock, stdout, session, sinks, ringFull, slot, opening, drawVars, printer>>

(* `tui` and `top`: an announcement, then the screen.                       *)
Open(u, s) ==
  /\ AtPrompt(u)
  /\ opening' = [opening EXCEPT ![u] = s] /\ running' = TRUE
  /\ Text(stdout) /\ Goto(u, "attach")
  /\ UNCHANGED <<owner, fg, ready, remoteQuit, clearPending, lock, stdout, session, sinks,
                 ringFull, slot, drawVars, printer>>

(* The first free slot; without one there is no screen (see SinksSuffice). *)
Attach(u) ==
  /\ at[u] = "attach"
  /\ \E i \in Sink :
       /\ sinks[i].fn = "none" /\ \A j \in 1 .. i - 1 : sinks[j].fn # "none"
       /\ slot' = [slot EXCEPT ![u] = i]
  /\ shown' = [shown EXCEPT ![stdout] = "clear"]
  /\ Goto(u, "publish")
  /\ UNCHANGED <<ownVars, lock, stdout, session, sinks, ringFull, opening, drawVars, printer>>

Publish(u) ==
  /\ at[u] = "publish"
  /\ sinks' = [sinks EXCEPT ![slot[u]] = [fn |-> u, screen |-> opening[u]]]
  /\ Goto(u, "front")
  /\ UNCHANGED <<ownVars, lock, stdout, session, ringFull, slot, opening, drawVars, printer, shown>>

(* The serial side gives the console up, the session keeps it.             *)
Front(u) ==
  /\ at[u] = "front"
  /\ fg' = [fg EXCEPT ![u] = opening[u]] /\ running' = FALSE
  /\ owner' = IF u = "uart" THEN "none" ELSE owner
  /\ slot' = [slot EXCEPT ![u] = 1] /\ opening' = [opening EXCEPT ![u] = NoScreen]
  /\ Goto(u, "prompt")
  /\ UNCHANGED <<ready, remoteQuit, clearPending, lock, stdout, session, sinks,
                 ringFull, drawVars, printer, shown>>

(* `exit` in a session; on the serial port it only prints.                  *)
Exit ==
  /\ AtPrompt("ssh")
  /\ remoteQuit' = TRUE /\ Text(stdout) /\ Goto("ssh", "prompt")
  /\ UNCHANGED <<owner, fg, ready, running, clearPending, lock, stdout, session, sinks,
                 ringFull, slot, opening, drawVars, printer>>

Prompt(u) ==
  /\ at[u] = "prompt"
  /\ IF owner # "none" /\ ~remoteQuit /\ fg["ssh"] = NoScreen THEN Text(stdout) ELSE UNCHANGED shown
  /\ Goto(u, Done(u))
  /\ UNCHANGED <<ownVars, lock, stdout, session, sinks, ringFull, slot, opening, drawVars, printer>>

-----------------------------------------------------------------------------
(* Leaving a screen: leave_screen(), leave_screen_ssh() and the first half  *)
(* of shell_remote_close(), which has already restored stdout.             *)

Closing == stdout = "uart"      \* of the SSH task: in shell_remote_close()

AtScreen(u) == at[u] = "key" /\ fg[u] # NoScreen /\ (u = "uart" => owner # "uart")

(* A leave key.  The serial port stays in its screen while a session has   *)
(* the console.                                                            *)
Leave_AlsoUnderSSH(u) ==
  /\ AtScreen(u)
  /\ Goto(u, "detach")
  /\ UNCHANGED <<ownVars, lock, stdout, session, sinks, ringFull, slot, opening, drawVars,
                 printer, shown>>

Leave(u) ==
  /\ AtScreen(u)
  /\ Goto(u, IF u = "uart" /\ owner # "none" THEN "settle2" ELSE "detach")
  /\ UNCHANGED <<ownVars, lock, stdout, session, sinks, ringFull, slot, opening, drawVars,
                 printer, shown>>

(* Any other key goes to the screen; without a screen and without the      *)
(* console, and when no key came, nothing happens.                         *)
Ignore(u) ==
  /\ at[u] = "key" /\ ~AtPrompt(u)
  /\ Goto(u, Done(u))
  /\ UNCHANGED <<ownVars, lock, stdout, session, sinks, ringFull, slot, opening, drawVars,
                 printer, shown>>

NoKey ==
  /\ at["uart"] = "key" /\ Goto("uart", "settle2")
  /\ UNCHANGED <<ownVars, lock, stdout, session, sinks, ringFull, slot, opening, drawVars,
                 printer, shown>>

Detach(u) ==
  /\ at[u] = "detach"
  /\ sinks' = [i \in Sink |-> IF sinks[i].fn = u THEN [sinks[i] EXCEPT !.fn = "none"] ELSE sinks[i]]
  /\ Goto(u, "back")
  /\ UNCHANGED <<ownVars, lock, stdout, session, ringFull, slot, opening, drawVars, printer, shown>>

Back(u) ==
  /\ at[u] = "back"
  /\ fg' = [fg EXCEPT ![u] = NoScreen]
  /\ clearPending' = (u = "uart" \/ clearPending)
  /\ Goto(u, "hold")
  /\ UNCHANGED <<owner, ready, running, remoteQuit, lock, stdout, session, sinks, ringFull,
                 slot, opening, drawVars, printer, shown>>

AfterHold(u) == IF u = "uart" THEN "settle2" ELSE IF Closing THEN "release" ELSE "wipe"

Hold_NoWait(u) ==
  /\ at[u] = "hold"
  /\ Goto(u, AfterHold(u))
  /\ UNCHANGED <<ownVars, lock, stdout, session, sinks, ringFull, slot, opening, drawVars,
                 printer, shown>>

(* screen_hold(): wait out a frame that is being written.                  *)
Hold(u) ==
  /\ at[u] = "hold" /\ paintLock = "free"
  /\ Goto(u, AfterHold(u))
  /\ UNCHANGED <<ownVars, lock, stdout, session, sinks, ringFull, slot, opening, drawVars,
                 printer, shown>>

-----------------------------------------------------------------------------
(* console_task(): lock, settle, one key, settle, unlock.                  *)

Lock ==
  /\ at["uart"] = "poll" /\ lock = "free"
  /\ lock' = "console" /\ Goto("uart", "settle")
  /\ UNCHANGED <<ownVars, stdout, session, sinks, ringFull, slot, opening, drawVars, printer, shown>>

Unsettled == owner = "none" /\ ready /\ fg["uart"] = NoScreen

Settle(from, banner, next) ==
  /\ at["uart"] = from
  /\ IF Unsettled THEN owner' = "uart" /\ Goto("uart", banner)
                  ELSE UNCHANGED owner /\ Goto("uart", next)
  /\ UNCHANGED <<fg, ready, running, remoteQuit, clearPending, lock, stdout, session, sinks,
                 ringFull, slot, opening, drawVars, printer, shown>>

Banner(from, next) ==
  /\ at["uart"] = from
  /\ IF clearPending THEN Wiped(stdout) ELSE Text(stdout)
  /\ clearPending' = FALSE /\ Goto("uart", next)
  /\ UNCHANGED <<owner, fg, ready, running, remoteQuit, lock, stdout, session, sinks,
                 ringFull, slot, opening, drawVars, printer>>

Unlock ==
  /\ at["uart"] = "unlock"
  /\ lock' = "free" /\ Goto("uart", "poll")
  /\ UNCHANGED <<ownVars, stdout, session, sinks, ringFull, slot, opening, drawVars, printer, shown>>

(* shell_console_start(), at the end of boot                               *)
ConsoleStart ==
  /\ ~ready /\ ready' = TRUE
  /\ UNCHANGED <<owner, fg, running, remoteQuit, clearPending, lock, stdout, session, sinks,
                 ringFull, shellVars, drawVars, printer, shown>>

-----------------------------------------------------------------------------
(* run_shell() of the SSH task                                             *)

(* shell_remote_claim(): s_lock is taken and given back.  If it is not     *)
(* free for SHELL_CLAIM_MS, or another session has the console, the        *)
(* session ends here.                                                      *)
Claim ==
  /\ at["ssh"] = "idle" /\ owner # "ssh" /\ lock = "free"
  /\ owner' = "ssh" /\ remoteQuit' = FALSE
  /\ IF owner = "uart" THEN Text("uart") ELSE UNCHANGED shown
  /\ Goto("ssh", "reset")
  /\ UNCHANGED <<fg, ready, running, clearPending, lock, stdout, session, sinks, ringFull, slot,
                 opening, drawVars, printer>>

(* ring_reset(): what was left for the last client is gone.                *)
RingReset ==
  /\ at["ssh"] = "reset"
  /\ ringFull' = FALSE /\ Wiped("ssh") /\ Goto("ssh", "swap")
  /\ UNCHANGED <<ownVars, lock, stdout, session, sinks, slot, opening, drawVars, printer>>

Redirect ==
  /\ at["ssh"] = "swap"
  /\ stdout' = "ssh" /\ Goto("ssh", "open")
  /\ UNCHANGED <<ownVars, lock, session, sinks, ringFull, slot, opening, drawVars, printer, shown>>

(* shell_remote_open(), and the state becomes NET_SSH_SESSION              *)
RemoteOpen ==
  /\ at["ssh"] = "open"
  /\ Text(stdout) /\ session' = TRUE /\ Goto("ssh", "loop")
  /\ UNCHANGED <<ownVars, lock, stdout, sinks, ringFull, slot, opening, drawVars, printer>>

(* One round of the loop: a byte, or only flush_ring().                    *)
ReadByte ==
  /\ at["ssh"] = "loop" /\ ~remoteQuit /\ Goto("ssh", "key")
  /\ UNCHANGED <<ownVars, lock, stdout, session, sinks, ringFull, slot, opening, drawVars,
                 printer, shown>>

FlushRing ==
  /\ at["ssh"] = "loop" /\ ringFull /\ ringFull' = FALSE
  /\ UNCHANGED <<ownVars, lock, stdout, session, sinks, shellVars, drawVars, printer, shown>>

(* The user left, or the client is gone.                                   *)
EndLoop ==
  /\ at["ssh"] = "loop" /\ Goto("ssh", "restore")
  /\ UNCHANGED <<ownVars, lock, stdout, session, sinks, ringFull, slot, opening, drawVars,
                 printer, shown>>

(* net_ssh_write_now(): empties the ring itself; gives up after 3 s.       *)
WriteNow ==
  /\ at["ssh"] = "wipe"
  /\ Wiped("ssh") /\ ringFull' = FALSE /\ Goto("ssh", "loop")
  /\ UNCHANGED <<ownVars, lock, stdout, session, sinks, slot, opening, drawVars, printer>>

Restore ==
  /\ at["ssh"] = "restore"
  /\ stdout' = "uart"
  /\ Goto("ssh", IF fg["ssh"] # NoScreen THEN "detach" ELSE "release")
  /\ UNCHANGED <<ownVars, lock, session, sinks, ringFull, slot, opening, drawVars, printer, shown>>

(* the end of shell_remote_close()                                         *)
Release ==
  /\ at["ssh"] = "release"
  /\ owner' = "none" /\ remoteQuit' = FALSE /\ Goto("ssh", "bye")
  /\ UNCHANGED <<fg, ready, running, clearPending, lock, stdout, session, sinks, ringFull, slot,
                 opening, drawVars, printer, shown>>

Bye ==
  /\ at["ssh"] = "bye"
  /\ session' = FALSE /\ Goto("ssh", "idle")
  /\ UNCHANGED <<ownVars, lock, stdout, sinks, ringFull, slot, opening, drawVars, printer, shown>>

-----------------------------------------------------------------------------
(* draw_task(), paint(), fb_flush(), fb_out()                              *)

DrawWant(s) ==
  /\ draw = "idle" /\ Viewers(s) # {}
  /\ draw' = "want" /\ painting' = s
  /\ UNCHANGED <<ownVars, lock, stdout, session, sinks, ringFull, shellVars, paintLock, target,
                 curRun, idx, printer, shown>>

(* The viewer can have left in between.                                    *)
PaintBegin ==
  /\ draw = "want" /\ paintLock = "free"
  /\ IF Viewers(painting) = {}
       THEN draw' = "idle" /\ painting' = NoScreen /\ UNCHANGED paintLock
       ELSE draw' = "read" /\ paintLock' = "draw" /\ UNCHANGED painting
  /\ UNCHANGED <<ownVars, lock, stdout, session, sinks, ringFull, shellVars, target, curRun, idx, printer, shown>>

(* The next sink of this run, the next run of this frame, or the end.      *)
NextRun ==
  CASE idx = 1              -> idx' = 2 /\ draw' = "read" /\ UNCHANGED <<curRun, paintLock, painting>>
    [] idx = 2 /\ curRun < Runs -> /\ idx' = 1 /\ curRun' = curRun + 1 /\ draw' = "read"
                                /\ UNCHANGED <<paintLock, painting>>
    [] idx = 2 /\ curRun = Runs -> /\ draw' = "idle" /\ paintLock' = "free" /\ painting' = NoScreen
                                /\ idx' = 1 /\ curRun' = 1

ReadSink ==
  /\ draw = "read"
  /\ IF sinks[idx].fn # "none" /\ sinks[idx].screen = painting
       THEN draw' = "write" /\ target' = sinks[idx].fn /\ UNCHANGED <<curRun, idx, paintLock, painting>>
       ELSE NextRun /\ UNCHANGED target
  /\ UNCHANGED <<ownVars, lock, stdout, session, sinks, ringFull, shellVars, printer, shown>>

WriteUart ==
  /\ draw = "write" /\ target = "uart"
  /\ Frame("uart") /\ NextRun /\ target' = "none"
  /\ UNCHANGED <<ownVars, lock, stdout, session, sinks, ringFull, shellVars, printer>>

(* net_ssh_tui_write(): nothing outside a session; otherwise it waits for  *)
(* room in the ring.                                                       *)
WriteSsh ==
  /\ draw = "write" /\ target = "ssh"
  /\ session => ~ringFull
  /\ IF session THEN Frame("ssh") /\ ringFull' \in BOOLEAN ELSE UNCHANGED <<ringFull, shown>>
  /\ NextRun /\ target' = "none"
  /\ UNCHANGED <<ownVars, lock, stdout, session, sinks, shellVars, printer>>

(* ... for TUI_STALL_MS at most.                                           *)
WriteGivesUp ==
  /\ draw = "write" /\ target = "ssh" /\ session /\ ringFull
  /\ NextRun /\ target' = "none"
  /\ UNCHANGED <<ownVars, lock, stdout, session, sinks, ringFull, shellVars, printer, shown>>

-----------------------------------------------------------------------------
(* shell_async_print() from some other task                                *)

(* which terminal's screen matters: shell_screen_foreground()              *)
ScreenForeground == IF owner = "ssh" THEN fg["ssh"] # NoScreen ELSE fg["uart"] # NoScreen

(* The case that redraws the prompt.  All others print the bare line.      *)
AsyncBegin ==
  /\ printer = "idle" /\ lock = "free"
  /\ ready /\ ~running /\ owner # "none" /\ ~ScreenForeground
  /\ lock' = "printer" /\ printer' = "redraw"
  /\ UNCHANGED <<ownVars, stdout, session, sinks, ringFull, shellVars, drawVars, shown>>

(* What shown records is what the shells and the screens write, not this.  *)
AsyncPrint ==
  /\ printer = "redraw"
  /\ printer' = "idle" /\ lock' = "free"
  /\ UNCHANGED <<ownVars, stdout, session, sinks, ringFull, shellVars, drawVars, shown>>

-----------------------------------------------------------------------------
CommandLine(u) == \/ Type(u) \/ (\E s \in Screens : Open(u, s)) \/ Attach(u)
                  \/ Publish(u) \/ Front(u) \/ Prompt(u)
LeaveScreen(u) == Leave(u) \/ Ignore(u) \/ Detach(u) \/ Back(u) \/ Hold(u)

ConsoleTask == \/ Lock \/ Settle("settle", "banner", "key") \/ Banner("banner", "key")
               \/ NoKey \/ CommandLine("uart") \/ LeaveScreen("uart")
               \/ Settle("settle2", "banner2", "unlock") \/ Banner("banner2", "unlock") \/ Unlock

SshTask == \/ Claim \/ RingReset \/ Redirect \/ RemoteOpen \/ ReadByte \/ FlushRing \/ EndLoop
           \/ CommandLine("ssh") \/ Exit \/ LeaveScreen("ssh") \/ WriteNow \/ Restore
           \/ Release \/ Bye

DrawTask == \/ (\E s \in Screens : DrawWant(s)) \/ PaintBegin \/ ReadSink
            \/ WriteUart \/ WriteSsh \/ WriteGivesUp

Next == ConsoleTask \/ SshTask \/ DrawTask \/ ConsoleStart \/ AsyncBegin \/ AsyncPrint
ConsoleSpec == Init /\ [][Next]_vars

-----------------------------------------------------------------------------
(* Properties                                                              *)

Place == {"poll", "settle", "banner", "key", "attach", "publish", "front", "prompt", "detach",
          "back", "hold", "settle2", "banner2", "unlock", "idle", "reset", "swap", "open",
          "loop", "wipe", "restore", "release", "bye"}

Printing == {"banner", "banner2", "attach", "prompt"}

(* What a terminal shows is its own and whole.  The paint lock interlocks   *)
(* the frame and the prompt (screen.c:60-65): no run of a frame is written  *)
(* over a prompt, no prompt over a frame that was not cleared, and none of  *)
(* a session's frames shows up in the next session.  By the call-order      *)
(* contract of shell.h:50-73, what the serial command line prints never     *)
(* goes out on the session, and what the session's prints never to the      *)
(* serial port.                                                             *)
TerminalIntact ==
  /\ \A u \in Transport : shown[u] # "mess"
  /\ at["uart"] \in Printing \/ (at["uart"] = "key" /\ owner = "uart") => stdout = "uart"
  /\ at["ssh"] \in Printing \cup {"open", "key"} => stdout = "ssh"

(* Between two keys, the screen in front on the serial port is the one     *)
(* that is painted there, and the port is never left on a dead screen      *)
(* while a session has the console (shell.c:757-762).                      *)
FrontIsPainted ==
  at["uart"] = "poll" =>
    /\ (fg["uart"] # NoScreen) = (\E i \in Sink : sinks[i].fn = "uart")
    /\ \A i \in Sink : sinks[i].fn = "uart" => sinks[i].screen = fg["uart"]
    /\ clearPending => owner = "uart"
=============================================================================
