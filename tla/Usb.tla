-------------------------------- MODULE Usb --------------------------------
(***************************************************************************)
(* From a plug in the port to a running receiver, and the quit button: the *)
(* class driver's task and callback, the setup tasks and the tasks they    *)
(* start in src/main/class_driver.c, and app_main() and the host library's *)
(* task in src/main/usb_host_lib_main.c.  The USB host library is          *)
(* external: it gives each dongle an address, tells its client of new      *)
(* ones, and of the end of those that the client has opened.               *)
(***************************************************************************)
EXTENDS Naturals, Sequences, FiniteSets

CONSTANT MaxPlugs      \* bound: times a dongle is plugged in

ASSUME UsbAssumption == MaxPlugs \in Nat \ {0}

VARIABLES
  main,                \* app_main: loop, deregister, waits, done
  host,                \* usb_host_lib_task: serves, suspended, deleted
  class,               \* class_driver_task: check, events, deregister, suspended, deleted
  mux_lock, flags, device,
  setup,               \* rtlsdr_setup_task of each address: none, open, tune, recover, receive, ended
  rtldev, recover, receivers,
  port, plugs, events, opened, unblocked

drivers == <<main, host, class, mux_lock, flags, device, setup, rtldev, recover, receivers>>
bus     == <<port, plugs, events, opened, unblocked>>
usbVars == <<drivers, bus>>

Addresses == 1 .. MaxPlugs
Unused    == [dev_addr |-> 0, dev_hdl |-> 0, actions |-> {}]

Booted ==
  /\ main = "loop" /\ host = "serves" /\ class = "check" /\ mux_lock = "free"
  /\ flags = [shutdown |-> FALSE, unhandled_devices |-> FALSE]
  /\ device = [a \in Addresses |-> Unused]
  /\ setup = [a \in Addresses |-> "none"]
  /\ rtldev = 0 /\ recover = 0 /\ receivers = {}
  /\ opened = {} /\ unblocked = FALSE

UsbInit == Booted /\ port = 0 /\ plugs = 0 /\ events = <<>>

\* A failed ESP_ERROR_CHECK restarts the board; the dongle is found again.
Restart == /\ main' = "loop" /\ host' = "serves" /\ class' = "check" /\ mux_lock' = "free"
           /\ flags' = [shutdown |-> FALSE, unhandled_devices |-> FALSE]
           /\ device' = [a \in Addresses |-> Unused] /\ setup' = [a \in Addresses |-> "none"]
           /\ rtldev' = 0 /\ recover' = 0 /\ receivers' = {} /\ opened' = {} /\ unblocked' = FALSE
           /\ events' = IF port = 0 THEN <<>> ELSE <<[new |-> TRUE, dev |-> port]>>
           /\ UNCHANGED <<port, plugs>>

-----------------------------------------------------------------------------
(* The port *)

PlugIn ==
  /\ port = 0 /\ plugs < MaxPlugs
  /\ plugs' = plugs + 1 /\ port' = plugs'
  /\ events' = Append(events, [new |-> TRUE, dev |-> port'])
  /\ UNCHANGED <<drivers, opened, unblocked>>

PullOut ==
  /\ port # 0 /\ port' = 0
  /\ events' = IF port \in opened THEN Append(events, [new |-> FALSE, dev |-> port]) ELSE events
  /\ UNCHANGED <<drivers, plugs, opened, unblocked>>

-----------------------------------------------------------------------------
(* class_driver_task() *)

\* The handlers of what a callback has asked for (of which only the close is ever
\* asked for), and then the button.
Check ==
  /\ class = "check" /\ (flags.unhandled_devices => mux_lock = "free")
  /\ LET closing == {a \in Addresses : flags.unhandled_devices /\ device[a].actions # {}}
     IN  /\ device' = [a \in Addresses |-> IF a \in closing THEN Unused ELSE device[a]]
         /\ opened' = opened \ {device[a].dev_hdl : a \in closing}
  /\ flags' = [flags EXCEPT !.unhandled_devices = FALSE]
  /\ class' = CASE flags.unhandled_devices -> "check"
               [] flags.shutdown            -> "deregister"
               [] OTHER                     -> "events"
  /\ UNCHANGED <<main, host, mux_lock, setup, rtldev, recover, receivers, port, plugs, events, unblocked>>

\* usb_host_client_handle_events() runs the callback for what there is.
Events ==
  /\ class = "events" /\ (unblocked \/ events # <<>>)
  /\ class' = (IF events = <<>> THEN "check" ELSE "callback")
  /\ unblocked' = FALSE
  /\ UNCHANGED <<main, host, mux_lock, flags, device, setup, rtldev, recover, receivers, port, plugs, events, opened>>

TakeLock ==
  /\ class = "callback" /\ mux_lock = "free"
  /\ mux_lock' = "class" /\ class' = "locked"
  /\ UNCHANGED <<main, host, flags, device, setup, rtldev, recover, receivers, bus>>

\* client_event_cb().  A dongle that is gone is looked for by a handle that no
\* row of the table ever gets.
ClientEvent_KeepsLock ==
  /\ class = "locked" /\ class' = "check" /\ UNCHANGED mux_lock
  /\ LET e == Head(events)
     IN  IF e.new
           THEN /\ device' = [device EXCEPT ![e.dev].dev_addr = e.dev]
                /\ setup' = [setup EXCEPT ![e.dev] = "open"]
                /\ UNCHANGED flags
           ELSE UNCHANGED <<device, setup, flags>>
  /\ events' = Tail(events)
  /\ UNCHANGED <<main, host, rtldev, recover, receivers, port, plugs, opened, unblocked>>

ClientEvent ==
  /\ class = "locked" /\ class' = "check" /\ mux_lock' = "free"
  /\ LET e    == Head(events)
         gone == {a \in Addresses : ~ e.new /\ device[a].dev_hdl = e.dev}
     IN  IF e.new
           THEN /\ device' = [device EXCEPT ![e.dev].dev_addr = e.dev]
                /\ setup' = [setup EXCEPT ![e.dev] = "open"]
                /\ UNCHANGED flags
           ELSE /\ device' = [a \in Addresses |-> IF a \in gone THEN [device[a] EXCEPT !.actions = {"close"}] ELSE device[a]]
                /\ flags' = [flags EXCEPT !.unhandled_devices = @ \/ gone # {}]
                /\ UNCHANGED setup
  /\ events' = Tail(events)
  /\ UNCHANGED <<main, host, rtldev, recover, receivers, port, plugs, opened, unblocked>>

\* A client that still has a device open cannot be deregistered.
Deregister ==
  /\ class = "deregister"
  /\ IF opened # {} THEN Restart
     ELSE /\ class' = "suspended"
          /\ UNCHANGED <<main, host, mux_lock, flags, device, setup, rtldev, recover, receivers, bus>>

ClassTask == Check \/ Events \/ TakeLock \/ ClientEvent \/ Deregister

-----------------------------------------------------------------------------
(* rtlsdr_setup_task() *)

OpenDevice(a) ==
  /\ setup[a] = "open"
  /\ IF a # port THEN Restart
     ELSE /\ opened' = opened \cup {a} /\ setup' = [setup EXCEPT ![a] = "tune"]
          /\ UNCHANGED <<main, host, class, mux_lock, flags, device, rtldev, recover, receivers, port, plugs, events, unblocked>>

\* rtlsdr_open() and the settings; a failed one is ignored.
Tune(a) ==
  /\ setup[a] = "tune" /\ setup' = [setup EXCEPT ![a] = "recover"] /\ rtldev' = a
  /\ UNCHANGED <<main, host, class, mux_lock, flags, device, recover, receivers, bus>>

StartRecover(a) ==
  /\ setup[a] = "recover" /\ setup' = [setup EXCEPT ![a] = "receive"]
  /\ recover' = IF recover = 0 THEN a ELSE recover
  /\ UNCHANGED <<main, host, class, mux_lock, flags, device, rtldev, receivers, bus>>

StartReceiver(a) ==
  /\ setup[a] = "receive" /\ setup' = [setup EXCEPT ![a] = "ended"]
  /\ receivers' = receivers \cup {a}
  /\ UNCHANGED <<main, host, class, mux_lock, flags, device, rtldev, recover, bus>>

SetupTask(a) == OpenDevice(a) \/ Tune(a) \/ StartRecover(a) \/ StartReceiver(a)

-----------------------------------------------------------------------------
(* app_main(), and usb_host_lib_task() when its last client has gone *)

Quit ==
  /\ main = "loop" /\ main' = "deregister"
  /\ UNCHANGED <<host, class, mux_lock, flags, device, setup, rtldev, recover, receivers, bus>>

ClientDeregister ==
  /\ main = "deregister" /\ mux_lock = "free"
  /\ device' = [a \in Addresses |-> IF device[a].dev_hdl # 0 THEN [device[a] EXCEPT !.actions = @ \cup {"close"}] ELSE device[a]]
  /\ flags' = [shutdown |-> TRUE,
               unhandled_devices |-> flags.unhandled_devices \/ \E a \in Addresses : device[a].dev_hdl # 0]
  /\ unblocked' = TRUE /\ main' = "waits"
  /\ UNCHANGED <<host, class, mux_lock, setup, rtldev, recover, receivers, port, plugs, events, opened>>

NoClients ==
  /\ host = "serves" /\ class = "suspended" /\ host' = "suspended"
  /\ UNCHANGED <<main, class, mux_lock, flags, device, setup, rtldev, recover, receivers, bus>>

\* Ten ticks later both tasks are deleted, wherever they are.
Delete ==
  /\ main = "waits" /\ main' = "done" /\ class' = "deleted" /\ host' = "deleted"
  /\ UNCHANGED <<mux_lock, flags, device, setup, rtldev, recover, receivers, bus>>

MainTask == ClientDeregister \/ Delete

UsbNext == \/ PlugIn \/ PullOut \/ ClassTask \/ (\E a \in Addresses : SetupTask(a))
           \/ Quit \/ MainTask \/ NoClients

UsbSpec == UsbInit /\ [][UsbNext]_usbVars

-----------------------------------------------------------------------------
(* Properties *)

\* A dongle that stays in the port is received in the end, however often others
\* were pulled while they were being set up; and the quit button ends the program
\* or restarts the board, whatever the class driver is in the middle of: the lock
\* that it needs comes free (class_driver.c:1426-1603, usb_host_lib_main.c:106-246).
PlugAndQuit ==
  /\ main = "deregister" ~> main # "deregister"
  /\ \A a \in Addresses : port = a /\ main = "loop" ~> a \in receivers \/ port # a \/ main # "loop"

\* "safe only because adsb_rx_task is the sole caller -- a second demodulating
\* task needs its own" (class_driver.c:1131): one receiver at a time.
SoleReceiver == Cardinality(receivers) <= 1
=============================================================================
