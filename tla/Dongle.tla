------------------------------- MODULE Dongle -------------------------------
(***************************************************************************)
(* The dongle from the port to a tuned receiver: Usb sets one up and lets  *)
(* go of it, Tuner is what the set-up and the `sdr` command make of its    *)
(* registers, CtrlTransfer the transfer that each register takes.          *)
(*                                                                         *)
(* The three look at the same program at different grains: a step of Usb   *)
(* is an operation of Tuner, each transfer of which is one of CtrlTransfer *)
(* that succeeds or fails.  A behaviour is about one of them.              *)
(***************************************************************************)
EXTENDS CtrlTransfer, Tuner, Usb

VARIABLE grain         \* what this behaviour is about

grainVars == <<vars, tunerVars, usbVars>>

DongleInit == /\ grain \in {"transfer", "tuner", "usb"}
              /\ Init /\ TunerInit /\ UsbInit

TransferStep == grain = "transfer" /\ Next /\ UNCHANGED <<grain, tunerVars, usbVars>>
TunerStep    == grain = "tuner" /\ TunerNext /\ UNCHANGED <<grain, vars, usbVars>>
UsbStep      == grain = "usb" /\ UsbNext /\ UNCHANGED <<grain, vars, tunerVars>>

DongleNext == TransferStep \/ TunerStep \/ UsbStep

\* Once in a call a task gets on with it, if need be by running into its
\* timeout.  The device owes no answer.
TransferFairness ==
  \A c \in Callers :
    WF_vars(/\ grain = "transfer"
            /\ \/ TakeMux(c) \/ MuxBusy(c) \/ Setup(c) \/ Submit(c)
               \/ Timeout(c) \/ Wake(c) \/ Return(c) \/ Fail(c))

\* The tasks run; nobody need touch the dongle or the button.
UsbFairness == /\ WF_usbVars(grain = "usb" /\ ClassTask)
               /\ WF_usbVars(grain = "usb" /\ MainTask)
               /\ \A a \in Addresses : WF_usbVars(grain = "usb" /\ SetupTask(a))

DongleSpec == /\ DongleInit /\ [][DongleNext]_<<grain, grainVars>>
              /\ TransferFairness /\ UsbFairness

-----------------------------------------------------------------------------
(* The instance that is checked *)

SomeSticks == {[chip |-> "R820T", ref |-> 28800], [chip |-> "R828D", ref |-> 16000],
               [chip |-> "R828D", ref |-> 28800], [chip |-> "none", ref |-> 28800]}

\* No operation takes more transfers.
EveryTransfer == 0 .. 95
=============================================================================
