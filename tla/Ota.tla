-------------------------------- MODULE Ota ---------------------------------
(***************************************************************************)
(* Over-the-air update: the upload handler and the confirmation task of    *)
(* src/main/ota.c, "ota rollback" of src/main/shell.c, and the two image   *)
(* slots they work on with the boot loader that picks one.                 *)
(*                                                                         *)
(* An image is good or bad: a bad one crashes before it could confirm      *)
(* itself.  Power may fail between any two steps.  The web server is one   *)
(* task, so there is one upload at a time; the console is another.         *)
(***************************************************************************)
EXTENDS Naturals

CONSTANTS
  Chunks,        \* buffers an image takes
  IdleMax,       \* OTA_RECV_IDLE_MAX
  Uploads, Rollbacks, Cuts   \* bounds: uploads begun, rollbacks asked for, power cuts

ASSUME OtaAssumption == /\ {Chunks, IdleMax} \subseteq Nat \ {0}
                        /\ {Uploads, Rollbacks, Cuts} \subseteq Nat

VARIABLES
  image,         \* of each slot: none, part, good, bad
  entry,         \* of each slot in otadata: undefined, new, pending, valid, invalid, aborted
  latest,        \* the slot whose entry was written last
  run,           \* the slot that runs
  confirm,       \* confirm_task: sleep, mark, done
  http,          \* ota_post: idle, begin, recv, end, select, restart
  remaining, idle, sending,   \* its locals and the image being sent
  shell,         \* cmd_ota: idle, mark, select, restart
  left           \* what is left of the bounds

flash == <<image, entry, latest>>
post  == <<http, remaining, idle, sending>>
otaVars  == <<flash, post, run, confirm, shell, left>>

AppSlot     == {0, 1}
Other(s) == 1 - s
Bootable(s) == image[s] \in {"good", "bad"}

OtaInit ==
  /\ image = [s \in AppSlot |-> IF s = 0 THEN "good" ELSE "none"]       \* idf.py flash
  /\ entry = [s \in AppSlot |-> "undefined"] /\ latest = 0 /\ run = 0
  /\ confirm = "sleep" /\ shell = "idle"
  /\ http = "idle" /\ remaining = 0 /\ idle = 0 /\ sending = "good"
  /\ left = [uploads |-> Uploads, rollbacks |-> Rollbacks, cuts |-> Cuts]

Spend(what) == left[what] > 0 /\ left' = [left EXCEPT ![what] = @ - 1]

-----------------------------------------------------------------------------
(* The boot loader, with rollback enabled                                  *)

(* An image that was started and never confirmed is not started again.     *)
Aborted(e) == [s \in AppSlot |-> IF e[s] = "pending" THEN "aborted" ELSE e[s]]

(* The latest entry that may be booted; slot 0 if there is none.           *)
Selected(e) ==
  LET Ok(s) == e[s] \in {"new", "valid"}
  IN  IF Ok(latest) THEN latest ELSE IF Ok(Other(latest)) THEN Other(latest) ELSE 0

InForce == IF entry[latest] \in {"new", "pending", "valid"} THEN latest ELSE Other(latest)

(* What a boot with otadata e starts.                                      *)
Pick(e) == LET s == Selected(Aborted(e)) IN IF Bootable(s) THEN s ELSE Other(s)
Started == Pick(entry)

StartFrom(e) ==
  LET a == Aborted(e)
      s == Selected(a)
  IN  /\ entry' = [a EXCEPT ![s] = IF @ = "new" THEN "pending" ELSE @]
      /\ run' = Pick(e)
      /\ confirm' = "sleep" /\ shell' = "idle"
      /\ http' = "idle" /\ remaining' = 0 /\ idle' = 0 /\ UNCHANGED sending
      /\ UNCHANGED <<image, latest>>

Boot == StartFrom(entry)

Crash    == image[run] = "bad" /\ Boot /\ UNCHANGED left
PowerCut == Spend("cuts") /\ Boot

(* esp_ota_set_boot_partition(): refused unless the image is whole.        *)
SetBoot(s) == /\ Bootable(s)
              /\ entry' = [entry EXCEPT ![s] = "new"] /\ latest' = s /\ UNCHANGED image

-----------------------------------------------------------------------------
(* confirm_task: 20 s after boot                                           *)

(* The image is confirmed as soon as it starts.                            *)
ConfirmLook_AtOnce ==
  /\ confirm = "sleep"
  /\ confirm' = IF entry[run] = "pending" THEN "mark" ELSE "done"
  /\ UNCHANGED <<flash, post, run, shell, left>>

ConfirmLook ==
  /\ confirm = "sleep" /\ image[run] # "bad"
  /\ confirm' = IF entry[run] = "pending" THEN "mark" ELSE "done"
  /\ UNCHANGED <<flash, post, run, shell, left>>

(* esp_ota_mark_app_valid_cancel_rollback() marks the entry in force.      *)
ConfirmMark ==
  /\ confirm = "mark" /\ confirm' = "done"
  /\ entry' = [entry EXCEPT ![InForce] = "valid"]
  /\ UNCHANGED <<image, latest, post, run, shell, left>>

-----------------------------------------------------------------------------
(* ota_post()                                                              *)

Begin ==
  /\ http = "idle" /\ Spend("uploads") /\ http' = "begin"
  /\ \E i \in {"good", "bad", "part"} : sending' = i
  /\ UNCHANGED <<flash, remaining, idle, run, confirm, shell>>

(* esp_ota_begin() refuses while the running image is unconfirmed; else it *)
(* erases the slot.                                                        *)
Refuse ==
  /\ http = "begin" /\ entry[run] = "pending" /\ http' = "idle"
  /\ UNCHANGED <<flash, remaining, idle, sending, run, confirm, shell, left>>

(* The slot is erased although the image that runs is not confirmed.       *)
Erase_Always ==
  /\ http = "begin" /\ http' = "recv"
  /\ image' = [image EXCEPT ![Other(run)] = "none"] /\ remaining' = Chunks /\ idle' = 0
  /\ UNCHANGED <<entry, latest, sending, run, confirm, shell, left>>

(* The slot is made the boot slot before the image arrives.                *)
Erase_Selects ==
  /\ http = "begin" /\ entry[run] # "pending" /\ http' = "recv"
  /\ image' = [image EXCEPT ![Other(run)] = "none"] /\ remaining' = Chunks /\ idle' = 0
  /\ entry' = [entry EXCEPT ![Other(run)] = "new"] /\ latest' = Other(run)
  /\ UNCHANGED <<sending, run, confirm, shell, left>>

Erase ==
  /\ http = "begin" /\ entry[run] # "pending" /\ http' = "recv"
  /\ image' = [image EXCEPT ![Other(run)] = "none"] /\ remaining' = Chunks /\ idle' = 0
  /\ UNCHANGED <<entry, latest, sending, run, confirm, shell, left>>

Receive ==
  /\ http = "recv" /\ remaining > 0
  /\ image' = [image EXCEPT ![Other(run)] = "part"]
  /\ remaining' = remaining - 1 /\ idle' = 0
  /\ UNCHANGED <<entry, latest, http, sending, run, confirm, shell, left>>

Abort == http' = "idle" /\ UNCHANGED <<flash, remaining, sending, run, confirm, shell, left>>

Silence ==
  /\ http = "recv" /\ remaining > 0 /\ idle' = idle + 1
  /\ IF idle' >= IdleMax THEN Abort
     ELSE UNCHANGED <<flash, http, remaining, sending, run, confirm, shell, left>>

(* The client closes, or a write to flash fails.                           *)
Break == http = "recv" /\ remaining > 0 /\ Abort /\ UNCHANGED idle

Received ==
  /\ http = "recv" /\ remaining = 0 /\ http' = "end"
  /\ UNCHANGED <<flash, remaining, idle, sending, run, confirm, shell, left>>

(* esp_ota_end() validates the image.  An upload takes seconds: a rollback *)
(* that has looked at the slot's state has long acted on it.               *)
EndWhole ==
  /\ http = "end" /\ shell # "mark" /\ sending # "part" /\ http' = "select"
  /\ image' = [image EXCEPT ![Other(run)] = sending]
  /\ UNCHANGED <<entry, latest, remaining, idle, sending, run, confirm, shell, left>>

EndInvalid == http = "end" /\ sending = "part" /\ Abort /\ UNCHANGED idle

Select ==
  /\ http = "select"
  /\ \/ SetBoot(Other(run)) /\ http' = "restart"
     \/ http' = "idle" /\ UNCHANGED flash
  /\ UNCHANGED <<remaining, idle, sending, run, confirm, shell, left>>

Restart == "restart" \in {http, shell} /\ Boot /\ UNCHANGED left

Handler == Refuse \/ Erase \/ Received \/ EndWhole \/ EndInvalid \/ Select
Post    == Handler \/ Receive \/ Silence \/ Break

-----------------------------------------------------------------------------
(* "ota rollback"                                                          *)

Rollback ==
  /\ shell = "idle" /\ Spend("rollbacks")
  /\ shell' = IF entry[run] = "pending" THEN "mark" ELSE "select"
  /\ UNCHANGED <<flash, post, run, confirm>>

(* esp_ota_mark_app_invalid_rollback_and_reboot() restarts the board at    *)
(* once, or returns when there is nothing to go back to.                   *)
MarkInvalid ==
  /\ shell = "mark" /\ UNCHANGED left
  /\ IF entry[Other(run)] # "undefined" /\ Bootable(Other(run))
     THEN StartFrom([entry EXCEPT ![run] = "invalid"])
     ELSE shell' = "idle" /\ UNCHANGED <<flash, post, run, confirm>>

BootOther ==
  /\ shell = "select"
  /\ IF Bootable(Other(run)) THEN SetBoot(Other(run)) /\ shell' = "restart"
                             ELSE shell' = "idle" /\ UNCHANGED flash
  /\ UNCHANGED <<post, run, confirm, left>>

-----------------------------------------------------------------------------
OtaNext == Crash \/ PowerCut \/ ConfirmLook \/ ConfirmMark \/ Begin \/ Post \/ Restart
        \/ Rollback \/ MarkInvalid \/ BootOther

OtaSpec == OtaInit /\ [][OtaNext]_otaVars

-----------------------------------------------------------------------------
(* Correctness                                                             *)

(* Every variable keeps its type (ota.c:49-180); proved in Access_proofs.  *)
OtaTypeOK ==
  /\ image \in [AppSlot -> {"none", "part", "good", "bad"}]
  /\ entry \in [AppSlot -> {"undefined", "new", "pending", "valid", "invalid", "aborted"}]
  /\ latest \in AppSlot /\ run \in AppSlot /\ confirm \in {"sleep", "mark", "done"}
  /\ remaining \in 0 .. Chunks /\ idle \in 0 .. IdleMax

(* A bad image that was pushed gives way to a good one on the next boot,   *)
(* whatever was uploaded or rolled back meanwhile and wherever power       *)
(* failed: the way back is never overwritten.                              *)
BadGivesWay == image[run] = "bad" => image[Started] = "good"

(* An upload that breaks off, is cut short or does not validate leaves the *)
(* running image the one that a restart starts.                            *)
BrokenUploadChangesNothing ==
  http \in {"begin", "recv", "end", "select"} /\ shell # "restart" /\ entry[run] \in {"undefined", "valid"}
    => Started = run

(* The board ends up on an image that works and confirms itself.           *)
Recovers == (image[run] = "bad") ~> (image[run] = "good")

=============================================================================
