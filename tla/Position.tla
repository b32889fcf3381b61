------------------------------ MODULE Position ------------------------------
(***************************************************************************)
(* The antenna position of src/main/class_driver.c.  A command stores it   *)
(* in NVS and in s_pos_cfg and hands it to the receiver task through a     *)
(* flag; that task copies it to s_pos, from which every range in the       *)
(* aircraft table is computed.  Before there is a receiver task the        *)
(* command does that itself.                                               *)
(*                                                                         *)
(* A position is two words, latitude and longitude, written and copied one *)
(* after the other; a pair whose words differ is torn.  The flag is stored *)
(* with release and loaded with acquire, so what was written before it is  *)
(* there.  One command runs at a time; two that overlap, one on the        *)
(* console and one on the web page, are not modelled.                      *)
(***************************************************************************)
EXTENDS Naturals

CONSTANTS Places,      \* positions; a cleared one is one of them
          Home         \* the one at boot

ASSUME PlaceAssumption == Home \in Places

VARIABLES
  nvs, cfg, pos,       \* the keys of "rxcfg", s_pos_cfg, s_pos
  req, running,        \* s_pos_req, s_rx_running
  ranged,              \* the position the ranges in the table are computed from
  cmd, new,            \* the command: where it is, its argument
  rx,                  \* adsb_rx_task: off, top, clear, lat, lon, range, demod
  failed               \* history: the last command returned an error

vars == <<nvs, cfg, pos, req, running, ranged, cmd, new, rx, failed>>

Pair     == [lat : Places, lon : Places]
Whole(p) == [lat |-> p, lon |-> p]

Init ==
  /\ nvs = Whole(Home) /\ cfg = Whole(Home) /\ pos = Whole(Home) /\ ranged = Whole(Home)
  /\ req = FALSE /\ running = FALSE
  /\ cmd = "idle" /\ new = Home /\ rx = "off" /\ failed = FALSE

-----------------------------------------------------------------------------
(* adsb_pos_set(), adsb_pos_clear()                                        *)

Command ==
  /\ cmd = "idle" /\ cmd' = "nvs" /\ new' \in Places
  /\ UNCHANGED <<nvs, cfg, pos, req, running, ranged, rx, failed>>

StoreLat ==
  /\ cmd = "nvs" /\ cmd' = "nvs2" /\ nvs' = [nvs EXCEPT !.lat = new]
  /\ UNCHANGED <<cfg, pos, req, running, ranged, new, rx, failed>>

StoreLon ==
  /\ cmd = "nvs2" /\ cmd' = "cfg" /\ nvs' = [nvs EXCEPT !.lon = new]
  /\ UNCHANGED <<cfg, pos, req, running, ranged, new, rx, failed>>

(* An error of NVS, in either call or in the commit, ends the command.     *)
StoreFails ==
  /\ cmd \in {"nvs", "nvs2", "cfg"} /\ cmd' = "idle" /\ failed' = TRUE
  /\ UNCHANGED <<nvs, cfg, pos, req, running, ranged, new, rx>>

CfgLat ==
  /\ cmd = "cfg" /\ cmd' = "cfg2" /\ cfg' = [cfg EXCEPT !.lat = new] /\ failed' = FALSE
  /\ UNCHANGED <<nvs, pos, req, running, ranged, new, rx>>

CfgLon ==
  /\ cmd = "cfg2" /\ cmd' = "request" /\ cfg' = [cfg EXCEPT !.lon = new]
  /\ UNCHANGED <<nvs, pos, req, running, ranged, new, rx, failed>>

(* The request is handed over although nobody is there to take it.         *)
Request_Always ==
  /\ cmd = "request" /\ cmd' = "flag"
  /\ UNCHANGED <<nvs, cfg, pos, req, running, ranged, new, rx, failed>>

(* pos_request_apply(): the receiver may start right after the look.       *)
Request ==
  /\ cmd = "request" /\ cmd' = IF running THEN "flag" ELSE "lat"
  /\ UNCHANGED <<nvs, cfg, pos, req, running, ranged, new, rx, failed>>

Flag ==
  /\ cmd = "flag" /\ cmd' = "idle" /\ req' = TRUE
  /\ UNCHANGED <<nvs, cfg, pos, running, ranged, new, rx, failed>>

(* pos_apply(), run by the command itself.                                 *)
ApplyLat ==
  /\ cmd = "lat" /\ cmd' = "lon" /\ pos' = [pos EXCEPT !.lat = cfg.lat]
  /\ UNCHANGED <<nvs, cfg, req, running, ranged, new, rx, failed>>

ApplyLon ==
  /\ cmd = "lon" /\ cmd' = "range" /\ pos' = [pos EXCEPT !.lon = cfg.lon]
  /\ UNCHANGED <<nvs, cfg, req, running, ranged, new, rx, failed>>

ApplyRange ==
  /\ cmd = "range" /\ cmd' = "idle" /\ ranged' = pos
  /\ UNCHANGED <<nvs, cfg, pos, req, running, new, rx, failed>>

Set == StoreLat \/ StoreLon \/ StoreFails \/ CfgLat \/ CfgLon \/ Request \/ Flag
       \/ ApplyLat \/ ApplyLon \/ ApplyRange

-----------------------------------------------------------------------------
(* adsb_rx_task()                                                          *)

Start ==
  /\ rx = "off" /\ rx' = "top" /\ running' = TRUE
  /\ UNCHANGED <<nvs, cfg, pos, req, ranged, cmd, new, failed>>

Top ==
  /\ rx = "top" /\ rx' = IF req THEN "clear" ELSE "demod"
  /\ UNCHANGED <<nvs, cfg, pos, req, running, ranged, cmd, new, failed>>

Clear ==
  /\ rx = "clear" /\ rx' = "lat" /\ req' = FALSE
  /\ UNCHANGED <<nvs, cfg, pos, running, ranged, cmd, new, failed>>

RxLat ==
  /\ rx = "lat" /\ rx' = "lon" /\ pos' = [pos EXCEPT !.lat = cfg.lat]
  /\ UNCHANGED <<nvs, cfg, req, running, ranged, cmd, new, failed>>

RxLon ==
  /\ rx = "lon" /\ rx' = "range" /\ pos' = [pos EXCEPT !.lon = cfg.lon]
  /\ UNCHANGED <<nvs, cfg, req, running, ranged, cmd, new, failed>>

(* The flag is cleared after the position was copied.                      *)
RxRange_Clears ==
  /\ rx = "range" /\ rx' = "demod" /\ ranged' = pos /\ req' = FALSE
  /\ UNCHANGED <<nvs, cfg, pos, running, cmd, new, failed>>

RxRange ==
  /\ rx = "range" /\ rx' = "demod" /\ ranged' = pos
  /\ UNCHANGED <<nvs, cfg, pos, req, running, cmd, new, failed>>

(* Messages with a position range their aircraft; others do not.           *)
Demod ==
  /\ rx = "demod" /\ rx' = "top" /\ (ranged' = pos \/ UNCHANGED ranged)
  /\ UNCHANGED <<nvs, cfg, pos, req, running, cmd, new, failed>>

Receiver == Start \/ Top \/ Clear \/ RxLat \/ RxLon \/ RxRange \/ Demod

Next == Command \/ Set \/ Receiver

Spec == Init /\ [][Next]_vars

-----------------------------------------------------------------------------
(* Correctness                                                             *)

(* Each variable holds what its C counterpart can hold (adsb_pos_set,      *)
(* adsb_rx_task).  Proved in Receiver_proofs.                              *)
TypeOK ==
  /\ nvs \in Pair /\ cfg \in Pair /\ pos \in Pair /\ ranged \in Pair /\ new \in Places
  /\ {req, running, failed} \subseteq BOOLEAN
  /\ cmd \in {"idle", "nvs", "nvs2", "cfg", "cfg2", "request", "flag", "lat", "lon", "range"}
  /\ rx \in {"off", "top", "clear", "lat", "lon", "range", "demod"}

(* Somebody still has to act on what is in s_pos_cfg.                      *)
Handing == req \/ cmd \in {"cfg2", "request", "flag", "lat", "lon", "range"} \/ rx \in {"clear", "lat", "lon", "range"}

(* No setting is lost between the two tasks, not even one that is made     *)
(* while the receiver takes over the one before, or while it starts: with  *)
(* nothing left to do, every range is computed from the position last set. *)
NoSettingLost == ~Handing => pos = cfg /\ ranged = cfg

(* The position shown and the one of the next boot are the same, unless    *)
(* the command reported an error.                                          *)
StoredIsShown == cmd = "idle" /\ ~failed => nvs = cfg

(* When nobody types any more, every range is computed from the position   *)
(* last set, with or without a receiver and however it started.            *)
SettingApplied == <>[](cmd = "idle") => <>[](pos = cfg /\ ranged = cfg)
=============================================================================
