------------------------------ MODULE Tracker ------------------------------
(***************************************************************************)
(* The aircraft table of src/main/class_driver.c: rows are found, made and *)
(* filled by the receiver task's messages and by the 't' key's synthetic   *)
(* contacts, and dropped by a tick that runs in the receiver task, or in   *)
(* the task that paints while there is no receiver.  There is no lock.     *)
(*                                                                         *)
(* A row says whose it is (icao) and whose data it shows (shows).  Ages    *)
(* are in ticks; a row that was just cleared has last_seen_us = 0 and is   *)
(* as old as the board, taken to be up for longer than TTL.                *)
(***************************************************************************)
EXTENDS Naturals, FiniteSets

CONSTANTS
  Aircraft, Fakes,   \* addresses; those of synthetic contacts
  Slots, TTL,        \* MAX_TRACKED, CONTACT_TTL_US
  Keys,              \* tasks in which the key is pressed
  rx, draw, none     \* the receiver, the painter, nobody

ASSUME TrackerAssumption ==
  /\ Fakes \subseteq Aircraft /\ none \notin Aircraft /\ Slots \in Nat \ {0} /\ TTL \in Nat \ {0}
  /\ rx # draw /\ Keys \cap {rx, draw} = {}

VARIABLES
  row,               \* s_aircraft
  running,           \* s_rx_running
  inject,            \* s_inject_req
  due,               \* a second has passed since s_tick_us
  at, who, slot,     \* each task: where it is, the address and the row (or 1) it works on
  heard,             \* history: ticks since an aircraft was heard, or injected
  attached           \* history: a receiver runs from the start

vars == <<row, running, inject, due, at, who, slot, heard, attached>>

Rows    == 1 .. Slots
Writers == Keys \cup {rx}
Tickers == {rx, draw}
Tasks   == Keys \cup {rx, draw}
Old     == TTL + 1
Empty   == [icao |-> none, shows |-> none, active |-> FALSE, age |-> Old]

Init ==
  /\ row = [s \in Rows |-> Empty]
  /\ attached \in BOOLEAN /\ running = attached /\ inject = FALSE /\ due = FALSE
  /\ at = [t \in Tasks |-> IF t = rx /\ ~attached THEN "off" ELSE "idle"]
  /\ who = [t \in Tasks |-> none] /\ slot = [t \in Tasks |-> 1]
  /\ heard = [a \in Aircraft |-> Old]

-----------------------------------------------------------------------------
(* find_or_create() and what its callers then write                        *)

Goes(t, place) == at' = [at EXCEPT ![t] = place]

Begin(t, a) ==
  /\ Goes(t, "find") /\ who' = [who EXCEPT ![t] = a] /\ heard' = [heard EXCEPT ![a] = 0]

Rests(t) == Goes(t, "idle") /\ who' = [who EXCEPT ![t] = none]

Free == {s \in Rows : ~row[s].active}

(* The search stops at the first free row.                                 *)
Mine_BeforeFree(t) ==
  {s \in Rows : row[s].active /\ row[s].icao = who[t] /\ \A o \in Free : s < o}

Mine(t) == {s \in Rows : row[s].active /\ row[s].icao = who[t]}
First(S) == {s \in S : \A o \in S : s <= o}

Find(t) ==
  /\ at[t] = "find"
  /\ \/ /\ Mine(t) # {}
        /\ \E s \in First(Mine(t)) : slot' = [slot EXCEPT ![t] = s]
        /\ Goes(t, "stamp") /\ UNCHANGED who
     \/ /\ Mine(t) = {} /\ Free # {}
        /\ \E s \in First(Free) : slot' = [slot EXCEPT ![t] = s]
        /\ Goes(t, "create") /\ UNCHANGED who
     \/ /\ Mine(t) = {} /\ Free = {}
        /\ Rests(t) /\ UNCHANGED slot
  /\ UNCHANGED <<row, running, inject, due, heard, attached>>

Create(t) ==
  /\ at[t] = "create" /\ Goes(t, "stamp")
  /\ row' = [row EXCEPT ![slot[t]] = [icao |-> who[t], shows |-> none, active |-> TRUE, age |-> Old]]
  /\ UNCHANGED <<running, inject, due, who, slot, heard, attached>>

(* Only a new row's last_seen_us is set.                                   *)
Stamp_Late(t) ==
  /\ at[t] = "stamp" /\ Goes(t, "fill")
  /\ UNCHANGED <<row, running, inject, due, who, slot, heard, attached>>

Stamp(t) ==
  /\ at[t] = "stamp" /\ Goes(t, "fill")
  /\ row' = [row EXCEPT ![slot[t]].age = 0]
  /\ UNCHANGED <<running, inject, due, who, slot, heard, attached>>

Fill(t) ==
  /\ at[t] = "fill" /\ Rests(t) /\ slot' = [slot EXCEPT ![t] = 1]
  /\ row' = [row EXCEPT ![slot[t]].shows = who[t]]
  /\ UNCHANGED <<running, inject, due, heard, attached>>

-----------------------------------------------------------------------------
(* adsb_inject_test()                                                      *)

Press(k) ==
  /\ k \in Keys /\ at[k] = "idle"
  /\ \/ /\ running /\ inject' = TRUE /\ UNCHANGED <<at, who, heard>>
     \/ /\ ~running /\ \E a \in Fakes : Begin(k, a)
        /\ UNCHANGED inject
  /\ UNCHANGED <<row, running, due, slot, attached>>

-----------------------------------------------------------------------------
(* tracker_tick(), a row at a time, in adsb_rx_task or adsb_tick()         *)

(* The painter shares its core with the tasks that read keys, which come   *)
(* first; it runs in the midst of them only when one waits to print that   *)
(* there is a new contact.                                                 *)
CanRun(t) == t = draw => \A k \in Keys : at[k] \in {"idle", "stamp"}

(* The receiver does not tick, although it stops the painter from it.      *)
TickBegin_DrawOnly(t) ==
  /\ t = draw /\ at[t] = "idle" /\ due /\ CanRun(t) /\ ~running
  /\ due' = FALSE /\ Goes(t, "look") /\ slot' = [slot EXCEPT ![t] = 1]
  /\ UNCHANGED <<row, running, inject, who, heard, attached>>

TickBegin(t) ==
  /\ t \in Tickers /\ at[t] = "idle" /\ due /\ CanRun(t)
  /\ t = draw => ~running
  /\ due' = FALSE /\ Goes(t, "look") /\ slot' = [slot EXCEPT ![t] = 1]
  /\ UNCHANGED <<row, running, inject, who, heard, attached>>

NextRow(t) ==
  IF slot[t] = Slots THEN Goes(t, "idle") /\ slot' = [slot EXCEPT ![t] = 1]
  ELSE Goes(t, "look") /\ slot' = [slot EXCEPT ![t] = slot[t] + 1]

Look(t) ==
  /\ at[t] = "look" /\ CanRun(t)
  /\ IF row[slot[t]].active /\ row[slot[t]].age > TTL THEN Goes(t, "drop") /\ UNCHANGED slot
     ELSE NextRow(t)
  /\ UNCHANGED <<row, running, inject, due, who, heard, attached>>

DropRow(t) ==
  /\ at[t] = "drop" /\ CanRun(t) /\ row' = [row EXCEPT ![slot[t]].active = FALSE] /\ NextRow(t)
  /\ UNCHANGED <<running, inject, due, who, heard, attached>>

-----------------------------------------------------------------------------
(* adsb_rx_task()                                                          *)

Start ==
  /\ at[rx] = "off" /\ Goes(rx, "idle") /\ running' = TRUE
  /\ UNCHANGED <<row, inject, due, who, slot, heard, attached>>

Inject ==
  /\ at[rx] = "idle" /\ inject /\ inject' = FALSE
  /\ \E a \in Fakes : Begin(rx, a)
  /\ UNCHANGED <<row, running, due, slot, attached>>

(* on_msg(); the loop comes to the flag and the tick between two buffers.  *)
Message(a) ==
  /\ at[rx] = "idle" /\ Begin(rx, a)
  /\ UNCHANGED <<row, running, inject, due, slot, attached>>

(* A second passes.                                                        *)
Second ==
  /\ due' = TRUE
  /\ row' = [s \in Rows |-> [row[s] EXCEPT !.age = IF @ < Old THEN @ + 1 ELSE Old]]
  /\ heard' = [a \in Aircraft |-> IF heard[a] < Old THEN heard[a] + 1 ELSE Old]
  /\ UNCHANGED <<running, inject, at, who, slot, attached>>

Write(t) == Find(t) \/ Create(t) \/ Stamp(t) \/ Fill(t)
Expire(t) == Look(t) \/ DropRow(t)

Next ==
  \/ \E t \in Writers : Write(t)
  \/ \E t \in Tickers : TickBegin(t) \/ Expire(t)
  \/ \E k \in Keys : Press(k)
  \/ Start \/ Inject \/ (\E a \in Aircraft : Message(a)) \/ Second

(* Tasks run; the receiver's loop comes to its tick and to the flag,       *)
(* however many messages there are.                                        *)
Spec ==
  /\ Init /\ [][Next]_vars
  /\ \A t \in Writers : WF_at(Write(t))
  /\ \A t \in Tickers : WF_<<at, slot>>(Expire(t)) /\ SF_at(TickBegin(t))
  /\ SF_inject(Inject) /\ WF_<<due, row, heard>>(Second)

-----------------------------------------------------------------------------
(* Correctness                                                             *)

Row    == [icao : Aircraft \cup {none}, shows : Aircraft \cup {none}, active : BOOLEAN, age : 0 .. Old]
Places == {"off", "idle", "find", "create", "stamp", "fill", "look", "drop"}

(* Each variable holds what its C counterpart can hold, and whoever works  *)
(* on a row works for an address.  Part of the invariant of Tracker_proofs.*)
TypeOK ==
  /\ row \in [Rows -> Row]
  /\ running \in BOOLEAN /\ inject \in BOOLEAN /\ due \in BOOLEAN /\ attached \in BOOLEAN
  /\ at \in [Tasks -> Places]
  /\ who \in [Tasks -> Aircraft \cup {none}] /\ slot \in [Tasks -> Rows]
  /\ heard \in [Aircraft -> 0 .. Old]
  /\ \A t \in Writers : at[t] \in {"find", "create", "stamp", "fill"} => who[t] # none

Listed(a) == \E s \in Rows : row[s].active /\ row[s].icao = a

(* With a receiver from the start it is the only task that writes.  While  *)
(* there is none, the painter's tick may drop what the key has just made,  *)
(* and both may write while the receiver starts.                           *)

(* An aircraft has one row, although it may be lost and found while the    *)
(* table is full and rows free up below its own (find_or_create).          *)
OneRowEach ==
  attached => \A s, o \in Rows : row[s].active /\ row[o].active /\ row[s].icao = row[o].icao => s = o

(* A row shows nothing of the aircraft that had it before, although a row  *)
(* is dropped by clearing its flag only (tracker_tick).                    *)
RowIsOneAircraft ==
  attached => \A s \in Rows : row[s].active => row[s].shows \in {row[s].icao, none}

(* "A contact with no frame for this long is dropped" (class_driver.c,     *)
(* CONTACT_TTL_US), and no other.                                          *)
OnlySilentDropped ==
  [][attached => \A s \in Rows : row[s].active /\ ~row'[s].active => heard[row[s].icao] > TTL]_vars

(* A row is not taken from an aircraft that is still in it, however full   *)
(* the table (find_or_create).                                             *)
NobodyEvicted ==
  [][attached => \A s \in Rows : row[s].active /\ row'[s].active => row'[s].icao = row[s].icao]_vars

(* An aircraft that is silent leaves the table: with a receiver, without,  *)
(* and while one starts (adsb_rx_task, adsb_tick).                         *)
SilentGoes == \A a \in Aircraft : []<>(~Listed(a) \/ heard[a] <= TTL)

=============================================================================
