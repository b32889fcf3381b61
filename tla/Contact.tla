------------------------------ MODULE Contact ------------------------------
(***************************************************************************)
(* One row of the aircraft table, filled by on_msg() of                    *)
(* src/main/class_driver.c from what mode_s_decode() found in a message.   *)
(* An aircraft says the same thing in several ways: in extended squitters  *)
(* of its own, and in replies to somebody's interrogator.  The row takes   *)
(* one of them, and the table, the panel and the JSON feed show it only    *)
(* while it is fresh.  Time passes in ticks of twenty seconds.             *)
(*                                                                         *)
(* The parts of a row have only the clock in common: a behaviour is about  *)
(* one of them.                                                            *)
(***************************************************************************)
EXTENDS Naturals, FiniteSets

CONSTANTS
  Values,              \* what may be said
  NoValue,             \* nothing yet: 0, the empty string
  Fresh,               \* OPT_FRESH_US
  Window,              \* AIRGROUND_CPR_WINDOW_US
  Hold,                \* STATUS_HOLD_US
  Telling              \* callsigns that tell a category by themselves

ASSUME ContactAssumption ==
  /\ NoValue \notin Values /\ Telling \subseteq Values
  /\ {Fresh, Window, Hold} \subseteq Nat \ {0} /\ Window < Fresh /\ Hold < Fresh

VARIABLES
  topic,               \* the part of the row that this behaviour is about
  callsign, cs_adsb_us, emitter, category,
  velocity, vel_us,
  opt,                 \* any of the opt_f_t
  on_ground, cpr_us,   \* the newer of cpr_even and cpr_odd
  alert, spi, status_us,
  sil, sil_type, acc_us, version, ops_us,
  es, said, held       \* history: what a squitter, anybody, a position or a status message said last, how long ago

speech      == <<callsign, cs_adsb_us, emitter, category>>
speed       == <<velocity, vel_us>>
ground      == <<on_ground, cpr_us>>
status      == <<alert, spi, status_us>>
accuracy    == <<sil, sil_type, acc_us, version, ops_us>>
contactVars == <<topic, speech, speed, opt, ground, status, accuracy, es, said, held>>

\* Ages, up to one that nothing distinguishes from never.
Never  == Fresh + 1
FreshAt(age) == age < Fresh
Aged(age) == IF age = Never THEN Never ELSE age + 1
Remark(v, age) == [v |-> v, age |-> age]
Silent == Remark(NoValue, Never)

ContactInit ==
  /\ topic = "none"
  /\ callsign = NoValue /\ cs_adsb_us = Never /\ emitter = FALSE /\ category = "UNK"
  /\ velocity = NoValue /\ vel_us = Never
  /\ opt = [v |-> NoValue, age |-> Never, es |-> FALSE]
  /\ on_ground = FALSE /\ cpr_us = Never
  /\ alert = FALSE /\ spi = FALSE /\ status_us = Never
  /\ sil = NoValue /\ sil_type = "unknown" /\ acc_us = Never /\ version = NoValue /\ ops_us = Never
  /\ es = Silent /\ said = Silent /\ held = Silent

About(t) == topic \in {"none", t} /\ topic' = t

Hears(squitter, v) ==
  /\ said' = Remark(v, 0)
  /\ es' = IF squitter THEN Remark(v, 0) ELSE es
  /\ UNCHANGED held

-----------------------------------------------------------------------------
(* What mode_s_decode() finds in a message                                 *)

\* An extended squitter by its type code and subtype; CA of the first byte may
\* tell the ground from the air in any of them.
Squitter(tc, sub) ==
  [es   |-> TRUE,
   says |-> {"ground"} \cup
    (CASE tc \in 1 .. 4                             -> {"callsign"}
       [] tc \in 5 .. 8                             -> {"position", "velocity"}
       [] tc = 0                                    -> {"status"}
       [] tc \in 9 .. 18 \cup 20 .. 22             -> {"status", "position"}
       [] tc = 19 /\ sub \in 1 .. 2                -> {"velocity", "opt"}
       [] tc = 19 /\ sub \in 3 .. 4                -> {"opt"}
       [] (tc = 28 /\ sub = 1) \/ (tc = 23 /\ sub = 7) -> {"squawk"}
       [] tc = 29 /\ sub \in 0 .. 3                -> {"opt", "sil"}
       [] tc = 31 /\ sub \in 0 .. 1                -> {"sil", "version"}
       [] OTHER                                     -> {})]

\* A reply by its format and the register that decode_commb() finds in it.
Reply(df, bds) ==
  [es   |-> FALSE,
   says |-> {"ground"}
     \cup (IF df \in {4, 5, 20, 21} THEN {"status"} ELSE {})
     \cup (IF df \in {5, 21} THEN {"squawk"} ELSE {})
     \cup (IF df \in {20, 21}
             THEN CASE bds = 20 -> {"callsign"} [] bds \in {40, 60} -> {"opt"}
                    [] bds = 50 -> {"velocity", "opt"} [] OTHER -> {}
             ELSE {})]

Messages ==
  {Squitter(tc, sub) : tc \in 0 .. 31, sub \in 0 .. 7}
    \cup {Reply(df, bds) : df \in {0, 4, 5, 11, 16, 20, 21}, bds \in {0, 10, 17, 20, 30, 40, 50, 60}}

-----------------------------------------------------------------------------
(* What on_msg() makes of it                                               *)

\* plane_classify(): the emitter category settles what the callsign leaves open.
Classify(cs, em) == IF cs \in Telling THEN "COM" ELSE IF em THEN "GA" ELSE "UNK"

\* TC1-4, or BDS 2,0 in a reply.
Overrides_Always(squitter, age) == TRUE
Overrides(squitter, age)        == squitter \/ ~ FreshAt(age)

Ident(squitter, cs) ==
  /\ About("callsign") /\ Hears(squitter, cs)
  /\ IF Overrides(squitter, cs_adsb_us)
       THEN /\ cs_adsb_us' = IF squitter THEN 0 ELSE cs_adsb_us
            /\ emitter' = (emitter \/ squitter)
            /\ callsign' = cs
            /\ category' = IF cs # callsign THEN Classify(cs, emitter') ELSE category
       ELSE UNCHANGED speech
  /\ UNCHANGED <<speed, opt, ground, status, accuracy>>

\* TC19 or TC5-8, or BDS 5,0; a squitter may have the heading alone.
Velocity(squitter, v) ==
  /\ About("velocity") /\ Hears(squitter, v)
  /\ IF Overrides(squitter, vel_us)
       THEN velocity' = v /\ vel_us' = IF squitter THEN 0 ELSE vel_us
       ELSE UNCHANGED speed
  /\ UNCHANGED <<speech, opt, ground, status, accuracy>>

\* opt_set()
OptSet(squitter, v) ==
  /\ About("opt") /\ Hears(squitter, v)
  /\ opt' = IF ~ squitter /\ opt.es /\ FreshAt(opt.age) THEN opt
            ELSE [v |-> v, age |-> 0, es |-> squitter]
  /\ UNCHANGED <<speech, speed, ground, status, accuracy>>

\* A position message by its format, every other one by FS, VS or CA, of which
\* only a few values mean anything.
Place(position, v) ==
  /\ About("ground") /\ v \in BOOLEAN
  /\ IF position
       THEN on_ground' = v /\ cpr_us' = 0 /\ held' = Remark(v, 0)
       ELSE /\ on_ground' = IF cpr_us > Window THEN v ELSE on_ground
            /\ UNCHANGED <<cpr_us, held>>
  /\ UNCHANGED <<speech, speed, opt, status, accuracy, es, said>>

\* FS of a reply says both; SS of a squitter leaves the IDENT switch open while
\* there is an alert, and the row then keeps what it has.
Status(a, s) ==
  /\ About("status")
  /\ alert' = a /\ status_us' = 0 /\ held' = Remark(a, 0)
  /\ spi' = IF s = "unknown" THEN spi ELSE s = "on"
  /\ UNCHANGED <<speech, speed, opt, ground, accuracy, es, said>>

\* TC29 has no type of its SIL, TC31 has, and a version; the receiver keeps the
\* type that it knows.
Quality(v, type, ver) ==
  /\ About("accuracy") /\ Hears(ver # NoValue, v)
  /\ sil' = v /\ acc_us' = 0 /\ sil_type' = IF type # "unknown" THEN type ELSE sil_type
  /\ IF ver # NoValue THEN version' = ver /\ ops_us' = 0 ELSE UNCHANGED <<version, ops_us>>
  /\ UNCHANGED <<speech, speed, opt, ground, status>>

\* tracker_tick() clears a status that nobody repeats.
Expires(age)       == age > Hold

Passes ==
  /\ cs_adsb_us' = Aged(cs_adsb_us) /\ vel_us' = Aged(vel_us) /\ cpr_us' = Aged(cpr_us)
  /\ opt' = [opt EXCEPT !.age = Aged(@)]
  /\ acc_us' = Aged(acc_us) /\ ops_us' = Aged(ops_us) /\ status_us' = Aged(status_us)
  /\ alert' = (alert /\ ~ Expires(status_us')) /\ spi' = (spi /\ ~ Expires(status_us'))
  /\ es' = [es EXCEPT !.age = Aged(@)] /\ said' = [said EXCEPT !.age = Aged(@)]
  /\ held' = [held EXCEPT !.age = Aged(@)]
  /\ UNCHANGED <<topic, callsign, emitter, category, velocity, on_ground, sil, sil_type, version>>

ContactNext ==
  \/ \E m \in Messages, v \in Values :
       \/ "callsign" \in m.says /\ Ident(m.es, v)
       \/ "velocity" \in m.says /\ Velocity(m.es, v)
       \/ "opt" \in m.says /\ OptSet(m.es, v)
  \/ \E m \in Messages, v \in BOOLEAN :
       "ground" \in m.says /\ Place("position" \in m.says, v)
  \/ \E m \in Messages, a \in BOOLEAN, s \in {"on", "off", "unknown"} :
       "status" \in m.says /\ (s = "unknown" => m.es /\ a) /\ Status(a, s)
  \/ \E m \in Messages, v \in Values, type \in {"unknown", "perhour"}, ver \in Values \cup {NoValue} :
       /\ "sil" \in m.says /\ (ver # NoValue <=> "version" \in m.says)
       /\ (type # "unknown" => "version" \in m.says) /\ Quality(v, type, ver)
  \/ Passes

ContactSpec == ContactInit /\ [][ContactNext]_contactVars

-----------------------------------------------------------------------------
(* What is shown                                                           *)

\* json_optional(): each field while its own time is fresh.
Exported ==
  (IF FreshAt(opt.age) THEN {opt.v} ELSE {}) \cup (IF FreshAt(acc_us) THEN {sil} ELSE {})

-----------------------------------------------------------------------------
(* Properties *)

\* While an aircraft's own squitter about something is fresh, the row shows what
\* the last one said, whatever was read in replies since; nothing else is shown
\* as current for longer than it may be, an alert no longer than its hold, and
\* the flags of a reply never move an aircraft whose positions say otherwise.
SquitterComesFirst ==
  /\ FreshAt(es.age) /\ topic = "callsign" => callsign = es.v
  /\ FreshAt(es.age) /\ topic = "velocity" => velocity = es.v
  /\ FreshAt(es.age) /\ topic = "opt"      => Exported = {es.v}
  /\ Exported # {} => FreshAt(said.age)
  /\ held.age <= Window /\ topic = "ground" => on_ground = held.v
  /\ alert => held.age <= Hold /\ held.v

\* The category is what the callsign and the emitter category that the row shows
\* make it (plane_cat.h: the emitter category "only settles what the address and
\* callsign leave unknown").
CategoryIsCurrent == category = Classify(callsign, emitter)
=============================================================================
