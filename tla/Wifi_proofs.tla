----------------------------- MODULE Wifi_proofs -----------------------------
(***************************************************************************)
(* Proofs about the Wi-Fi manager.  That the state tells the truth about   *)
(* the link holds for any number of tasks that give commands, during       *)
(* bring-up too; that nobody on the SoftAP is missed, for a single one;    *)
(* that the board comes back as it was left, and that a link is wanted,    *)
(* for a single one that waits for bring-up.  Nothing in net_wifi.c        *)
(* enforces either condition; without those that a theorem is stated       *)
(* under, the model checker finds its property broken.                     *)
(***************************************************************************)
EXTENDS Wifi, SequenceTheorems, TLAPS

(* Only one task gives commands.                                           *)
OneUser == \A u, v \in Users : u = v

BringingUp == {"init", "load", "flags", "read", "config", "narrow", "start"}
Running    == {"check", "connect", "wait"}
Places     == {"idle", "ssid", "pass", "copy", "drop", "read", "config", "staflag", "switch",
               "dropoff", "again", "mode", "apset", "apflag"}
EventNames == {"ap_start", "joined", "left", "lost", "ip"}

AnyCreds == [ssid : Nat, pass : BOOLEAN]
Switches == [sta : BOOLEAN, ap : BOOLEAN]
Held     == AnyCreds \cup Switches

Radios   == [started : BOOLEAN, mode : {"null", "sta", "apsta"}, cfg : Held,
             link : {"idle", "joining", "up", "leased"}, net : Held, assoc : Nat]

Types ==
  /\ state \in {"off", "init", "ap", "sta"} /\ mgr \in BringingUp \cup Running \cup {"gone"}
  /\ staOn \in BOOLEAN /\ apOn \in BOOLEAN /\ want \in BOOLEAN /\ leased \in BOOLEAN
  /\ raced \in BOOLEAN /\ creds \in AnyCreds /\ clients \in Nat
  /\ cmd \in [Users -> [at : Places, on : BOOLEAN, new : AnyCreds]]
  /\ held \in [Tasks -> Held]
  /\ mgr = "flags" => held["mgr"] \in Switches
  /\ nvs \in [ssid : Nat, pass : BOOLEAN, sta : BOOLEAN, ap : BOOLEAN]
  /\ radio \in Radios
  /\ events \in Seq(EventNames) /\ failed \subseteq {"creds", "sta", "ap"}

(* Before the radio runs, and if it never does, nothing happens on it.     *)
Silent ==
  /\ mgr \in BringingUp => state = "init"
  /\ mgr = "gone" => state = "off"
  /\ mgr \notin Running =>
       /\ events = <<>> /\ ~radio.started /\ radio.link = "idle" /\ ~leased
       /\ clients = 0 /\ radio.assoc = 0

(* The handlers of the events in e, in their order, will turn "leased"     *)
(* from `from' into `to'.                                                  *)
Tells(e, from, to) ==
  \E n \in 0 .. Len(e) :
     /\ \A i \in n + 1 .. Len(e) : e[i] \notin {"lost", "ip"}
     /\ \/ n = 0 /\ from = to
        \/ n > 0 /\ e[n] = "ip" /\ to = TRUE
        \/ n > 0 /\ e[n] = "lost" /\ to = FALSE

LinkTold ==
  /\ state = "sta" <=> leased
  /\ Tells(events, leased, radio.link = "leased")

LinkInv == Types /\ Silent /\ LinkTold

(* The handlers of the events in e will leave a count of at least n.       *)
After(c, x) == IF x = "joined" THEN c + 1
               ELSE IF x = "left" THEN (IF c > 0 THEN c - 1 ELSE c) ELSE c
Counts(e, from, n) ==
  \E c \in [0 .. Len(e) -> Nat] :
     /\ c[0] <= from /\ n <= c[Len(e)]
     /\ \A i \in 1 .. Len(e) : c[i] <= After(c[i - 1], e[i])

(* A count is cleared only with the SoftAP off.                            *)
Counted ==
  /\ Counts(events, clients, radio.assoc)
  /\ radio.mode # "apsta" => radio.assoc = 0
  /\ \A u \in Users : cmd[u].at = "apset" =>
       mgr \in Running /\ radio.mode = (IF cmd[u].on THEN "apsta" ELSE "sta")

At(places) == \E u \in Users : cmd[u].at \in places

(* Bring-up takes from NVS, step by step, what the last run left there.    *)
Loading ==
  /\ mgr \in BringingUp => ~At(Places \ {"idle"}) /\ failed = {}
  /\ mgr \in BringingUp \ {"init", "load"} => creds = [ssid |-> nvs.ssid, pass |-> nvs.pass]
  /\ mgr = "flags" => held["mgr"] = [sta |-> nvs.sta, ap |-> nvs.ap]
  /\ mgr \in {"read", "config", "narrow", "start"} => staOn = nvs.sta /\ apOn = nvs.ap
  /\ mgr \in {"config", "narrow", "start"} => want = (creds.ssid # 0)
  /\ mgr = "config" => held["mgr"] = creds
  /\ mgr \in {"narrow", "start"} => radio.cfg = creds
  /\ mgr = "start" => radio.mode = (IF apOn THEN "apsta" ELSE "sta")

(* What a command has done to its setting by the time it is at a place.    *)
CommandDone(u) ==
  /\ cmd[u].at \in {"pass", "copy"} => nvs.ssid = cmd[u].new.ssid
  /\ cmd[u].at = "copy" => nvs.pass = cmd[u].new.pass
  /\ cmd[u].at \in {"drop", "read", "config"} =>
       creds = cmd[u].new /\ creds = [ssid |-> nvs.ssid, pass |-> nvs.pass]
  /\ cmd[u].at = "config" => held[u] = creds /\ want = (creds.ssid # 0)
  /\ cmd[u].at = "switch" /\ "sta" \notin failed => nvs.sta = cmd[u].on
  /\ cmd[u].at = "apflag" => apOn = cmd[u].on

(* What agrees while the radio runs, but for the command that is under way.*)
Agreed ==
  mgr \in Running =>
    /\ \A u \in Users : CommandDone(u)
    /\ "sta" \notin failed /\ ~At({"switch"}) => nvs.sta = staOn
    /\ "ap" \notin failed /\ ~At({"apflag"}) => nvs.ap = apOn
    /\ ~At({"apset"}) => radio.mode = (IF apOn THEN "apsta" ELSE "sta")
    /\ "creds" \notin failed /\ ~At({"pass", "copy"}) =>
         creds = [ssid |-> nvs.ssid, pass |-> nvs.pass]
    /\ "creds" \notin failed /\ ~At({"drop", "read"}) => want = (creds.ssid # 0)
    /\ "creds" \notin failed /\ ~At({"drop", "read", "config"}) => radio.cfg = creds

(* A link, and a join that is decided on, is wanted, is about to be        *)
(* dropped, or was raced.                                                  *)
Wanted ==
  /\ mgr = "connect" /\ ~staOn => At({"dropoff"}) \/ (raced /\ radio.link = "idle")
  /\ radio.link # "idle" /\ ~raced =>
       /\ staOn \/ At({"dropoff"})
       /\ radio.net = creds \/ "creds" \in failed \/ At({"drop"})
       /\ ~At({"read", "config"})

CountInv   == LinkInv /\ Counted
SettingInv == CountInv /\ Loading /\ Agreed /\ Wanted

-----------------------------------------------------------------------------
(* What the handlers will make of the queue                                *)

(* An empty queue changes nothing.                                         *)
LEMMA NothingToTell ==
  ASSUME NEW from \in BOOLEAN, NEW to \in BOOLEAN
  PROVE  Tells(<<>>, from, to) <=> from = to
  BY DEF Tells

(* An event about a station or the SoftAP does not touch the link.         *)
LEMMA TellsOther ==
  ASSUME NEW e \in Seq(EventNames), NEW x \in EventNames \ {"lost", "ip"},
         NEW from \in BOOLEAN, NEW to \in BOOLEAN, Tells(e, from, to)
  PROVE  Tells(Append(e, x), from, to)
<1>1. PICK n \in 0 .. Len(e) :
         /\ \A i \in n + 1 .. Len(e) : e[i] \notin {"lost", "ip"}
         /\ \/ n = 0 /\ from = to
            \/ n > 0 /\ e[n] = "ip" /\ to = TRUE
            \/ n > 0 /\ e[n] = "lost" /\ to = FALSE
      BY DEF Tells
<1>2. /\ Len(Append(e, x)) = Len(e) + 1 /\ Append(e, x)[Len(e) + 1] = x
      /\ \A i \in 1 .. Len(e) : Append(e, x)[i] = e[i]
      /\ Len(e) \in Nat
      BY DEF EventNames
<1>3. \A i \in n + 1 .. Len(Append(e, x)) : Append(e, x)[i] \notin {"lost", "ip"}
      BY <1>1, <1>2
<1>4. n \in 0 .. Len(Append(e, x)) /\ (n > 0 => Append(e, x)[n] = e[n])  BY <1>1, <1>2
<1>5. QED  BY <1>1, <1>3, <1>4 DEF Tells

(* The last word is the newest event's.                                    *)
LEMMA TellsLast ==
  ASSUME NEW e \in Seq(EventNames), NEW from \in BOOLEAN
  PROVE  Tells(Append(e, "lost"), from, FALSE) /\ Tells(Append(e, "ip"), from, TRUE)
<1>1. \A x \in {"lost", "ip"} :
        /\ Len(Append(e, x)) = Len(e) + 1 /\ Append(e, x)[Len(e) + 1] = x /\ Len(e) \in Nat
      BY DEF EventNames
<1>2. \A x \in {"lost", "ip"} :
        /\ Len(e) + 1 \in 0 .. Len(Append(e, x)) /\ Len(e) + 1 > 0
        /\ \A i \in Len(e) + 1 + 1 .. Len(Append(e, x)) : Append(e, x)[i] \notin {"lost", "ip"}
      BY <1>1
<1>3. QED  BY <1>1, <1>2 DEF Tells

(* The head's handler runs: the rest speaks from what it left.             *)
LEMMA TellsTail ==
  ASSUME NEW e \in Seq(EventNames), e # <<>>,
         NEW from \in BOOLEAN, NEW to \in BOOLEAN, Tells(e, from, to)
  PROVE  /\ Head(e) = "ip" => Tells(Tail(e), TRUE, to)
         /\ Head(e) = "lost" => Tells(Tail(e), FALSE, to)
         /\ Head(e) \notin {"lost", "ip"} => Tells(Tail(e), from, to)
<1>1. PICK n \in 0 .. Len(e) :
         /\ \A i \in n + 1 .. Len(e) : e[i] \notin {"lost", "ip"}
         /\ \/ n = 0 /\ from = to
            \/ n > 0 /\ e[n] = "ip" /\ to = TRUE
            \/ n > 0 /\ e[n] = "lost" /\ to = FALSE
      BY DEF Tells
<1>2. /\ Len(Tail(e)) = Len(e) - 1 /\ Len(e) \in Nat \ {0} /\ Head(e) = e[1]
      /\ \A i \in 1 .. Len(e) - 1 : Tail(e)[i] = e[i + 1]
      BY HeadTailProperties
<1>3. CASE n = 0
  <2>1. \A i \in 1 .. Len(Tail(e)) : Tail(e)[i] \notin {"lost", "ip"}  BY <1>1, <1>2, <1>3
  <2>2. Head(e) \notin {"lost", "ip"} /\ from = to  BY <1>1, <1>2, <1>3
  <2>3. 0 \in 0 .. Len(Tail(e)) /\ 0 + 1 = 1  BY <1>2
  <2>4. QED  BY <2>1, <2>2, <2>3 DEF Tells
<1>4. CASE n = 1
  <2>1. \A i \in 1 .. Len(Tail(e)) : Tail(e)[i] \notin {"lost", "ip"}  BY <1>1, <1>2, <1>4
  <2>2. (Head(e) = "ip" /\ to = TRUE) \/ (Head(e) = "lost" /\ to = FALSE)
        BY <1>1, <1>2, <1>4
  <2>3. 0 \in 0 .. Len(Tail(e)) /\ 0 + 1 = 1  BY <1>2
  <2>4. QED  BY <2>1, <2>2, <2>3 DEF Tells
<1>5. CASE n > 1
  <2>1. n - 1 \in 0 .. Len(Tail(e)) /\ n - 1 > 0 /\ Tail(e)[n - 1] = e[n]  BY <1>2, <1>5
  <2>2. \A i \in (n - 1) + 1 .. Len(Tail(e)) : Tail(e)[i] \notin {"lost", "ip"}
        BY <1>1, <1>2, <1>5
  <2>3. \/ n - 1 > 0 /\ Tail(e)[n - 1] = "ip" /\ to = TRUE
        \/ n - 1 > 0 /\ Tail(e)[n - 1] = "lost" /\ to = FALSE
        BY <1>1, <1>5, <2>1
  <2>4. QED  BY <2>1, <2>2, <2>3 DEF Tells
<1>6. n = 0 \/ n = 1 \/ n > 1  BY <1>2
<1>7. QED  BY <1>3, <1>4, <1>5, <1>6, Zenon

(* The same of the count.  Without events it is what it is.                *)
LEMMA NothingToCount ==
  ASSUME NEW from \in Nat, NEW n \in Nat
  PROVE  Counts(<<>>, from, n) <=> n <= from
<1>1. Len(<<>>) = 0 /\ 0 .. 0 = {0} /\ 1 .. 0 = {}  OBVIOUS
<1>2. ASSUME Counts(<<>>, from, n) PROVE n <= from  BY <1>1, <1>2 DEF Counts
<1>3. ASSUME n <= from PROVE Counts(<<>>, from, n)
  <2> DEFINE c == [i \in 0 .. 0 |-> from]
  <2>1. c \in [0 .. 0 -> Nat] /\ c[0] <= from /\ n <= c[0]  BY <1>3
  <2>2. QED  BY <1>1, <2>1 DEF Counts
<1>4. QED  BY <1>2, <1>3

(* Nobody there is no fewer than any count.                                *)
LEMMA NobodyMissed ==
  ASSUME NEW e \in Seq(EventNames), NEW from \in Nat
  PROVE  Counts(e, from, 0)
<1> DEFINE c == [i \in 0 .. Len(e) |-> 0]
<1>1. Len(e) \in Nat  OBVIOUS
<1>2. c \in [0 .. Len(e) -> Nat] /\ c[0] = 0 /\ c[Len(e)] = 0  BY <1>1
<1>3. \A i \in 1 .. Len(e) : c[i] = 0 /\ c[i - 1] = 0  BY <1>1
<1>4. \A i \in 1 .. Len(e) : c[i] <= After(c[i - 1], e[i])  BY <1>3 DEF After
<1>5. c[0] <= from /\ 0 <= c[Len(e)]  BY <1>2
<1> HIDE DEF c
<1>6. QED  BY <1>2, <1>4, <1>5 DEF Counts

(* An event joins the queue: the count will follow what happened.          *)
LEMMA CountsAppend ==
  ASSUME NEW e \in Seq(EventNames), NEW x \in EventNames, NEW from \in Nat, NEW n \in Nat,
         NEW m \in Nat, Counts(e, from, n), m <= After(n, x)
  PROVE  Counts(Append(e, x), from, m)
<1>1. PICK c \in [0 .. Len(e) -> Nat] :
         /\ c[0] <= from /\ n <= c[Len(e)]
         /\ \A i \in 1 .. Len(e) : c[i] <= After(c[i - 1], e[i])
      BY DEF Counts
<1>2. /\ Len(Append(e, x)) = Len(e) + 1 /\ Append(e, x)[Len(e) + 1] = x
      /\ \A i \in 1 .. Len(e) : Append(e, x)[i] = e[i]
      /\ Len(e) \in Nat
      OBVIOUS
<1> DEFINE d == [i \in 0 .. Len(e) + 1 |-> IF i = Len(e) + 1 THEN m ELSE c[i]]
<1>3. d \in [0 .. Len(e) + 1 -> Nat]  BY <1>1, <1>2
<1>4. d[Len(e) + 1] = m /\ \A i \in 0 .. Len(e) : d[i] = c[i]  BY <1>2
<1>5. c[Len(e)] \in Nat /\ After(n, x) <= After(c[Len(e)], x)  BY <1>1, <1>2 DEF After
<1>6. After(n, x) \in Int /\ After(c[Len(e)], x) \in Int  BY <1>5 DEF After
<1>7. m <= After(c[Len(e)], x)  BY <1>5, <1>6
<1> HIDE DEF d
<1>8. \A i \in 1 .. Len(e) + 1 : d[i] <= After(d[i - 1], Append(e, x)[i])
  <2> SUFFICES ASSUME NEW i \in 1 .. Len(e) + 1 PROVE d[i] <= After(d[i - 1], Append(e, x)[i])
      OBVIOUS
  <2>1. CASE i = Len(e) + 1
    <3>1. i - 1 = Len(e) /\ d[i - 1] = c[Len(e)]  BY <1>2, <1>4, <2>1
    <3>2. d[i] = m /\ Append(e, x)[i] = x  BY <1>2, <1>4, <2>1
    <3>3. QED  BY <1>7, <3>1, <3>2
  <2>2. CASE i \in 1 .. Len(e)
    <3>1. d[i] = c[i] /\ d[i - 1] = c[i - 1] /\ Append(e, x)[i] = e[i]  BY <1>2, <1>4, <2>2
    <3>2. QED  BY <1>1, <2>2, <3>1
  <2>3. i = Len(e) + 1 \/ i \in 1 .. Len(e)  BY <1>2
  <2>4. QED  BY <2>1, <2>2, <2>3
<1>9. d[0] = c[0]  BY <1>2, <1>4
<1>10. /\ d \in [0 .. Len(Append(e, x)) -> Nat] /\ d[0] <= from /\ m <= d[Len(Append(e, x))]
       /\ \A i \in 1 .. Len(Append(e, x)) : d[i] <= After(d[i - 1], Append(e, x)[i])
       BY <1>1, <1>2, <1>3, <1>4, <1>8, <1>9
<1>11. QED  BY <1>10 DEF Counts

(* The head's handler runs.                                                *)
LEMMA CountsTail ==
  ASSUME NEW e \in Seq(EventNames), e # <<>>, NEW from \in Nat, NEW n \in Nat,
         Counts(e, from, n)
  PROVE  Counts(Tail(e), After(from, Head(e)), n)
<1>1. PICK c \in [0 .. Len(e) -> Nat] :
         /\ c[0] <= from /\ n <= c[Len(e)]
         /\ \A i \in 1 .. Len(e) : c[i] <= After(c[i - 1], e[i])
      BY DEF Counts
<1>2. /\ Len(Tail(e)) = Len(e) - 1 /\ Len(e) \in Nat \ {0} /\ Head(e) = e[1]
      /\ \A i \in 1 .. Len(e) - 1 : Tail(e)[i] = e[i + 1]
      BY HeadTailProperties
<1> DEFINE d == [i \in 0 .. Len(e) - 1 |-> c[i + 1]]
<1>3. d \in [0 .. Len(Tail(e)) -> Nat]  BY <1>1, <1>2
<1>4. \A i \in 0 .. Len(e) - 1 : d[i] = c[i + 1]  OBVIOUS
<1> HIDE DEF d
<1>5. d[0] <= After(from, Head(e))
  <2>1. 1 \in 1 .. Len(e) /\ 1 - 1 = 0 /\ 0 \in 0 .. Len(e) - 1 /\ 0 + 1 = 1
        /\ 0 \in 0 .. Len(e) /\ 1 \in 0 .. Len(e)
        BY <1>2
  <2>2. c[1] <= After(c[0], e[1])  BY <1>1, <2>1
  <2>3. d[0] = c[1] /\ c[0] \in Nat /\ c[1] \in Nat  BY <1>1, <1>4, <2>1
  <2>4. c[0] <= from  BY <1>1
  <2>5. QED  BY <1>2, <2>2, <2>3, <2>4 DEF After
<1>6. d[Len(Tail(e))] = c[Len(e)]  BY <1>2, <1>4
<1>7. \A i \in 1 .. Len(Tail(e)) : d[i] <= After(d[i - 1], Tail(e)[i])
  <2> SUFFICES ASSUME NEW i \in 1 .. Len(e) - 1 PROVE d[i] <= After(d[i - 1], Tail(e)[i])
      BY <1>2
  <2>1. d[i] = c[i + 1] /\ d[i - 1] = c[i] /\ Tail(e)[i] = e[i + 1]  BY <1>2, <1>4
  <2>2. i + 1 \in 1 .. Len(e) /\ (i + 1) - 1 = i  BY <1>2
  <2>3. c[i + 1] <= After(c[(i + 1) - 1], e[i + 1])  BY <1>1, <2>2
  <2>4. QED  BY <2>1, <2>2, <2>3
<1>8. QED  BY <1>1, <1>3, <1>5, <1>6, <1>7 DEF Counts

-----------------------------------------------------------------------------
(* The state tells the truth about the link                                *)

(* What the constants stand for.                                           *)
LEMMA WhatThereIs ==
  /\ Given \subseteq AnyCreds /\ None \in AnyCreds /\ Keyed \subseteq AnyCreds
  /\ "mgr" \notin Users /\ Users \subseteq Tasks /\ "mgr" \in Tasks
  /\ \A c \in AnyCreds : c = [ssid |-> c.ssid, pass |-> c.pass]
<1>1. Networks \subseteq Nat /\ Users \subseteq {"console", "web"}  BY WifiAssumption
<1>2. None \in AnyCreds  BY DEF None, AnyCreds
<1>3. Given \subseteq AnyCreds  BY <1>1, <1>2 DEF Given, AnyCreds
<1>4. Keyed \subseteq AnyCreds  BY <1>3 DEF Keyed
<1>5. "mgr" \notin Users /\ Users \subseteq Tasks /\ "mgr" \in Tasks  BY <1>1 DEF Tasks
<1>6. \A c \in AnyCreds : c = [ssid |-> c.ssid, pass |-> c.pass]  BY DEF AnyCreds
<1>7. QED  BY <1>2, <1>3, <1>4, <1>5, <1>6

(* At power on, the first time and after a reset.                          *)
LEMMA FreshLink == (Init => LinkInv) /\ (Types /\ Reboot => LinkInv')
<1>1. ASSUME Init PROVE LinkInv
  <2> USE <1>1 DEF Init
  <2>1. nvs \in [ssid : Nat, pass : BOOLEAN, sta : BOOLEAN, ap : BOOLEAN]
    <3>1. PICK c \in Keyed \cup {None} :
            nvs = [ssid |-> c.ssid, pass |-> c.pass, sta |-> TRUE, ap |-> TRUE]
          OBVIOUS
    <3>2. c \in AnyCreds  BY <3>1, WhatThereIs
    <3>3. QED  BY <3>1, <3>2 DEF AnyCreds
  <2>2. cmd \in [Users -> [at : Places, on : BOOLEAN, new : AnyCreds]]
        BY WhatThereIs DEF Idle, Places
  <2>3. radio \in Radios
        BY WhatThereIs DEF Off, Held, Radios
  <2>4. held \in [Tasks -> Held]  BY WhatThereIs DEF Held
  <2>5. events \in Seq(EventNames)  OBVIOUS
  <2>6. creds \in AnyCreds  BY WhatThereIs
  <2>7. Types  BY <2>1, <2>2, <2>3, <2>4, <2>5, <2>6 DEF Types, BringingUp
  <2>8. Silent  BY DEF Silent, BringingUp, Running, Off
  <2>9. LinkTold
    <3>1. radio.link # "leased"  BY DEF Off
    <3>2. Tells(<<>>, FALSE, FALSE)  BY NothingToTell
    <3>3. (radio.link = "leased") = FALSE  BY <3>1
    <3>4. state # "sta" /\ leased = FALSE /\ events = <<>>  OBVIOUS
    <3>5. QED  BY <3>2, <3>3, <3>4 DEF LinkTold
  <2>10. QED  BY <2>7, <2>8, <2>9 DEF LinkInv
<1>2. ASSUME Types, Reboot PROVE LinkInv'
  <2> USE <1>2 DEF Reboot, PowerOn
  <2>1. nvs' \in [ssid : Nat, pass : BOOLEAN, sta : BOOLEAN, ap : BOOLEAN]  BY DEF Types
  <2>2. cmd' \in [Users -> [at : Places, on : BOOLEAN, new : AnyCreds]]
        BY WhatThereIs DEF Idle, Places
  <2>3. radio' \in Radios
        BY WhatThereIs DEF Off, Held, Radios
  <2>4. held' \in [Tasks -> Held]  BY WhatThereIs DEF Held
  <2>5. events' \in Seq(EventNames)  OBVIOUS
  <2>6. creds' \in AnyCreds  BY WhatThereIs
  <2>7. Types'  BY <2>1, <2>2, <2>3, <2>4, <2>5, <2>6 DEF Types, BringingUp
  <2>8. Silent'  BY DEF Silent, BringingUp, Running, Off
  <2>9. LinkTold'
    <3>1. radio'.link # "leased"  BY DEF Off
    <3>2. Tells(<<>>, FALSE, FALSE)  BY NothingToTell
    <3>3. (radio'.link = "leased") = FALSE  BY <3>1
    <3>4. state' # "sta" /\ leased' = FALSE /\ events' = <<>>  OBVIOUS
    <3>5. QED  BY <3>2, <3>3, <3>4 DEF LinkTold
  <2>10. QED  BY <2>7, <2>8, <2>9 DEF LinkInv
<1>3. QED  BY <1>1, <1>2

(* What the driver's calls leave alone, and what follows them.             *)
LEMMA DisconnectIs ==
  ASSUME Types, Disconnect
  PROVE  /\ radio' = [radio EXCEPT !.link = "idle", !.net = radio'.net]
         /\ radio'.link = "idle"
         /\ radio.link = "idle" => events' = events /\ radio' = radio
         /\ radio.link # "idle" => events' = Append(events, "lost")
         /\ radio'.net \in Held
<1>1. CASE radio.link = "idle"
  <2>1. events' = events /\ radio' = radio  BY <1>1 DEF Disconnect
  <2>2. QED  BY <1>1, <2>1 DEF Types, Radios
<1>2. CASE radio.link # "idle"
  <2>1. radio' = [radio EXCEPT !.link = "idle", !.net = None] /\ events' = Append(events, "lost")
        BY <1>2 DEF Disconnect, Post
  <2>2. QED  BY <1>2, <2>1, WhatThereIs DEF Types, Held
<1>3. QED  BY <1>1, <1>2

(* What the driver is left with is of its types.                           *)
LEMMA DisconnectTypes ==
  ASSUME Types, Disconnect
  PROVE  radio' \in Radios
<1>1. radio \in Radios  BY DEF Types
<1>2. CASE radio.link = "idle"  BY <1>1, <1>2, DisconnectIs
<1>3. CASE radio.link # "idle"
  <2>1. radio' = [radio EXCEPT !.link = "idle", !.net = None]  BY <1>3 DEF Disconnect
  <2>2. None \in Held  BY WhatThereIs DEF Held
  <2>3. QED  BY <1>1, <2>1, <2>2 DEF Radios
<1>4. QED  BY <1>2, <1>3

LEMMA ConnectTypes ==
  ASSUME Types, Connect
  PROVE  radio' \in Radios
<1>1. radio \in Radios  BY DEF Types
<1>2. radio.cfg \in Held  BY <1>1 DEF Radios
<1>3. radio' = radio \/ radio' = [radio EXCEPT !.link = "joining", !.net = radio.cfg]  BY DEF Connect
<1>4. QED  BY <1>1, <1>2, <1>3 DEF Radios

LEMMA ConnectIs ==
  ASSUME Types, Connect
  PROVE  /\ radio.link # "idle" => radio' = radio
         /\ radio.link = "idle" =>
              radio' = [radio EXCEPT !.link = "joining", !.net = radio.cfg]
         /\ radio'.link = "leased" <=> radio.link = "leased"
  BY DEF Connect, Types

LEMMA SetModeIs ==
  ASSUME Types, NEW m \in {"sta", "apsta"}, SetMode(m)
  PROVE  /\ radio' \in Radios
         /\ radio'.started = radio.started /\ radio'.cfg = radio.cfg /\ radio'.net = radio.net
         /\ radio'.assoc = (IF m = "sta" THEN 0 ELSE radio.assoc)
         /\ radio'.link = radio.link /\ radio'.mode = m
         /\ events' = events \/ (radio.started /\ events' = Append(events, "ap_start"))
  BY DEF SetMode, Types, Radios, Post

(* Every step keeps the types.                                             *)
LEMMA NetworkTypes == ASSUME Types, Network PROVE Types'
<1>0. /\ events \in Seq(EventNames)
      /\ \A x \in EventNames : Append(events, x) \in Seq(EventNames)
      BY DEF Types
<1>1. CASE Associate  BY <1>1 DEF Associate, NetworkOnly, Types, Radios, flags, joining, history
<1>2. CASE Lease
  <2>1. events' \in Seq(EventNames)  BY <1>0, <1>2 DEF Lease, Post, EventNames
  <2>2. QED  BY <1>2, <2>1 DEF Lease, NetworkOnly, Types, Radios, flags, joining, history
<1>3. CASE LinkLost
  <2>1. events' \in Seq(EventNames)  BY <1>0, <1>3, DisconnectIs DEF LinkLost, EventNames
  <2>2. radio' \in Radios  BY <1>3, DisconnectTypes DEF LinkLost
  <2>3. raced' \in BOOLEAN  BY <1>3 DEF LinkLost
  <2>4. QED  BY <1>3, <2>1, <2>2, <2>3 DEF LinkLost, Types, flags, joining
<1>4. CASE Move  BY <1>4 DEF Move, Types, flags, joining, history
<1>5. CASE StationJoins
  <2>1. events' \in Seq(EventNames)  BY <1>0, <1>5 DEF StationJoins, Post, EventNames
  <2>2. radio' \in Radios  BY <1>5 DEF StationJoins, Types, Radios
  <2>3. QED  BY <1>5, <2>1, <2>2 DEF StationJoins, NetworkOnly, Types, flags, joining, history
<1>6. CASE StationLeaves
  <2>1. events' \in Seq(EventNames)  BY <1>0, <1>6 DEF StationLeaves, Post, EventNames
  <2>2. radio' \in Radios  BY <1>6 DEF StationLeaves, Types, Radios
  <2>3. QED  BY <1>6, <2>1, <2>2 DEF StationLeaves, NetworkOnly, Types, flags, joining, history
<1>7. QED  BY <1>1, <1>2, <1>3, <1>4, <1>5, <1>6 DEF Network, Driver

LEMMA EventTypes == ASSUME Types, Event PROVE Types'
<1>1. Tail(events) \in Seq(EventNames)  BY DEF Types, Event
<1>2. /\ state' \in {"off", "init", "ap", "sta"} /\ leased' \in BOOLEAN /\ clients' \in Nat
  <2>1. CASE OnApStart  BY <2>1 DEF OnApStart, Types
  <2>2. CASE OnStaConnected  BY <2>2 DEF OnStaConnected, Types
  <2>3. CASE OnStaDisconnected  BY <2>3 DEF OnStaDisconnected, Types
  <2>4. CASE OnLost  BY <2>4 DEF OnLost, Types
  <2>5. CASE OnGotIp  BY <2>5 DEF OnGotIp, Types
  <2>6. QED  BY <2>1, <2>2, <2>3, <2>4, <2>5 DEF Event
<1>3. QED  BY <1>1, <1>2 DEF Event, Types, flags, history

LEMMA ManagerTypes == ASSUME Types, Manager PROVE Types'
<1> USE DEF MgrOnly, flags, joining
<1>0. /\ \A x \in EventNames : Append(events, x) \in Seq(EventNames)
      /\ "mgr" \in Tasks /\ BringingUp \cap Running = {}
      BY WhatThereIs DEF Types, BringingUp, Running
<1>1. CASE BringUpFails  BY <1>1 DEF BringUpFails, Types
<1>2. CASE InitRadio  BY <1>2 DEF InitRadio, Types, BringingUp
<1>3. CASE LoadCreds
  <2>1. creds' \in AnyCreds /\ held'["mgr"] \in Switches /\ held' \in [Tasks -> Held]
        BY <1>0, <1>3 DEF LoadCreds, Types, AnyCreds, Switches, Held
  <2>2. QED  BY <1>3, <2>1 DEF LoadCreds, Types, BringingUp
<1>4. CASE LoadFlags
  <2>1. staOn' \in BOOLEAN /\ apOn' \in BOOLEAN  BY <1>4 DEF LoadFlags, Types, Switches
  <2>2. held' \in [Tasks -> Held]  BY <1>0, <1>4, WhatThereIs DEF LoadFlags, Types, Held
  <2>3. QED  BY <1>4, <2>1, <2>2 DEF LoadFlags, Types, BringingUp
<1>5. CASE BringUpRead
  <2>1. held' \in [Tasks -> Held] /\ want' \in BOOLEAN
        BY <1>0, <1>5 DEF BringUpRead, ReadCreds, Types, Held
  <2>2. QED  BY <1>5, <2>1 DEF BringUpRead, Types, BringingUp
<1>6. CASE BringUpConfig
  <2>1. held' \in [Tasks -> Held]  BY <1>0, <1>6, WhatThereIs DEF BringUpConfig, SetConfig, Types, Held
  <2>2. radio' = [radio EXCEPT !.cfg = held["mgr"]] /\ held["mgr"] \in Held
        BY <1>0, <1>6 DEF BringUpConfig, SetConfig, Types
  <2>3. QED  BY <1>6, <2>1, <2>2 DEF BringUpConfig, Types, Radios, BringingUp
<1>7. CASE Narrow
  <2>1. PICK m \in {"sta", "apsta"} : SetMode(m)  BY <1>7 DEF Narrow
  <2>2. events' \in Seq(EventNames)  BY <1>0, <2>1, SetModeIs DEF EventNames, Types
  <2>3. radio' \in Radios  BY <2>1, SetModeIs
  <2>4. QED  BY <1>7, <2>2, <2>3 DEF Narrow, Types, BringingUp
<1>8. CASE StartRadio
  <2>1. events' \in Seq(EventNames)  BY <1>0, <1>8 DEF StartRadio, Post, EventNames, Types
  <2>2. QED  BY <1>8, <2>1 DEF StartRadio, Types, Radios, Running
<1>9. CASE Check  BY <1>9 DEF Check, Types, Running
<1>10. CASE Join
  <2>1. radio' \in Radios  BY <1>10, ConnectTypes DEF Join, Types
  <2>2. raced' \in BOOLEAN  BY <1>10 DEF Join
  <2>3. QED  BY <1>10, <2>1, <2>2 DEF Join, Types, Running
<1>11. CASE Notified  BY <1>11 DEF Notified, Types, Running
<1>12. CASE Slice  BY <1>12 DEF Slice, Types, Running
<1>13. QED  BY <1>1, <1>2, <1>3, <1>4, <1>5, <1>6, <1>7, <1>8, <1>9, <1>10, <1>11, <1>12
            DEF Manager, BringUp

(* A command goes on, or ends.                                             *)
LEMMA GotoTypes ==
  ASSUME Types, NEW u \in Users,
         (\E p \in Places : Goto(u, p)) \/ cmd' = [cmd EXCEPT ![u] = Idle]
         \/ \E p \in Places, on \in BOOLEAN, c \in AnyCreds :
               cmd' = [cmd EXCEPT ![u] = [at |-> p, on |-> on, new |-> c]]
  PROVE  cmd' \in [Users -> [at : Places, on : BOOLEAN, new : AnyCreds]]
<1>1. Idle \in [at : Places, on : BOOLEAN, new : AnyCreds]
      BY WhatThereIs DEF Idle, Places
<1>2. CASE \E p \in Places : Goto(u, p)  BY <1>2 DEF Goto, Types
<1>3. CASE cmd' = [cmd EXCEPT ![u] = Idle]  BY <1>1, <1>3 DEF Types
<1>4. CASE \E p \in Places, on \in BOOLEAN, c \in AnyCreds :
             cmd' = [cmd EXCEPT ![u] = [at |-> p, on |-> on, new |-> c]]
      BY <1>4 DEF Types
<1>5. QED  BY <1>2, <1>3, <1>4

LEMMA UserTypes == ASSUME Types, NEW u \in Users, User(u) PROVE Types'
<1> USE DEF UserOnly, flags, history
<1>0. /\ \A x \in EventNames : Append(events, x) \in Seq(EventNames)
      /\ u \in Tasks /\ u # "mgr" /\ None \in Held /\ creds \in Held
      BY WhatThereIs DEF Types, Held
<1>1. CASE StaCommand(u)
  <2>1. PICK c \in Given : Begin(u, "ssid", FALSE, c)  BY <1>1 DEF StaCommand
  <2>2. cmd' \in [Users -> [at : Places, on : BOOLEAN, new : AnyCreds]]
        BY <2>1, GotoTypes, WhatThereIs DEF Begin, Places
  <2>3. QED  BY <2>1, <2>2 DEF Begin, Types
<1>2. CASE StaSwitch(u)
  <2>1. PICK on \in BOOLEAN : Begin(u, "staflag", on, None)  BY <1>2 DEF StaSwitch
  <2>2. cmd' \in [Users -> [at : Places, on : BOOLEAN, new : AnyCreds]]
        BY <2>1, GotoTypes, WhatThereIs DEF Begin, Places
  <2>3. QED  BY <2>1, <2>2 DEF Begin, Types
<1>3. CASE ApSwitch(u)
  <2>1. PICK on \in BOOLEAN : Begin(u, "mode", on, None)  BY <1>3 DEF ApSwitch
  <2>2. cmd' \in [Users -> [at : Places, on : BOOLEAN, new : AnyCreds]]
        BY <2>1, GotoTypes, WhatThereIs DEF Begin, Places
  <2>3. QED  BY <2>1, <2>2 DEF Begin, Types
<1>4. CASE StoreFails(u)
  <2>1. cmd' \in [Users -> [at : Places, on : BOOLEAN, new : AnyCreds]]
        BY <1>4, GotoTypes DEF StoreFails, End
  <2>2. QED  BY <1>4, <2>1 DEF StoreFails, End, Types
<1>5. CASE StoreSsid(u)
  <2>1. cmd' \in [Users -> [at : Places, on : BOOLEAN, new : AnyCreds]]
        BY <1>5, GotoTypes DEF StoreSsid, Places
  <2>2. cmd[u].new.ssid \in Nat  BY DEF Types, AnyCreds
  <2>3. QED  BY <1>5, <2>1, <2>2 DEF StoreSsid, Types
<1>6. CASE StorePass(u)
  <2>1. cmd' \in [Users -> [at : Places, on : BOOLEAN, new : AnyCreds]]
        BY <1>6, GotoTypes DEF StorePass, Places
  <2>2. cmd[u].new.pass \in BOOLEAN  BY DEF Types, AnyCreds
  <2>3. QED  BY <1>6, <2>1, <2>2 DEF StorePass, Types
<1>7. CASE CopyCreds(u)
  <2>1. cmd' \in [Users -> [at : Places, on : BOOLEAN, new : AnyCreds]]
        BY <1>7, GotoTypes DEF CopyCreds, Places
  <2>2. creds' \in AnyCreds  BY <1>7 DEF CopyCreds, Types
  <2>3. QED  BY <1>7, <2>1, <2>2 DEF CopyCreds, Types
<1>8. CASE Drop(u)
  <2>1. cmd' \in [Users -> [at : Places, on : BOOLEAN, new : AnyCreds]]
        BY <1>8, GotoTypes DEF Drop, Places
  <2>2. events' \in Seq(EventNames)  BY <1>0, <1>8, DisconnectIs DEF Drop, EventNames, Types
  <2>3. radio' \in Radios  BY <1>8, DisconnectTypes DEF Drop
  <2>4. raced' \in BOOLEAN  BY <1>8 DEF Drop
  <2>5. QED  BY <1>8, <2>1, <2>2, <2>3, <2>4 DEF Drop, Types
<1>9. CASE ApplyRead(u)
  <2>1. cmd' \in [Users -> [at : Places, on : BOOLEAN, new : AnyCreds]]
        BY <1>9, GotoTypes DEF ApplyRead, Places
  <2>2. held' \in [Tasks -> Held] /\ held'["mgr"] = held["mgr"] /\ want' \in BOOLEAN
        BY <1>0, <1>9, WhatThereIs DEF ApplyRead, ReadCreds, Types
  <2>3. QED  BY <1>9, <2>1, <2>2 DEF ApplyRead, Types
<1>10. CASE ApplyConfig(u)
  <2>1. cmd' \in [Users -> [at : Places, on : BOOLEAN, new : AnyCreds]]
        BY <1>10, GotoTypes DEF ApplyConfig, End
  <2>2. held' \in [Tasks -> Held] /\ held'["mgr"] = held["mgr"]
    <3>1. held' = [held EXCEPT ![u] = None]  BY <1>10 DEF ApplyConfig, SetConfig
    <3>2. QED  BY <1>0, <3>1 DEF Types
  <2>3. radio' = radio \/ radio' = [radio EXCEPT !.cfg = held[u]]
        BY <1>10 DEF ApplyConfig, SetConfig
  <2>4. held[u] \in Held /\ failed' \subseteq {"creds", "sta", "ap"}
        BY <1>0, <1>10 DEF ApplyConfig, End, Types
  <2>5. QED  BY <1>10, <2>1, <2>2, <2>3, <2>4 DEF ApplyConfig, Types, Radios
<1>11. CASE StaFlag(u)
  <2>1. cmd' \in [Users -> [at : Places, on : BOOLEAN, new : AnyCreds]]
        BY <1>11, GotoTypes DEF StaFlag, Places
  <2>2. /\ nvs' \in [ssid : Nat, pass : BOOLEAN, sta : BOOLEAN, ap : BOOLEAN]
        /\ failed' \subseteq {"creds", "sta", "ap"}
        BY <1>11 DEF StaFlag, StoreFlag, Types
  <2>3. QED  BY <1>11, <2>1, <2>2 DEF StaFlag, Types
<1>12. CASE Switch(u)
  <2>1. cmd' \in [Users -> [at : Places, on : BOOLEAN, new : AnyCreds]]
        BY <1>12, GotoTypes DEF Switch, Places
  <2>2. staOn' \in BOOLEAN  BY <1>12 DEF Switch, Types
  <2>3. QED  BY <1>12, <2>1, <2>2 DEF Switch, Types
<1>13. CASE SwitchDrops(u)
  <2>1. cmd' \in [Users -> [at : Places, on : BOOLEAN, new : AnyCreds]]
        BY <1>13, GotoTypes DEF SwitchDrops
  <2>2. events' \in Seq(EventNames)  BY <1>0, <1>13, DisconnectIs DEF SwitchDrops, EventNames, Types
  <2>3. radio' \in Radios  BY <1>13, DisconnectTypes DEF SwitchDrops
  <2>4. raced' \in BOOLEAN  BY <1>13 DEF SwitchDrops
  <2>5. QED  BY <1>13, <2>1, <2>2, <2>3, <2>4 DEF SwitchDrops, Types
<1>14. CASE SwitchWakes(u)
  <2>1. cmd' \in [Users -> [at : Places, on : BOOLEAN, new : AnyCreds]]
        BY <1>14, GotoTypes DEF SwitchWakes
  <2>2. QED  BY <1>14, <2>1 DEF SwitchWakes, Types
<1>15. CASE ApRefused(u)
  <2>1. cmd' \in [Users -> [at : Places, on : BOOLEAN, new : AnyCreds]]
        BY <1>15, GotoTypes DEF ApRefused
  <2>2. QED  BY <1>15, <2>1 DEF ApRefused, Types
<1>16. CASE ApMode(u)
  <2>1. cmd' \in [Users -> [at : Places, on : BOOLEAN, new : AnyCreds]]
        BY <1>16, GotoTypes DEF ApMode, Places
  <2>2. PICK m \in {"sta", "apsta"} : SetMode(m)  BY <1>16 DEF ApMode
  <2>3. events' \in Seq(EventNames)  BY <1>0, <2>2, SetModeIs DEF EventNames, Types
  <2>4. radio' \in Radios  BY <2>2, SetModeIs
  <2>5. QED  BY <1>16, <2>1, <2>3, <2>4 DEF ApMode, Types
<1>17. CASE ApSet(u)
  <2>1. cmd' \in [Users -> [at : Places, on : BOOLEAN, new : AnyCreds]]
        BY <1>17, GotoTypes DEF ApSet, Places
  <2>2. apOn' \in BOOLEAN /\ clients' \in Nat  BY <1>17 DEF ApSet, Types
  <2>3. QED  BY <1>17, <2>1, <2>2 DEF ApSet, Types
<1>18. CASE ApFlag(u)
  <2>1. cmd' \in [Users -> [at : Places, on : BOOLEAN, new : AnyCreds]]
        BY <1>18, GotoTypes DEF ApFlag
  <2>2. /\ nvs' \in [ssid : Nat, pass : BOOLEAN, sta : BOOLEAN, ap : BOOLEAN]
        /\ failed' \subseteq {"creds", "sta", "ap"}
        BY <1>18 DEF ApFlag, StoreFlag, Types
  <2>3. QED  BY <1>18, <2>1, <2>2 DEF ApFlag, Types
<1>19. QED  BY <1>1, <1>2, <1>3, <1>4, <1>5, <1>6, <1>7, <1>8, <1>9, <1>10, <1>11, <1>12,
               <1>13, <1>14, <1>15, <1>16, <1>17, <1>18
            DEF User, SetSta, SetStaEnabled, SetApEnabled

(* Every step keeps a silent radio silent and what is told of a link true. *)
LEMMA LinkElsewhere ==
  ASSUME LinkInv,
         /\ UNCHANGED <<state, leased, clients, events>>
         /\ mgr' = mgr \/ (mgr \in BringingUp /\ mgr' \in BringingUp)
            \/ (mgr \in Running /\ mgr' \in Running)
         /\ radio'.started = radio.started /\ radio'.assoc = radio.assoc
         /\ (radio'.link = "idle" <=> radio.link = "idle")
            \/ mgr \in Running
         /\ (radio'.link = "leased") = (radio.link = "leased")
  PROVE  Silent' /\ LinkTold'
<1>1. Silent'  BY DEF LinkInv, Silent, BringingUp, Running
<1>2. LinkTold'
  <2>1. Tells(events, leased, radio.link = "leased")  BY DEF LinkInv, LinkTold
  <2>2. Tells(events', leased', radio'.link = "leased")  BY <2>1
  <2>3. QED  BY <2>2 DEF LinkInv, LinkTold
<1>3. QED  BY <1>1, <1>2

(* The driver drops the link, or has nothing to drop.                      *)
LEMMA DisconnectTold ==
  ASSUME LinkInv, Disconnect, UNCHANGED <<state, leased, clients, mgr>>
  PROVE  Silent' /\ LinkTold'
<1>0. Types /\ Silent /\ LinkTold  BY DEF LinkInv
<1>1. /\ radio'.link = "idle" /\ radio'.started = radio.started /\ radio'.assoc = radio.assoc
      /\ radio.link = "idle" => events' = events /\ radio' = radio
      /\ radio.link # "idle" => events' = Append(events, "lost")
      BY <1>0, DisconnectIs DEF Types, Radios
<1>2. CASE radio.link = "idle"
  <2>1. events' = events /\ radio' = radio  BY <1>1, <1>2
  <2>2. QED  BY <2>1, LinkElsewhere
<1>3. CASE radio.link # "idle"
  <2>1. Silent'  BY <1>0, <1>1, <1>3 DEF Silent
  <2>2. Tells(Append(events, "lost"), leased, FALSE)  BY <1>0, TellsLast DEF Types
  <2>3. (radio'.link = "leased") = FALSE /\ events' = Append(events, "lost")  BY <1>1, <1>3
  <2>4. Tells(events', leased', radio'.link = "leased")  BY <2>2, <2>3
  <2>5. QED  BY <1>0, <2>1, <2>4 DEF LinkTold
<1>4. QED  BY <1>2, <1>3

(* Something that is not about the link is posted while the radio runs.    *)
LEMMA PostTold ==
  ASSUME LinkInv, NEW x \in EventNames \ {"lost", "ip"}, events' = Append(events, x),
         mgr' \in Running, UNCHANGED <<state, leased>>, radio'.link = radio.link
  PROVE  Silent' /\ LinkTold'
<1>0. Types /\ Silent /\ LinkTold  BY DEF LinkInv
<1>1. Silent'  BY <1>0 DEF Silent, Running, BringingUp
<1>2. leased \in BOOLEAN /\ (radio.link = "leased") \in BOOLEAN /\ events \in Seq(EventNames)
      BY <1>0 DEF Types
<1>3. Tells(events, leased, radio.link = "leased")  BY <1>0 DEF LinkTold
<1>4. Tells(Append(events, x), leased, radio.link = "leased")  BY <1>2, <1>3, TellsOther
<1>5. Tells(events', leased', radio'.link = "leased")  BY <1>4
<1>6. QED  BY <1>0, <1>1, <1>5 DEF LinkTold

LEMMA NetworkLink == ASSUME LinkInv, Network PROVE LinkInv'
<1>0. Types /\ Silent /\ LinkTold  BY DEF LinkInv
<1>t. Types'  BY <1>0, NetworkTypes
<1>1. CASE Associate
  <2>1. /\ mgr' = mgr /\ UNCHANGED <<state, leased, clients, events>>
        /\ radio'.started = radio.started /\ radio'.assoc = radio.assoc
        /\ radio'.link = "up" /\ radio.link = "joining"
        BY <1>0, <1>1 DEF Associate, NetworkOnly, Types, Radios
  <2>2. (radio'.link = "leased") = (radio.link = "leased")  BY <2>1
  <2>3. QED  BY <1>t, <2>1, <2>2, LinkElsewhere DEF LinkInv
<1>2. CASE Lease
  <2>1. /\ mgr' = mgr /\ UNCHANGED <<state, leased, clients>> /\ events' = Append(events, "ip")
        /\ radio'.link = "leased" /\ radio.link = "up"
        BY <1>0, <1>2 DEF Lease, NetworkOnly, Types, Radios, Post
  <2>2. Silent'  BY <1>0, <2>1 DEF Silent
  <2>3. Tells(Append(events, "ip"), leased, TRUE)  BY <1>0, TellsLast DEF Types
  <2>4. (radio'.link = "leased") = TRUE  BY <2>1
  <2>5. Tells(events', leased', radio'.link = "leased")  BY <2>1, <2>3, <2>4
  <2>6. QED  BY <1>0, <1>t, <2>1, <2>2, <2>5 DEF LinkTold, LinkInv
<1>3. CASE LinkLost
  <2>1. Disconnect /\ UNCHANGED <<state, leased, clients, mgr>>
        BY <1>3 DEF LinkLost
  <2>2. QED  BY <1>t, <2>1, DisconnectTold DEF LinkInv
<1>4. CASE Move
  <2>1. UNCHANGED <<state, leased, clients, mgr, radio, events>>  BY <1>4 DEF Move
  <2>2. QED  BY <1>t, <2>1, LinkElsewhere DEF LinkInv
<1>5. CASE StationJoins
  <2>1. /\ UNCHANGED <<state, leased, mgr>> /\ events' = Append(events, "joined")
        /\ radio'.link = radio.link /\ radio.started
        BY <1>0, <1>5 DEF StationJoins, NetworkOnly, Types, Radios, Post
  <2>2. mgr' \in Running /\ "joined" \in EventNames \ {"lost", "ip"}
        BY <1>0, <2>1 DEF Silent, EventNames
  <2>3. QED  BY <1>t, <2>1, <2>2, PostTold DEF LinkInv
<1>6. CASE StationLeaves
  <2>1. /\ UNCHANGED <<state, leased, mgr>> /\ events' = Append(events, "left")
        /\ radio'.link = radio.link /\ radio.assoc > 0
        BY <1>0, <1>6 DEF StationLeaves, NetworkOnly, Types, Radios, Post
  <2>2. mgr' \in Running /\ "left" \in EventNames \ {"lost", "ip"}
        BY <1>0, <2>1 DEF Silent, EventNames
  <2>3. QED  BY <1>t, <2>1, <2>2, PostTold DEF LinkInv
<1>7. QED  BY <1>1, <1>2, <1>3, <1>4, <1>5, <1>6 DEF Network, Driver

LEMMA EventLink == ASSUME LinkInv, Event PROVE LinkInv'
<1>0. Types /\ Silent /\ LinkTold  BY DEF LinkInv
<1>1. Types'  BY <1>0, EventTypes
<1>2. /\ events # <<>> /\ events' = Tail(events) /\ UNCHANGED <<mgr, radio>>
      BY DEF Event
<1>3. mgr' \in Running  BY <1>0, <1>2 DEF Silent
<1>4. Silent'  BY <1>3 DEF Silent, Running, BringingUp
<1>5. /\ leased \in BOOLEAN /\ (radio.link = "leased") \in BOOLEAN /\ events \in Seq(EventNames)
      /\ Tells(events, leased, radio.link = "leased")
      BY <1>0 DEF Types, LinkTold
<1>6. /\ Head(events) = "ip" => Tells(events', TRUE, radio.link = "leased")
      /\ Head(events) = "lost" => Tells(events', FALSE, radio.link = "leased")
      /\ Head(events) \notin {"lost", "ip"} => Tells(events', leased, radio.link = "leased")
      BY <1>2, <1>5, TellsTail
<1>7. LinkTold'
  <2>1. CASE OnApStart
    <3>1. Head(events) \notin {"lost", "ip"} /\ leased' = leased /\ (state' = "sta" <=> state = "sta")
          BY <2>1 DEF OnApStart
    <3>2. QED  BY <1>0, <1>2, <1>6, <3>1 DEF LinkTold
  <2>2. CASE OnStaConnected
    <3>1. Head(events) \notin {"lost", "ip"} /\ leased' = leased /\ state' = state
          BY <2>2 DEF OnStaConnected
    <3>2. QED  BY <1>0, <1>2, <1>6, <3>1 DEF LinkTold
  <2>3. CASE OnStaDisconnected
    <3>1. Head(events) \notin {"lost", "ip"} /\ leased' = leased /\ state' = state
          BY <2>3 DEF OnStaDisconnected
    <3>2. QED  BY <1>0, <1>2, <1>6, <3>1 DEF LinkTold
  <2>4. CASE OnLost
    <3>1. Head(events) = "lost" /\ leased' = FALSE /\ state' # "sta"  BY <2>4 DEF OnLost
    <3>2. QED  BY <1>2, <1>6, <3>1 DEF LinkTold
  <2>5. CASE OnGotIp
    <3>1. Head(events) = "ip" /\ leased' = TRUE /\ state' = "sta"  BY <2>5 DEF OnGotIp
    <3>2. QED  BY <1>2, <1>6, <3>1 DEF LinkTold
  <2>6. QED  BY <2>1, <2>2, <2>3, <2>4, <2>5 DEF Event
<1>8. QED  BY <1>1, <1>4, <1>7 DEF LinkInv

LEMMA ManagerLink == ASSUME LinkInv, Manager PROVE LinkInv'
<1> USE DEF MgrOnly, flags, joining
<1>0. Types /\ Silent /\ LinkTold  BY DEF LinkInv
<1>t. Types'  BY <1>0, ManagerTypes
<1>1. CASE BringUpFails
  <2>1. /\ mgr \in BringingUp /\ mgr' = "gone" /\ state' = "off"
        /\ UNCHANGED <<leased, radio, events, clients>>
        BY <1>1 DEF BringUpFails, BringingUp
  <2>2. Silent' /\ state # "sta"  BY <1>0, <2>1 DEF Silent, BringingUp, Running
  <2>3. LinkTold'  BY <1>0, <2>1, <2>2 DEF LinkTold
  <2>4. QED  BY <1>t, <2>2, <2>3 DEF LinkInv
<1>2. CASE InitRadio \/ LoadCreds \/ LoadFlags \/ BringUpRead
  <2>1. /\ UNCHANGED <<state, leased, clients, events, radio>>
        /\ mgr \in BringingUp /\ mgr' \in BringingUp
        BY <1>2 DEF InitRadio, LoadCreds, LoadFlags, BringUpRead, BringingUp
  <2>2. QED  BY <1>t, <2>1, LinkElsewhere DEF LinkInv
<1>3. CASE BringUpConfig
  <2>1. /\ UNCHANGED <<state, leased, clients, events>>
        /\ mgr \in BringingUp /\ mgr' \in BringingUp
        /\ radio'.started = radio.started /\ radio'.assoc = radio.assoc /\ radio'.link = radio.link
        BY <1>0, <1>3 DEF BringUpConfig, SetConfig, BringingUp, Types, Radios
  <2>2. QED  BY <1>t, <2>1, LinkElsewhere DEF LinkInv
<1>4. CASE Narrow
  <2>1. PICK m \in {"sta", "apsta"} : SetMode(m)  BY <1>4 DEF Narrow
  <2>2. mgr = "narrow" /\ mgr' = "start" /\ UNCHANGED <<state, leased, clients>>
        BY <1>4 DEF Narrow
  <2>3. ~radio.started /\ radio.assoc = 0  BY <1>0, <2>2 DEF Silent, Running
  <2>4. /\ events' = events /\ radio'.started = radio.started /\ radio'.link = radio.link
        /\ radio'.assoc = radio.assoc
        BY <1>0, <2>1, <2>3, SetModeIs
  <2>5. QED  BY <1>t, <2>2, <2>4, LinkElsewhere DEF LinkInv, BringingUp
<1>5. CASE StartRadio
  <2>1. /\ mgr = "start" /\ mgr' = "check" /\ UNCHANGED <<state, leased, clients>>
        /\ events' = events \/ events' = Append(events, "ap_start")
        /\ radio'.link = radio.link
        BY <1>0, <1>5 DEF StartRadio, Post, Types, Radios
  <2>2. mgr' \in Running  BY <2>1 DEF Running
  <2>3. CASE events' = events
    <3>1. Silent'  BY <2>1, <2>2, <1>0 DEF Silent, Running, BringingUp
    <3>2. LinkTold'  BY <1>0, <2>1, <2>3 DEF LinkTold
    <3>3. QED  BY <1>t, <3>1, <3>2 DEF LinkInv
  <2>4. CASE events' = Append(events, "ap_start")
    <3>1. "ap_start" \in EventNames \ {"lost", "ip"}  BY DEF EventNames
    <3>2. QED  BY <1>t, <2>1, <2>2, <2>4, <3>1, PostTold DEF LinkInv
  <2>5. QED  BY <2>1, <2>3, <2>4
<1>6. CASE Check \/ Notified \/ Slice
  <2>1. /\ UNCHANGED <<state, leased, clients, events, radio>>
        /\ mgr \in Running /\ mgr' \in Running
        BY <1>6 DEF Check, Notified, Slice, Running
  <2>2. QED  BY <1>t, <2>1, LinkElsewhere DEF LinkInv
<1>7. CASE Join
  <2>1. /\ UNCHANGED <<state, leased, clients, events>> /\ Connect
        /\ mgr \in Running /\ mgr' \in Running
        BY <1>7 DEF Join, Running
  <2>2. /\ radio'.started = radio.started /\ radio'.assoc = radio.assoc
        BY <1>0, <2>1, ConnectIs DEF Types, Radios
  <2>3. (radio'.link = "leased") = (radio.link = "leased")  BY <1>0, <2>1, ConnectIs
  <2>4. QED  BY <1>t, <2>1, <2>2, <2>3, LinkElsewhere DEF LinkInv
<1>8. QED  BY <1>1, <1>2, <1>3, <1>4, <1>5, <1>6, <1>7 DEF Manager, BringUp

LEMMA UserLink == ASSUME LinkInv, NEW u \in Users, User(u) PROVE LinkInv'
<1> USE DEF UserOnly, flags, history
<1>0. Types /\ Silent /\ LinkTold  BY DEF LinkInv
<1>t. Types'  BY <1>0, UserTypes
<1>1. CASE StaCommand(u) \/ StaSwitch(u) \/ ApSwitch(u)
  <2>1. UNCHANGED <<state, leased, clients, events, radio, mgr>>
        BY <1>1 DEF StaCommand, StaSwitch, ApSwitch, Begin
  <2>2. QED  BY <1>t, <2>1, LinkElsewhere DEF LinkInv
<1>2. CASE StoreFails(u) \/ StoreSsid(u) \/ StorePass(u) \/ CopyCreds(u) \/ ApplyRead(u)
  <2>1. UNCHANGED <<state, leased, clients, events, radio, mgr>>
        BY <1>2 DEF StoreFails, StoreSsid, StorePass, CopyCreds, ApplyRead
  <2>2. QED  BY <1>t, <2>1, LinkElsewhere DEF LinkInv
<1>3. CASE Drop(u) \/ SwitchDrops(u)
  <2>1. Disconnect /\ UNCHANGED <<state, leased, clients, mgr>>
        BY <1>3 DEF Drop, SwitchDrops
  <2>2. QED  BY <1>t, <2>1, DisconnectTold DEF LinkInv
<1>4. CASE ApplyConfig(u)
  <2>1. UNCHANGED <<state, leased, clients, events, mgr>>  BY <1>4 DEF ApplyConfig
  <2>2. radio' = radio \/ radio' = [radio EXCEPT !.cfg = held[u]]
        BY <1>4 DEF ApplyConfig, SetConfig
  <2>3. radio'.started = radio.started /\ radio'.assoc = radio.assoc /\ radio'.link = radio.link
        BY <1>0, <2>2 DEF Types, Radios
  <2>4. QED  BY <1>t, <2>1, <2>3, LinkElsewhere DEF LinkInv
<1>5. CASE StaFlag(u) \/ Switch(u) \/ SwitchWakes(u)
  <2>1. UNCHANGED <<state, leased, clients, events, radio, mgr>>
        BY <1>5 DEF StaFlag, Switch, SwitchWakes
  <2>2. QED  BY <1>t, <2>1, LinkElsewhere DEF LinkInv
<1>6. CASE ApRefused(u) \/ ApFlag(u)
  <2>1. UNCHANGED <<state, leased, clients, events, radio, mgr>>
        BY <1>6 DEF ApRefused, ApFlag
  <2>2. QED  BY <1>t, <2>1, LinkElsewhere DEF LinkInv
<1>7. CASE ApMode(u)
  <2>1. PICK m \in {"sta", "apsta"} : SetMode(m)  BY <1>7 DEF ApMode
  <2>2. UNCHANGED <<state, leased, clients, mgr>> /\ state \notin {"off", "init"}
        BY <1>7 DEF ApMode, TooEarly
  <2>3. mgr' \in Running  BY <1>0, <2>2 DEF Silent, Types
  <2>4. CASE events' = events
    <3>1. Silent'  BY <2>3 DEF Silent, Running, BringingUp
    <3>2. radio'.link = radio.link  BY <1>0, <2>1, SetModeIs
    <3>3. LinkTold'  BY <1>0, <2>2, <2>4, <3>2 DEF LinkTold
    <3>4. QED  BY <1>t, <3>1, <3>3 DEF LinkInv
  <2>5. CASE events' = Append(events, "ap_start")
    <3>1. "ap_start" \in EventNames \ {"lost", "ip"}  BY DEF EventNames
    <3>2. radio'.link = radio.link  BY <1>0, <2>1, SetModeIs
    <3>3. QED  BY <1>t, <2>2, <2>3, <2>5, <3>1, <3>2, PostTold DEF LinkInv
  <2>6. QED  BY <1>0, <2>1, <2>4, <2>5, SetModeIs
<1>8. CASE ApSet(u)
  <2>1. UNCHANGED <<state, leased, events, radio, mgr>>
        /\ clients' = (IF cmd[u].on THEN clients ELSE 0)
        BY <1>8 DEF ApSet
  <2>2. Silent' /\ LinkTold'  BY <1>0, <2>1 DEF Silent, LinkTold
  <2>3. QED  BY <1>t, <2>2 DEF LinkInv
<1>9. QED  BY <1>1, <1>2, <1>3, <1>4, <1>5, <1>6, <1>7, <1>8
           DEF User, SetSta, SetStaEnabled, SetApEnabled

LEMMA LinkInvNext == ASSUME LinkInv, [Next]_vars PROVE LinkInv'
<1>1. CASE UNCHANGED vars
  BY <1>1 DEF LinkInv, Types, Silent, LinkTold, vars, flags, joining, history
<1>2. CASE Next
  BY <1>2, NetworkLink, EventLink, ManagerLink, UserLink, FreshLink DEF Next, LinkInv
<1>3. QED  BY <1>1, <1>2

(* The inductive invariant: types, the silent radio, and that the queued   *)
(* events end with the truth about the link.                               *)
THEOREM LinkInvariant == Spec => []LinkInv
  BY FreshLink, LinkInvNext, PTL DEF Spec

(* Once the events are handled the state says "joined" exactly while there *)
(* is a lease (event handlers of net_wifi.c), however many tasks give      *)
(* commands and whenever they do.                                          *)
THEOREM StateTrue == Spec => []StateTellsLink
<1>1. LinkInv => StateTellsLink
  <2> SUFFICES ASSUME LinkInv, events = <<>>
               PROVE  (state = "sta" <=> radio.link = "leased") /\ (leased <=> state = "sta")
      BY DEF StateTellsLink
  <2>1. /\ leased \in BOOLEAN /\ (radio.link = "leased") \in BOOLEAN
        /\ state = "sta" <=> leased
        /\ Tells(<<>>, leased, radio.link = "leased")
        BY DEF LinkInv, LinkTold, Types
  <2>2. leased = (radio.link = "leased")  BY <2>1, NothingToTell
  <2>3. QED  BY <2>1, <2>2
<1>2. QED  BY <1>1, LinkInvariant, PTL

-----------------------------------------------------------------------------
(* Nobody on the SoftAP is missed                                          *)

(* What leaves the stations alone.                                         *)
LEMMA CountElsewhere ==
  ASSUME CountInv, Types',
         UNCHANGED <<clients, events>>,
         radio'.assoc = radio.assoc, radio'.mode = radio.mode,
         mgr \in Running => mgr' \in Running,
         \A v \in Users : cmd'[v].at = "apset" => cmd[v].at = "apset" /\ cmd'[v].on = cmd[v].on
  PROVE  Counted'
<1>1. Counts(events, clients, radio.assoc)  BY DEF CountInv, Counted
<1>2. Counts(events', clients', radio'.assoc)  BY <1>1
<1>3. QED  BY <1>2 DEF CountInv, Counted

(* An event that is about no station joins the queue.                      *)
LEMMA CountPost ==
  ASSUME CountInv, Types', NEW x \in EventNames \ {"joined", "left"},
         events' = Append(events, x), clients' = clients,
         radio'.assoc = radio.assoc, radio'.mode = radio.mode,
         mgr \in Running => mgr' \in Running,
         \A v \in Users : cmd'[v].at = "apset" => cmd[v].at = "apset" /\ cmd'[v].on = cmd[v].on
  PROVE  Counted'
<1>1. Counts(events, clients, radio.assoc)  BY DEF CountInv, Counted
<1>2. events \in Seq(EventNames) /\ clients \in Nat /\ radio.assoc \in Nat
      BY DEF CountInv, LinkInv, Types, Radios
<1>3. After(radio.assoc, x) = radio.assoc  BY DEF After
<1>4. radio.assoc <= After(radio.assoc, x)  BY <1>2, <1>3
<1>5. Counts(Append(events, x), clients, radio.assoc)
      BY <1>1, <1>2, <1>4, CountsAppend
<1>6. Counts(events', clients', radio'.assoc)  BY <1>5
<1>7. QED  BY <1>6 DEF CountInv, Counted

(* The driver drops the link.                                              *)
LEMMA CountDisconnect ==
  ASSUME CountInv, Types', Disconnect, UNCHANGED <<clients, mgr>>,
         \A v \in Users : cmd'[v].at = "apset" => cmd[v].at = "apset" /\ cmd'[v].on = cmd[v].on
  PROVE  Counted'
<1>1. Types  BY DEF CountInv, LinkInv
<1>2. /\ radio'.assoc = radio.assoc /\ radio'.mode = radio.mode
      /\ events' = events \/ events' = Append(events, "lost")
      BY <1>1, DisconnectIs DEF Types, Radios
<1>3. "lost" \in EventNames \ {"joined", "left"}  BY DEF EventNames
<1>4. QED  BY <1>2, <1>3, CountElsewhere, CountPost

(* At power on.                                                            *)
LEMMA FreshCount == (Init => Counted) /\ (Types /\ Reboot => Counted')
<1>1. ASSUME Init PROVE Counted
  <2>1. clients = 0 /\ events = <<>> /\ radio.assoc = 0 /\ \A u \in Users : cmd[u].at = "idle"
        BY <1>1 DEF Init, Off, Idle
  <2>2. Counts(<<>>, 0, 0)  BY NothingToCount
  <2>3. QED  BY <2>1, <2>2 DEF Counted
<1>2. ASSUME Types, Reboot PROVE Counted'
  <2>1. clients' = 0 /\ events' = <<>> /\ radio'.assoc = 0 /\ \A u \in Users : cmd'[u].at = "idle"
        BY <1>2 DEF Reboot, PowerOn, Off, Idle
  <2>2. Counts(<<>>, 0, 0)  BY NothingToCount
  <2>3. QED  BY <2>1, <2>2 DEF Counted
<1>3. QED  BY <1>1, <1>2

LEMMA NetworkCount == ASSUME CountInv, Network PROVE Counted'
<1> USE DEF flags, joining, history
<1>0. LinkInv /\ Types /\ Counted  BY DEF CountInv, LinkInv
<1>t. Types'  BY <1>0, NetworkTypes
<1>n. /\ events \in Seq(EventNames) /\ clients \in Nat /\ radio.assoc \in Nat
      /\ Counts(events, clients, radio.assoc)
      BY <1>0 DEF Types, Radios, Counted
<1>1. CASE Associate
  <2>1. /\ UNCHANGED <<clients, events, mgr, cmd>>
        /\ radio'.assoc = radio.assoc /\ radio'.mode = radio.mode
        BY <1>0, <1>1 DEF Associate, NetworkOnly, Types, Radios
  <2>2. QED  BY <1>t, <2>1, CountElsewhere
<1>2. CASE Lease
  <2>1. /\ UNCHANGED <<clients, mgr, cmd>> /\ events' = Append(events, "ip")
        /\ radio'.assoc = radio.assoc /\ radio'.mode = radio.mode
        BY <1>0, <1>2 DEF Lease, NetworkOnly, Types, Radios, Post
  <2>2. "ip" \in EventNames \ {"joined", "left"}  BY DEF EventNames
  <2>3. QED  BY <1>t, <2>1, <2>2, CountPost
<1>3. CASE LinkLost
  <2>1. Disconnect /\ UNCHANGED <<clients, mgr, cmd>>  BY <1>3 DEF LinkLost
  <2>2. QED  BY <1>t, <2>1, CountDisconnect
<1>4. CASE Move
  <2>1. UNCHANGED <<clients, events, mgr, cmd, radio>>  BY <1>4 DEF Move
  <2>2. QED  BY <1>t, <2>1, CountElsewhere
<1>5. CASE StationJoins
  <2>1. /\ UNCHANGED <<clients, mgr, cmd>> /\ events' = Append(events, "joined")
        /\ radio'.assoc = radio.assoc + 1 /\ radio'.mode = radio.mode /\ radio.mode = "apsta"
        BY <1>0, <1>5 DEF StationJoins, NetworkOnly, Types, Radios, Post
  <2>2. /\ radio.assoc + 1 \in Nat /\ radio.assoc + 1 <= After(radio.assoc, "joined")
        /\ "joined" \in EventNames
        BY <1>n DEF After, EventNames
  <2>3. Counts(Append(events, "joined"), clients, radio.assoc + 1)
        BY <1>n, <2>2, CountsAppend
  <2>4. Counts(events', clients', radio'.assoc)  BY <2>1, <2>3
  <2>5. QED  BY <1>0, <2>1, <2>4 DEF Counted
<1>6. CASE StationLeaves
  <2>1. /\ UNCHANGED <<clients, mgr, cmd>> /\ events' = Append(events, "left")
        /\ radio'.assoc = radio.assoc - 1 /\ radio'.mode = radio.mode /\ radio.assoc > 0
        BY <1>0, <1>6 DEF StationLeaves, NetworkOnly, Types, Radios, Post
  <2>2. /\ radio.assoc - 1 \in Nat /\ radio.assoc - 1 <= After(radio.assoc, "left")
        /\ "left" \in EventNames
        BY <1>n, <2>1 DEF After, EventNames
  <2>3. Counts(Append(events, "left"), clients, radio.assoc - 1)
        BY <1>n, <2>2, CountsAppend
  <2>4. Counts(events', clients', radio'.assoc)  BY <2>1, <2>3
  <2>5. radio.mode = "apsta"  BY <1>0, <1>n, <2>1 DEF Counted
  <2>6. QED  BY <1>0, <2>1, <2>4, <2>5 DEF Counted
<1>7. QED  BY <1>1, <1>2, <1>3, <1>4, <1>5, <1>6 DEF Network, Driver

LEMMA EventCount == ASSUME CountInv, Event PROVE Counted'
<1>0. LinkInv /\ Types /\ Counted  BY DEF CountInv, LinkInv
<1>n. /\ events \in Seq(EventNames) /\ clients \in Nat /\ radio.assoc \in Nat
      /\ Counts(events, clients, radio.assoc)
      BY <1>0 DEF Types, Radios, Counted
<1>1. events # <<>> /\ events' = Tail(events) /\ UNCHANGED <<mgr, radio, cmd>>
      BY DEF Event
<1>2. clients' = After(clients, Head(events))
  <2>1. CASE OnApStart  BY <2>1 DEF OnApStart, After
  <2>2. CASE OnStaConnected  BY <2>2 DEF OnStaConnected, After
  <2>3. CASE OnStaDisconnected  BY <2>3 DEF OnStaDisconnected, After
  <2>4. CASE OnLost  BY <2>4 DEF OnLost, After
  <2>5. CASE OnGotIp  BY <2>5 DEF OnGotIp, After
  <2>6. QED  BY <2>1, <2>2, <2>3, <2>4, <2>5 DEF Event
<1>3. Counts(Tail(events), After(clients, Head(events)), radio.assoc)
      BY <1>n, <1>1, CountsTail
<1>4. Counts(events', clients', radio'.assoc)  BY <1>1, <1>2, <1>3
<1>5. QED  BY <1>0, <1>1, <1>4 DEF Counted

LEMMA ManagerCount == ASSUME CountInv, Manager PROVE Counted'
<1> USE DEF MgrOnly, flags, joining
<1>0. LinkInv /\ Types /\ Silent /\ Counted  BY DEF CountInv, LinkInv
<1>t. Types'  BY <1>0, ManagerTypes
<1>1. CASE BringUpFails
  <2>1. /\ mgr \in BringingUp /\ mgr \notin Running
        /\ UNCHANGED <<radio, events, clients, cmd>>
        BY <1>1 DEF BringUpFails, BringingUp, Running
  <2>2. QED  BY <1>t, <2>1, CountElsewhere
<1>2. CASE InitRadio \/ LoadCreds \/ LoadFlags \/ BringUpRead
  <2>1. UNCHANGED <<clients, events, radio, cmd>> /\ mgr \notin Running
        BY <1>2 DEF InitRadio, LoadCreds, LoadFlags, BringUpRead, Running
  <2>2. QED  BY <1>t, <2>1, CountElsewhere
<1>3. CASE BringUpConfig
  <2>1. /\ UNCHANGED <<clients, events, cmd>> /\ mgr \notin Running
        /\ radio'.assoc = radio.assoc /\ radio'.mode = radio.mode
        BY <1>0, <1>3 DEF BringUpConfig, SetConfig, Running, Types, Radios
  <2>2. QED  BY <1>t, <2>1, CountElsewhere
<1>4. CASE Narrow
  <2>1. PICK m \in {"sta", "apsta"} : SetMode(m)  BY <1>4 DEF Narrow
  <2>2. mgr = "narrow" /\ UNCHANGED <<clients, cmd>>  BY <1>4 DEF Narrow
  <2>3. ~radio.started /\ radio.assoc = 0 /\ mgr \notin Running /\ events = <<>> /\ clients = 0
        BY <1>0, <2>2 DEF Silent, Running
  <2>4. events' = events /\ radio'.assoc = 0  BY <1>0, <2>1, <2>3, SetModeIs
  <2>5. Counts(<<>>, 0, 0)  BY NothingToCount
  <2>6. Counts(events', clients', radio'.assoc)  BY <2>2, <2>3, <2>4, <2>5
  <2>7. \A v \in Users : cmd'[v].at # "apset"  BY <1>0, <2>2, <2>3 DEF Counted
  <2>8. QED  BY <2>4, <2>6, <2>7 DEF Counted
<1>5. CASE StartRadio
  <2>1. /\ UNCHANGED <<clients, cmd>> /\ mgr \notin Running
        /\ events' = events \/ events' = Append(events, "ap_start")
        /\ radio'.assoc = radio.assoc /\ radio'.mode = radio.mode
        BY <1>0, <1>5 DEF StartRadio, Post, Types, Radios, Running
  <2>2. "ap_start" \in EventNames \ {"joined", "left"}  BY DEF EventNames
  <2>3. QED  BY <1>t, <2>1, <2>2, CountElsewhere, CountPost
<1>6. CASE Check \/ Notified \/ Slice
  <2>1. UNCHANGED <<clients, events, radio, cmd>> /\ mgr' \in Running
        BY <1>6 DEF Check, Notified, Slice, Running
  <2>2. QED  BY <1>t, <2>1, CountElsewhere
<1>7. CASE Join
  <2>1. UNCHANGED <<clients, events, cmd>> /\ Connect /\ mgr' \in Running
        BY <1>7 DEF Join, Running
  <2>2. radio'.assoc = radio.assoc /\ radio'.mode = radio.mode
        BY <1>0, <2>1, ConnectIs DEF Types, Radios
  <2>3. QED  BY <1>t, <2>1, <2>2, CountElsewhere
<1>8. QED  BY <1>1, <1>2, <1>3, <1>4, <1>5, <1>6, <1>7 DEF Manager, BringUp

(* A command that goes anywhere but to the SoftAP's own code.              *)
LEMMA NotApSet ==
  ASSUME Types, NEW u \in Users,
         (\E p \in Places \ {"apset"} : Goto(u, p)) \/ cmd' = [cmd EXCEPT ![u] = Idle]
         \/ \E p \in Places \ {"apset"}, on \in BOOLEAN, c \in AnyCreds :
               cmd' = [cmd EXCEPT ![u] = [at |-> p, on |-> on, new |-> c]]
  PROVE  \A v \in Users : cmd'[v].at = "apset" => cmd[v].at = "apset" /\ cmd'[v].on = cmd[v].on
<1>1. CASE \E p \in Places \ {"apset"} : Goto(u, p)  BY <1>1 DEF Goto, Types
<1>2. CASE cmd' = [cmd EXCEPT ![u] = Idle]
  <2>1. Idle.at # "apset"  BY DEF Idle
  <2>2. QED  BY <1>2, <2>1 DEF Types
<1>3. CASE \E p \in Places \ {"apset"}, on \in BOOLEAN, c \in AnyCreds :
             cmd' = [cmd EXCEPT ![u] = [at |-> p, on |-> on, new |-> c]]
      BY <1>3 DEF Types
<1>4. QED  BY <1>1, <1>2, <1>3

LEMMA UserCount == ASSUME OneUser, CountInv, NEW u \in Users, User(u) PROVE Counted'
<1> USE DEF UserOnly, flags, history
<1>0. LinkInv /\ Types /\ Silent /\ Counted  BY DEF CountInv, LinkInv
<1>t. Types'  BY <1>0, UserTypes
<1>n. /\ events \in Seq(EventNames) /\ clients \in Nat /\ radio.assoc \in Nat
      /\ Counts(events, clients, radio.assoc)
      BY <1>0 DEF Types, Radios, Counted
<1>1. CASE StaCommand(u) \/ StaSwitch(u) \/ ApSwitch(u)
  <2>1. PICK p \in {"ssid", "staflag", "mode"}, on \in BOOLEAN, c \in Given : Begin(u, p, on, c)
        BY <1>1 DEF StaCommand, StaSwitch, ApSwitch, Given
  <2>2. /\ UNCHANGED <<clients, events, radio, mgr>>
        /\ cmd' = [cmd EXCEPT ![u] = [at |-> p, on |-> on, new |-> c]]
        BY <2>1 DEF Begin
  <2>3. p \in Places \ {"apset"} /\ c \in AnyCreds  BY WhatThereIs DEF Places
  <2>4. QED  BY <1>0, <1>t, <2>2, <2>3, NotApSet, CountElsewhere
<1>2. CASE StoreFails(u) \/ StoreSsid(u) \/ StorePass(u) \/ CopyCreds(u) \/ ApplyRead(u)
  <2>1. UNCHANGED <<clients, events, radio, mgr>>
        BY <1>2 DEF StoreFails, StoreSsid, StorePass, CopyCreds, ApplyRead
  <2>2. (\E p \in {"pass", "copy", "drop", "config"} : Goto(u, p)) \/ cmd' = [cmd EXCEPT ![u] = Idle]
        BY <1>2 DEF StoreFails, StoreSsid, StorePass, CopyCreds, ApplyRead, End
  <2>3. {"pass", "copy", "drop", "config"} \subseteq Places \ {"apset"}  BY DEF Places
  <2>4. QED  BY <1>0, <1>t, <2>1, <2>2, <2>3, NotApSet, CountElsewhere
<1>3. CASE Drop(u) \/ SwitchDrops(u)
  <2>1. /\ Disconnect /\ UNCHANGED <<clients, mgr>>
        /\ Goto(u, "read") \/ cmd' = [cmd EXCEPT ![u] = Idle]
        BY <1>3 DEF Drop, SwitchDrops
  <2>2. "read" \in Places \ {"apset"}  BY DEF Places
  <2>3. QED  BY <1>0, <1>t, <2>1, <2>2, NotApSet, CountDisconnect
<1>4. CASE ApplyConfig(u)
  <2>1. UNCHANGED <<clients, events, mgr>> /\ cmd' = [cmd EXCEPT ![u] = Idle]
        BY <1>4 DEF ApplyConfig, End
  <2>2. radio' = radio \/ radio' = [radio EXCEPT !.cfg = held[u]]
        BY <1>4 DEF ApplyConfig, SetConfig
  <2>3. radio'.assoc = radio.assoc /\ radio'.mode = radio.mode
        BY <1>0, <2>2 DEF Types, Radios
  <2>4. QED  BY <1>0, <1>t, <2>1, <2>3, NotApSet, CountElsewhere
<1>5. CASE StaFlag(u) \/ Switch(u) \/ SwitchWakes(u)
  <2>1. UNCHANGED <<clients, events, radio, mgr>>
        BY <1>5 DEF StaFlag, Switch, SwitchWakes
  <2>2. (\E p \in {"switch", "again", "dropoff"} : Goto(u, p)) \/ cmd' = [cmd EXCEPT ![u] = Idle]
        BY <1>5 DEF StaFlag, Switch, SwitchWakes
  <2>3. {"switch", "again", "dropoff"} \subseteq Places \ {"apset"}  BY DEF Places
  <2>4. QED  BY <1>0, <1>t, <2>1, <2>2, <2>3, NotApSet, CountElsewhere
<1>6. CASE ApRefused(u) \/ ApFlag(u)
  <2>1. UNCHANGED <<clients, events, radio, mgr>> /\ cmd' = [cmd EXCEPT ![u] = Idle]
        BY <1>6 DEF ApRefused, ApFlag
  <2>2. QED  BY <1>0, <1>t, <2>1, NotApSet, CountElsewhere
<1>7. CASE ApMode(u)
  <2> DEFINE m == IF cmd[u].on THEN "apsta" ELSE "sta"
  <2>1. SetMode(m) /\ m \in {"sta", "apsta"}  BY <1>7 DEF ApMode
  <2>2. /\ UNCHANGED <<clients, mgr>> /\ state \notin {"off", "init"}
        /\ Goto(u, "apset")
        BY <1>7 DEF ApMode, TooEarly
  <2>3. mgr' \in Running  BY <1>0, <2>2 DEF Silent, Types
  <2>4. /\ radio'.mode = m /\ radio'.assoc = (IF m = "sta" THEN 0 ELSE radio.assoc)
        /\ events' = events \/ events' = Append(events, "ap_start")
        BY <1>0, <2>1, SetModeIs
  <2>5. \A v \in Users : v = u /\ cmd'[v].on = cmd[v].on
        BY <1>0, <2>2 DEF OneUser, Goto, Types
  <2>6. Counts(events', clients', radio'.assoc)
    <3>1. "ap_start" \in EventNames /\ After(radio.assoc, "ap_start") = radio.assoc
          BY DEF EventNames, After
    <3>2. events' \in Seq(EventNames)  BY <1>t DEF Types
    <3>3. CASE m = "sta"
      <4>1. Counts(events', clients, 0)  BY <1>n, <3>2, NobodyMissed
      <4>2. QED  BY <2>2, <2>4, <3>3, <4>1
    <3>4. CASE m # "sta"
      <4>1. radio.assoc <= After(radio.assoc, "ap_start")  BY <1>n, <3>1
      <4>2. Counts(Append(events, "ap_start"), clients, radio.assoc)
            BY <1>n, <3>1, <4>1, CountsAppend
      <4>3. Counts(events', clients, radio.assoc)  BY <1>n, <2>4, <4>2
      <4>4. QED  BY <2>2, <2>4, <3>4, <4>3
    <3>5. QED  BY <3>3, <3>4
  <2>7. radio'.mode # "apsta" => radio'.assoc = 0  BY <2>1, <2>4
  <2>8. QED  BY <2>3, <2>4, <2>5, <2>6, <2>7 DEF Counted
<1>8. CASE ApSet(u)
  <2>1. /\ UNCHANGED <<events, radio, mgr>> /\ Goto(u, "apflag") /\ cmd[u].at = "apset"
        /\ clients' = (IF cmd[u].on THEN clients ELSE 0)
        BY <1>8 DEF ApSet
  <2>2. \A v \in Users : cmd'[v].at # "apset"  BY <1>0, <2>1 DEF OneUser, Goto, Types
  <2>3. CASE cmd[u].on
    <3>1. clients' = clients  BY <2>1, <2>3
    <3>2. QED  BY <1>t, <2>1, <2>2, <3>1, CountElsewhere
  <2>4. CASE ~cmd[u].on
    <3>1. radio.assoc = 0 /\ clients' = 0  BY <1>0, <2>1, <2>4 DEF Counted
    <3>2. Counts(events, 0, 0)  BY <1>n, NobodyMissed
    <3>3. Counts(events', clients', radio'.assoc)  BY <2>1, <3>1, <3>2
    <3>4. QED  BY <2>1, <2>2, <3>1, <3>3 DEF Counted
  <2>5. QED  BY <2>3, <2>4
<1>9. QED  BY <1>1, <1>2, <1>3, <1>4, <1>5, <1>6, <1>7, <1>8
           DEF User, SetSta, SetStaEnabled, SetApEnabled

LEMMA CountInvNext == ASSUME OneUser, CountInv, [Next]_vars PROVE CountInv'
<1>1. LinkInv'  BY LinkInvNext DEF CountInv
<1>2. Counted'
  <2>1. CASE UNCHANGED vars
        BY <2>1 DEF CountInv, Counted, vars, flags, joining, history
  <2>2. CASE Next
        BY <2>2, NetworkCount, EventCount, ManagerCount, UserCount, FreshCount
        DEF Next, CountInv, LinkInv
  <2>3. QED  BY <2>1, <2>2
<1>3. QED  BY <1>1, <1>2 DEF CountInv

(* Whatever order stations come, go and are switched off in, the manager's *)
(* count is at least what is there once the events are handled             *)
(* (on_ap_sta_connected, on_ap_sta_disconnected, net_wifi_set_ap_enabled): *)
(* for one task of commands, which may give them during bring-up.          *)
THEOREM NobodyDropped == OneUser => (Spec => []NeverUndercounts)
<1> SUFFICES ASSUME OneUser PROVE Spec => []NeverUndercounts  OBVIOUS
<1>1. Init => CountInv  BY FreshLink, FreshCount DEF CountInv
<1>2. CountInv /\ [Next]_vars => CountInv'  BY CountInvNext
<1>3. CountInv => NeverUndercounts
  <2> SUFFICES ASSUME CountInv, events = <<>> PROVE clients >= radio.assoc
      BY DEF NeverUndercounts, Settled
  <2>1. clients \in Nat /\ radio.assoc \in Nat /\ Counts(<<>>, clients, radio.assoc)
        BY DEF CountInv, LinkInv, Types, Radios, Counted
  <2>2. QED  BY <2>1, NothingToCount
<1>4. QED  BY <1>1, <1>2, <1>3, PTL DEF Spec

-----------------------------------------------------------------------------
(* The board comes back as it was left, and a link is wanted               *)

Settings == Loading /\ Agreed /\ Wanted

(* With one task of commands "a command is at" is about that task.         *)
AgreedFor(u) ==
  mgr \in Running =>
    /\ CommandDone(u)
    /\ "sta" \notin failed /\ cmd[u].at # "switch" => nvs.sta = staOn
    /\ "ap" \notin failed /\ cmd[u].at # "apflag" => nvs.ap = apOn
    /\ cmd[u].at # "apset" => radio.mode = (IF apOn THEN "apsta" ELSE "sta")
    /\ "creds" \notin failed /\ cmd[u].at \notin {"pass", "copy"} =>
         creds = [ssid |-> nvs.ssid, pass |-> nvs.pass]
    /\ "creds" \notin failed /\ cmd[u].at \notin {"drop", "read"} => want = (creds.ssid # 0)
    /\ "creds" \notin failed /\ cmd[u].at \notin {"drop", "read", "config"} => radio.cfg = creds

WantedFor(u) ==
  /\ mgr = "connect" /\ ~staOn => cmd[u].at = "dropoff" \/ (raced /\ radio.link = "idle")
  /\ radio.link # "idle" /\ ~raced =>
       /\ staOn \/ cmd[u].at = "dropoff"
       /\ radio.net = creds \/ "creds" \in failed \/ cmd[u].at = "drop"
       /\ cmd[u].at \notin {"read", "config"}

LEMMA OnlyOne ==
  ASSUME OneUser, NEW u \in Users
  PROVE  /\ \A P : At(P) <=> cmd[u].at \in P
         /\ \A P : At(P)' <=> cmd'[u].at \in P
         /\ \A v \in Users : v = u
  BY DEF OneUser, At

LEMMA OnlyItsOwn ==
  ASSUME OneUser, NEW u \in Users
  PROVE  /\ Agreed => AgreedFor(u)
         /\ Wanted => WantedFor(u)
         /\ AgreedFor(u)' => Agreed'
         /\ WantedFor(u)' => Wanted'
<1>1. /\ At({"switch"}) <=> cmd[u].at = "switch"
      /\ At({"apflag"}) <=> cmd[u].at = "apflag"
      /\ At({"apset"}) <=> cmd[u].at = "apset"
      /\ At({"pass", "copy"}) <=> cmd[u].at \in {"pass", "copy"}
      /\ At({"drop", "read"}) <=> cmd[u].at \in {"drop", "read"}
      /\ At({"drop", "read", "config"}) <=> cmd[u].at \in {"drop", "read", "config"}
      /\ At({"dropoff"}) <=> cmd[u].at = "dropoff"
      /\ At({"drop"}) <=> cmd[u].at = "drop"
      /\ At({"read", "config"}) <=> cmd[u].at \in {"read", "config"}
      BY OnlyOne
<1>2. /\ At({"switch"})' <=> cmd'[u].at = "switch"
      /\ At({"apflag"})' <=> cmd'[u].at = "apflag"
      /\ At({"apset"})' <=> cmd'[u].at = "apset"
      /\ At({"pass", "copy"})' <=> cmd'[u].at \in {"pass", "copy"}
      /\ At({"drop", "read"})' <=> cmd'[u].at \in {"drop", "read"}
      /\ At({"drop", "read", "config"})' <=> cmd'[u].at \in {"drop", "read", "config"}
      /\ At({"dropoff"})' <=> cmd'[u].at = "dropoff"
      /\ At({"drop"})' <=> cmd'[u].at = "drop"
      /\ At({"read", "config"})' <=> cmd'[u].at \in {"read", "config"}
      BY OnlyOne
<1>3. Agreed => AgreedFor(u)  BY <1>1 DEF Agreed, AgreedFor
<1>4. Wanted => WantedFor(u)  BY <1>1 DEF Wanted, WantedFor
<1>5. AgreedFor(u)' => Agreed'
  <2>1. CommandDone(u)' => \A v \in Users : CommandDone(v)'  BY OnlyOne
  <2>2. QED  BY <1>2, <2>1 DEF Agreed, AgreedFor
<1>6. WantedFor(u)' => Wanted'  BY <1>2 DEF Wanted, WantedFor
<1>7. QED  BY <1>3, <1>4, <1>5, <1>6

(* What leaves the settings alone.                                         *)
LEMMA SettingsElsewhere ==
  ASSUME SettingInv, UNCHANGED <<staOn, apOn, want, creds, cmd, held, nvs, mgr, failed, raced>>,
         radio'.cfg = radio.cfg, radio'.mode = radio.mode, radio'.net = radio.net,
         radio'.link = "idle" <=> radio.link = "idle"
  PROVE  Settings'
<1>0. Loading /\ Agreed /\ Wanted  BY DEF SettingInv
<1>1. \A P : At(P)' <=> At(P)  BY DEF At
<1>2. Loading'  BY <1>0, <1>1 DEF Loading
<1>3. \A u \in Users : CommandDone(u) => CommandDone(u)'  BY DEF CommandDone
<1>4. Agreed'  BY <1>0, <1>1, <1>3 DEF Agreed
<1>5. Wanted'  BY <1>0, <1>1 DEF Wanted
<1>6. QED  BY <1>2, <1>4, <1>5 DEF Settings

(* At power on.                                                            *)
LEMMA FreshSettings == (Init => Settings) /\ (Types /\ Reboot => Settings')
<1>1. ASSUME Init PROVE Settings
  <2>1. /\ mgr = "init" /\ failed = {} /\ radio.link = "idle"
        /\ \A u \in Users : cmd[u].at = "idle"
        BY <1>1 DEF Init, Off, Idle
  <2>2. Loading  BY <2>1 DEF Loading, At
  <2>3. Agreed /\ Wanted  BY <2>1 DEF Agreed, Wanted, Running
  <2>4. QED  BY <2>2, <2>3 DEF Settings
<1>2. ASSUME Types, Reboot PROVE Settings'
  <2>1. /\ mgr' = "init" /\ failed' = {} /\ radio'.link = "idle"
        /\ \A u \in Users : cmd'[u].at = "idle"
        BY <1>2 DEF Reboot, PowerOn, Off, Idle
  <2>2. Loading'  BY <2>1 DEF Loading, At
  <2>3. Agreed' /\ Wanted'  BY <2>1 DEF Agreed, Wanted, Running
  <2>4. QED  BY <2>2, <2>3 DEF Settings
<1>3. QED  BY <1>1, <1>2

LEMMA NetworkSettings == ASSUME SettingInv, Network PROVE Settings'
<1> USE DEF flags, joining, history
<1>0. Types /\ Loading /\ Agreed /\ Wanted  BY DEF SettingInv, CountInv, LinkInv
<1>1. CASE Associate \/ Lease \/ StationJoins \/ StationLeaves \/ Move
  <2>1. UNCHANGED <<staOn, apOn, want, creds, cmd, held, nvs, mgr, failed, raced>>
        BY <1>1 DEF Associate, Lease, StationJoins, StationLeaves, Move, NetworkOnly
  <2>2. \/ radio.link = "joining" /\ radio' = [radio EXCEPT !.link = "up"]
        \/ radio.link = "up" /\ radio' = [radio EXCEPT !.link = "leased"]
        \/ radio' = [radio EXCEPT !.assoc = @ + 1]
        \/ radio' = [radio EXCEPT !.assoc = @ - 1]
        \/ radio' = radio
        BY <1>1 DEF Associate, Lease, StationJoins, StationLeaves, Move
  <2>3. /\ radio'.cfg = radio.cfg /\ radio'.mode = radio.mode /\ radio'.net = radio.net
        /\ radio'.link = "idle" <=> radio.link = "idle"
        BY <1>0, <2>2 DEF Types, Radios
  <2>4. QED  BY <2>1, <2>3, SettingsElsewhere
<1>2. CASE LinkLost
  <2>1. /\ UNCHANGED <<staOn, apOn, want, creds, cmd, held, nvs, mgr, failed>>
        /\ radio.link # "idle"
        BY <1>2 DEF LinkLost
  <2>2. /\ radio'.cfg = radio.cfg /\ radio'.mode = radio.mode /\ radio'.link = "idle"
        BY <1>0, <1>2, DisconnectIs DEF LinkLost, Types, Radios
  <2>3. \A P : At(P)' <=> At(P)  BY <2>1 DEF At
  <2>4. Loading'  BY <1>0, <2>1, <2>2, <2>3 DEF Loading
  <2>5. \A u \in Users : CommandDone(u) => CommandDone(u)'  BY <2>1 DEF CommandDone
  <2>6. Agreed'  BY <1>0, <2>1, <2>2, <2>3, <2>5 DEF Agreed
  <2>7. Wanted'  BY <1>0, <2>1, <2>2, <2>3 DEF Wanted
  <2>8. QED  BY <2>4, <2>6, <2>7 DEF Settings
<1>3. QED  BY <1>1, <1>2 DEF Network, Driver

LEMMA EventSettings == ASSUME SettingInv, Event PROVE Settings'
<1>1. UNCHANGED <<staOn, apOn, want, creds, cmd, held, nvs, mgr, failed, raced, radio>>
      BY DEF Event, flags, history
<1>2. QED  BY <1>1, SettingsElsewhere

(* Bring-up, up to the start of the radio.                                 *)
LEMMA BringUpSettings ==
  ASSUME SettingInv, BringUp \/ BringUpFails
  PROVE  Settings'
<1> USE DEF MgrOnly, flags, joining
<1>0. Types /\ Silent /\ Loading  BY DEF SettingInv, CountInv, LinkInv
<1>1. /\ mgr \in BringingUp /\ UNCHANGED <<cmd, nvs, failed>>
      BY DEF BringUp, BringUpFails, InitRadio, LoadCreds, LoadFlags, BringUpRead, BringUpConfig,
             Narrow, StartRadio, BringingUp
<1>2. /\ ~At(Places \ {"idle"})' /\ failed' = {} /\ radio.link = "idle" /\ mgr \notin Running
      BY <1>0, <1>1 DEF Loading, At, Silent, BringingUp, Running
<1>3. \A u \in Users : cmd'[u].at = "idle"
      BY <1>0, <1>1, <1>2 DEF Types, At
<1>4. "mgr" \in Tasks  BY WhatThereIs
<1>5. radio'.link = "idle"
  <2>1. CASE SetMode(IF apOn THEN "apsta" ELSE "sta")
        BY <1>0, <1>2, <2>1, SetModeIs
  <2>2. CASE radio' = radio \/ radio' = [radio EXCEPT !.cfg = held["mgr"]]
             \/ radio' = [radio EXCEPT !.started = TRUE]
        BY <1>0, <1>2, <2>2 DEF Types, Radios
  <2>3. QED  BY <2>1, <2>2 DEF BringUp, BringUpFails, InitRadio, LoadCreds, LoadFlags,
             BringUpRead, BringUpConfig, SetConfig, Narrow, StartRadio
<1>6. mgr' # "connect"
      BY DEF BringUp, BringUpFails, InitRadio, LoadCreds, LoadFlags, BringUpRead, BringUpConfig,
             Narrow, StartRadio
<1>7. Wanted'  BY <1>5, <1>6 DEF Wanted
<1>8. CASE BringUpFails
  <2>1. mgr' = "gone"  BY <1>8 DEF BringUpFails
  <2>2. Loading' /\ Agreed'  BY <2>1 DEF Loading, Agreed, BringingUp, Running
  <2>3. QED  BY <1>7, <2>2 DEF Settings
<1>9. CASE InitRadio
  <2>1. mgr' = "load"  BY <1>9 DEF InitRadio
  <2>2. Loading' /\ Agreed'  BY <1>2, <2>1 DEF Loading, Agreed, Running
  <2>3. QED  BY <1>7, <2>2 DEF Settings
<1>10. CASE LoadCreds
  <2>1. /\ mgr' = "flags" /\ creds' = [ssid |-> nvs'.ssid, pass |-> nvs'.pass]
        /\ held'["mgr"] = [sta |-> nvs'.sta, ap |-> nvs'.ap]
        BY <1>0, <1>4, <1>10 DEF LoadCreds, Types
  <2>2. Loading' /\ Agreed'  BY <1>2, <2>1 DEF Loading, Agreed, Running
  <2>3. QED  BY <1>7, <2>2 DEF Settings
<1>11. CASE LoadFlags
  <2>1. /\ mgr = "flags" /\ mgr' = "read" /\ creds' = creds /\ nvs' = nvs
        /\ staOn' = held["mgr"].sta /\ apOn' = held["mgr"].ap
        BY <1>11 DEF LoadFlags
  <2>2. /\ held["mgr"] = [sta |-> nvs.sta, ap |-> nvs.ap]
        /\ creds = [ssid |-> nvs.ssid, pass |-> nvs.pass]
        BY <1>0, <2>1 DEF Loading, BringingUp
  <2>3. staOn' = nvs'.sta /\ apOn' = nvs'.ap  BY <2>1, <2>2
  <2>4. creds' = [ssid |-> nvs'.ssid, pass |-> nvs'.pass]  BY <2>1, <2>2
  <2>5. Loading' /\ Agreed'  BY <1>2, <2>1, <2>3, <2>4 DEF Loading, Agreed, Running
  <2>6. QED  BY <1>7, <2>5 DEF Settings
<1>12. CASE BringUpRead
  <2>1. /\ mgr = "read" /\ mgr' = "config" /\ UNCHANGED <<creds, nvs, staOn, apOn>>
        /\ want' = (creds.ssid # 0) /\ held'["mgr"] = creds
        BY <1>0, <1>4, <1>12 DEF BringUpRead, ReadCreds, Types
  <2>2. /\ staOn = nvs.sta /\ apOn = nvs.ap /\ creds = [ssid |-> nvs.ssid, pass |-> nvs.pass]
        BY <1>0, <2>1 DEF Loading, BringingUp
  <2>3. Loading' /\ Agreed'  BY <1>2, <2>1, <2>2 DEF Loading, Agreed, Running
  <2>4. QED  BY <1>7, <2>3 DEF Settings
<1>13. CASE BringUpConfig
  <2>1. /\ mgr = "config" /\ mgr' = "narrow" /\ UNCHANGED <<creds, nvs, staOn, apOn, want>>
        /\ radio'.cfg = held["mgr"]
        BY <1>0, <1>13 DEF BringUpConfig, SetConfig, Types, Radios
  <2>2. /\ staOn = nvs.sta /\ apOn = nvs.ap /\ creds = [ssid |-> nvs.ssid, pass |-> nvs.pass]
        /\ want = (creds.ssid # 0) /\ held["mgr"] = creds
        BY <1>0, <2>1 DEF Loading, BringingUp
  <2>3. Loading' /\ Agreed'  BY <1>2, <2>1, <2>2 DEF Loading, Agreed, Running
  <2>4. QED  BY <1>7, <2>3 DEF Settings
<1>14. CASE Narrow
  <2>1. /\ mgr = "narrow" /\ mgr' = "start" /\ UNCHANGED <<creds, nvs, staOn, apOn, want>>
        /\ radio'.cfg = radio.cfg /\ radio'.mode = (IF apOn THEN "apsta" ELSE "sta")
        BY <1>0, <1>14, SetModeIs DEF Narrow
  <2>2. /\ staOn = nvs.sta /\ apOn = nvs.ap /\ creds = [ssid |-> nvs.ssid, pass |-> nvs.pass]
        /\ want = (creds.ssid # 0) /\ radio.cfg = creds
        BY <1>0, <2>1 DEF Loading, BringingUp
  <2>3. Loading' /\ Agreed'  BY <1>2, <2>1, <2>2 DEF Loading, Agreed, Running
  <2>4. QED  BY <1>7, <2>3 DEF Settings
<1>15. CASE StartRadio
  <2>1. /\ mgr = "start" /\ mgr' = "check" /\ UNCHANGED <<creds, nvs, staOn, apOn, want>>
        /\ radio'.cfg = radio.cfg /\ radio'.mode = radio.mode
        BY <1>0, <1>15 DEF StartRadio, Types, Radios
  <2>2. /\ staOn = nvs.sta /\ apOn = nvs.ap /\ creds = [ssid |-> nvs.ssid, pass |-> nvs.pass]
        /\ want = (creds.ssid # 0) /\ radio.cfg = creds
        /\ radio.mode = (IF apOn THEN "apsta" ELSE "sta")
        BY <1>0, <2>1 DEF Loading, BringingUp
  <2>3. Loading'  BY <2>1 DEF Loading, BringingUp
  <2>4. \A u \in Users : CommandDone(u)'  BY <1>3 DEF CommandDone
  <2>5. Agreed'  BY <2>1, <2>2, <2>4 DEF Agreed
  <2>6. QED  BY <1>7, <2>3, <2>5 DEF Settings
<1>16. QED  BY <1>8, <1>9, <1>10, <1>11, <1>12, <1>13, <1>14, <1>15 DEF BringUp

(* The retry loop.                                                         *)
LEMMA LoopSettings ==
  ASSUME SettingInv, Check \/ Join \/ Notified \/ Slice
  PROVE  Settings'
<1> USE DEF MgrOnly, flags, joining
<1>0. Types /\ Agreed /\ Wanted  BY DEF SettingInv, CountInv, LinkInv
<1>1. /\ mgr \in Running /\ mgr' \in Running
      /\ UNCHANGED <<staOn, apOn, want, creds, cmd, held, nvs, failed>>
      BY DEF Check, Join, Notified, Slice, Running
<1>2. \A P : At(P)' <=> At(P)  BY <1>1 DEF At
<1>3. Loading'  BY <1>1 DEF Loading, BringingUp, Running
<1>4. radio'.cfg = radio.cfg /\ radio'.mode = radio.mode
  <2>1. CASE Join
    <3>1. radio' = radio \/ radio' = [radio EXCEPT !.link = "joining", !.net = radio.cfg]
          BY <1>0, <2>1, ConnectIs DEF Join
    <3>2. QED  BY <1>0, <3>1 DEF Types, Radios
  <2>2. CASE Check \/ Notified \/ Slice  BY <2>2 DEF Check, Notified, Slice
  <2>3. QED  BY <2>1, <2>2
<1>5. \A u \in Users : CommandDone(u) => CommandDone(u)'  BY <1>1 DEF CommandDone
<1>6. Agreed'  BY <1>0, <1>1, <1>2, <1>4, <1>5 DEF Agreed
<1>7. Wanted'
  <2>1. CASE Check
    <3>1. /\ UNCHANGED <<radio, raced>>
          /\ mgr' = "connect" => staOn
          BY <2>1 DEF Check, Due
    <3>2. QED  BY <1>0, <1>1, <1>2, <3>1 DEF Wanted
  <2>2. CASE Notified \/ Slice
    <3>1. /\ UNCHANGED <<radio, raced>> /\ mgr' = "check"
          BY <2>2 DEF Notified, Slice
    <3>2. QED  BY <1>0, <1>1, <1>2, <3>1 DEF Wanted
  <2>3. CASE Join
    <3>1. /\ mgr = "connect" /\ mgr' = "wait"
          /\ ~raced' => ~raced /\ ~At({"read", "config"})
          BY <2>3 DEF Join, At
    <3>2. CASE radio.link # "idle"
      <4>1. radio' = radio  BY <1>0, <2>3, <3>2, ConnectIs DEF Join
      <4>2. QED  BY <1>0, <1>1, <1>2, <3>1, <4>1 DEF Wanted
    <3>3. CASE radio.link = "idle"
      <4>1. radio'.net = radio.cfg
            BY <1>0, <2>3, <3>3, ConnectIs DEF Join, Types, Radios
      <4>2. At({"drop", "read", "config"}) => At({"drop"}) \/ At({"read", "config"})
            BY DEF At
      <4>3. "creds" \notin failed /\ ~At({"drop"}) /\ ~raced' => radio'.net = creds
            BY <1>0, <1>1, <3>1, <4>1, <4>2 DEF Agreed
      <4>4. ~staOn /\ ~raced' => At({"dropoff"})  BY <1>0, <3>1 DEF Wanted
      <4>5. QED  BY <1>1, <1>2, <3>1, <4>3, <4>4 DEF Wanted
    <3>4. QED  BY <3>2, <3>3
  <2>4. QED  BY <2>1, <2>2, <2>3
<1>8. QED  BY <1>3, <1>6, <1>7 DEF Settings

(* A command, one step of it at a time.                                    *)
LEMMA UserSettings ==
  ASSUME OneUser, ~Early, SettingInv, NEW u \in Users, User(u)
  PROVE  Settings'
<1> USE DEF UserOnly, flags, history
<1>0. Types /\ Silent /\ Loading /\ AgreedFor(u) /\ WantedFor(u)
      BY OnlyItsOwn DEF SettingInv, CountInv, LinkInv
<1>u. u \in Tasks /\ cmd[u] \in [at : Places, on : BOOLEAN, new : AnyCreds]
      BY <1>0, WhatThereIs DEF Types
<1>g. \A p : Goto(u, p) => cmd'[u].at = p /\ cmd'[u].on = cmd[u].on /\ cmd'[u].new = cmd[u].new
      BY <1>0 DEF Goto, Types
<1>i. cmd' = [cmd EXCEPT ![u] = Idle] => cmd'[u].at = "idle"
      BY <1>0 DEF Idle, Types
<1>1. mgr \notin BringingUp /\ mgr' = mgr
  <2>1. mgr' = mgr
        BY DEF User, StaCommand, StaSwitch, ApSwitch, Begin, SetSta, SetStaEnabled, SetApEnabled,
               StoreFails, StoreSsid, StorePass, CopyCreds, Drop, ApplyRead, ApplyConfig, StaFlag,
               Switch, SwitchDrops, SwitchWakes, ApRefused, ApMode, ApSet, ApFlag
  <2>2. MayCommand(u) => mgr \notin BringingUp  BY DEF MayCommand, BringingUp
  <2>3. cmd[u].at # "idle" => mgr \notin BringingUp  BY <1>0, <1>u DEF Loading, At
  <2>4. MayCommand(u) \/ cmd[u].at # "idle"
        BY DEF User, StaCommand, StaSwitch, ApSwitch, SetSta, SetStaEnabled, SetApEnabled,
               StoreFails, StoreSsid, StorePass, CopyCreds, Drop, ApplyRead, ApplyConfig, StaFlag,
               Switch, SwitchDrops, SwitchWakes, ApRefused, ApMode, ApSet, ApFlag
  <2>5. QED  BY <2>1, <2>2, <2>3, <2>4
<1>2. Loading'  BY <1>1 DEF Loading, BringingUp
<1>3. SUFFICES AgreedFor(u)' /\ WantedFor(u)'  BY <1>2, OnlyItsOwn DEF Settings
<1>4. CASE StaCommand(u) \/ StaSwitch(u) \/ ApSwitch(u)
  <2>1. PICK p \in {"ssid", "staflag", "mode"}, on \in BOOLEAN, c \in Given : Begin(u, p, on, c)
        BY <1>4 DEF StaCommand, StaSwitch, ApSwitch, Given
  <2>2. /\ UNCHANGED <<staOn, apOn, want, creds, held, nvs, failed, raced, radio>>
        /\ cmd'[u].at = p /\ cmd[u].at = "idle"
        BY <1>0, <1>4, <2>1 DEF Begin, Types, MayCommand, StaCommand, StaSwitch, ApSwitch
  <2>3. CommandDone(u)'  BY <2>2 DEF CommandDone
  <2>4. AgreedFor(u)'  BY <1>0, <1>1, <2>2, <2>3 DEF AgreedFor
  <2>5. WantedFor(u)'  BY <1>0, <1>1, <2>2 DEF WantedFor
  <2>6. QED  BY <2>4, <2>5
<1>5. CASE StoreFails(u)
  <2>1. /\ UNCHANGED <<staOn, apOn, want, creds, held, nvs, raced, radio>>
        /\ cmd'[u].at = "idle" /\ cmd[u].at \in {"ssid", "pass"} /\ failed' = failed \cup {"creds"}
        BY <1>5, <1>i DEF StoreFails, End
  <2>2. CommandDone(u)'  BY <2>1 DEF CommandDone
  <2>3. AgreedFor(u)'  BY <1>0, <1>1, <2>1, <2>2 DEF AgreedFor
  <2>4. WantedFor(u)'  BY <1>0, <1>1, <2>1 DEF WantedFor
  <2>5. QED  BY <2>3, <2>4
<1>6. CASE StoreSsid(u)
  <2>1. /\ UNCHANGED <<staOn, apOn, want, creds, held, raced, radio, failed>>
        /\ cmd'[u].at = "pass" /\ cmd'[u].new = cmd[u].new /\ cmd[u].at = "ssid"
        /\ nvs'.ssid = cmd[u].new.ssid /\ nvs'.sta = nvs.sta /\ nvs'.ap = nvs.ap
        BY <1>0, <1>6, <1>g DEF StoreSsid, Types
  <2>2. CommandDone(u)'  BY <2>1 DEF CommandDone
  <2>3. AgreedFor(u)'  BY <1>0, <1>1, <2>1, <2>2 DEF AgreedFor
  <2>4. WantedFor(u)'  BY <1>0, <1>1, <2>1 DEF WantedFor
  <2>5. QED  BY <2>3, <2>4
<1>7. CASE StorePass(u)
  <2>1. /\ UNCHANGED <<staOn, apOn, want, creds, held, raced, radio, failed>>
        /\ cmd'[u].at = "copy" /\ cmd'[u].new = cmd[u].new /\ cmd[u].at = "pass"
        /\ nvs'.ssid = nvs.ssid /\ nvs'.pass = cmd[u].new.pass
        /\ nvs'.sta = nvs.sta /\ nvs'.ap = nvs.ap
        BY <1>0, <1>7, <1>g DEF StorePass, Types
  <2>2. mgr \in Running => CommandDone(u)'  BY <1>0, <2>1 DEF AgreedFor, CommandDone
  <2>3. AgreedFor(u)'  BY <1>0, <1>1, <2>1, <2>2 DEF AgreedFor
  <2>4. WantedFor(u)'  BY <1>0, <1>1, <2>1 DEF WantedFor
  <2>5. QED  BY <2>3, <2>4
<1>8. CASE CopyCreds(u)
  <2>1. /\ UNCHANGED <<staOn, apOn, want, held, nvs, raced, radio, failed>>
        /\ cmd'[u].at = "drop" /\ cmd'[u].new = cmd[u].new /\ cmd[u].at = "copy"
        /\ creds' = cmd[u].new
        BY <1>0, <1>8, <1>g DEF CopyCreds
  <2>2. cmd[u].new = [ssid |-> cmd[u].new.ssid, pass |-> cmd[u].new.pass]
        BY <1>u, WhatThereIs
  <2>3. mgr \in Running => creds' = [ssid |-> nvs'.ssid, pass |-> nvs'.pass]
        BY <1>0, <2>1, <2>2 DEF AgreedFor, CommandDone
  <2>4. mgr \in Running => CommandDone(u)'  BY <2>1, <2>3 DEF CommandDone
  <2>5. AgreedFor(u)'  BY <1>0, <1>1, <2>1, <2>3, <2>4 DEF AgreedFor
  <2>6. WantedFor(u)'  BY <1>0, <1>1, <2>1 DEF WantedFor
  <2>7. QED  BY <2>5, <2>6
<1>9. CASE Drop(u)
  <2>1. /\ UNCHANGED <<staOn, apOn, want, creds, held, nvs, failed>>
        /\ cmd'[u].at = "read" /\ cmd'[u].new = cmd[u].new /\ cmd[u].at = "drop"
        /\ raced' = (mgr = "connect")
        BY <1>0, <1>9, <1>g DEF Drop
  <2>2. radio'.link = "idle" /\ radio'.mode = radio.mode
        BY <1>0, <1>9, DisconnectIs DEF Drop, Types, Radios
  <2>3. mgr \in Running => CommandDone(u)'  BY <1>0, <2>1 DEF AgreedFor, CommandDone
  <2>4. AgreedFor(u)'  BY <1>0, <1>1, <2>1, <2>2, <2>3 DEF AgreedFor
  <2>5. WantedFor(u)'  BY <1>1, <2>1, <2>2 DEF WantedFor
  <2>6. QED  BY <2>4, <2>5
<1>10. CASE ApplyRead(u)
  <2>1. /\ UNCHANGED <<staOn, apOn, creds, nvs, failed, raced, radio>>
        /\ cmd'[u].at = "config" /\ cmd'[u].new = cmd[u].new /\ cmd[u].at = "read"
        /\ want' = (creds.ssid # 0) /\ held'[u] = creds
        BY <1>0, <1>u, <1>10, <1>g DEF ApplyRead, ReadCreds, Types
  <2>2. mgr \in Running => CommandDone(u)'  BY <1>0, <2>1 DEF AgreedFor, CommandDone
  <2>3. AgreedFor(u)'  BY <1>0, <1>1, <2>1, <2>2 DEF AgreedFor
  <2>4. WantedFor(u)'  BY <1>0, <1>1, <2>1 DEF WantedFor
  <2>5. QED  BY <2>3, <2>4
<1>11. CASE ApplyConfig(u)
  <2>1. /\ UNCHANGED <<staOn, apOn, creds, want, nvs, raced>>
        /\ cmd'[u].at = "idle" /\ cmd[u].at = "config"
        BY <1>11, <1>i DEF ApplyConfig, End
  <2>2. CommandDone(u)'  BY <2>1 DEF CommandDone
  <2>3. \/ /\ radio' = [radio EXCEPT !.cfg = held[u]] /\ failed' = failed \ {"creds"}
        \/ /\ radio' = radio /\ failed' = failed \cup {"creds"}
        BY <1>11 DEF ApplyConfig, SetConfig, End
  <2>4. /\ radio'.mode = radio.mode /\ radio'.net = radio.net /\ radio'.link = radio.link
        /\ "creds" \notin failed' => radio'.cfg = held[u]
        /\ "sta" \in failed' <=> "sta" \in failed
        /\ "ap" \in failed' <=> "ap" \in failed
        BY <1>0, <2>3 DEF Types, Radios
  <2>5. mgr \in Running => /\ held[u] = creds /\ want = (creds.ssid # 0)
                           /\ creds = [ssid |-> nvs.ssid, pass |-> nvs.pass]
        BY <1>0, <2>1 DEF AgreedFor, CommandDone
  <2>6. AgreedFor(u)'  BY <1>0, <1>1, <2>1, <2>2, <2>4, <2>5 DEF AgreedFor
  <2>7. WantedFor(u)'  BY <1>0, <1>1, <2>1, <2>4 DEF WantedFor
  <2>8. QED  BY <2>6, <2>7
<1>12. CASE StaFlag(u)
  <2>1. /\ UNCHANGED <<staOn, apOn, creds, want, held, raced, radio>>
        /\ cmd'[u].at = "switch" /\ cmd'[u].on = cmd[u].on /\ cmd[u].at = "staflag"
        BY <1>12, <1>g DEF StaFlag
  <2>2. /\ nvs'.ssid = nvs.ssid /\ nvs'.pass = nvs.pass /\ nvs'.ap = nvs.ap
        /\ "sta" \notin failed' => nvs'.sta = cmd[u].on
        /\ "creds" \in failed' <=> "creds" \in failed
        /\ "ap" \in failed' <=> "ap" \in failed
        BY <1>0, <1>12 DEF StaFlag, StoreFlag, Types
  <2>3. CommandDone(u)'  BY <2>1, <2>2 DEF CommandDone
  <2>4. AgreedFor(u)'  BY <1>0, <1>1, <2>1, <2>2, <2>3 DEF AgreedFor
  <2>5. WantedFor(u)'  BY <1>0, <1>1, <2>1, <2>2 DEF WantedFor
  <2>6. QED  BY <2>4, <2>5
<1>13. CASE Switch(u)
  <2>1. /\ UNCHANGED <<apOn, creds, want, held, raced, radio, nvs, failed>>
        /\ cmd'[u].at = (IF cmd[u].on THEN "again" ELSE "dropoff") /\ cmd[u].at = "switch"
        /\ staOn' = cmd[u].on
        BY <1>13, <1>g DEF Switch
  <2>2. CommandDone(u)'  BY <2>1 DEF CommandDone
  <2>3. mgr \in Running /\ "sta" \notin failed => nvs.sta = cmd[u].on
        BY <1>0, <2>1 DEF AgreedFor, CommandDone
  <2>4. AgreedFor(u)'  BY <1>0, <1>1, <2>1, <2>2, <2>3 DEF AgreedFor
  <2>5. staOn' \/ cmd'[u].at = "dropoff"  BY <1>u, <2>1
  <2>6. cmd'[u].at \notin {"read", "config"}  BY <2>1
  <2>7. WantedFor(u)'  BY <1>0, <1>1, <2>1, <2>5, <2>6 DEF WantedFor
  <2>8. QED  BY <2>4, <2>7
<1>14. CASE SwitchDrops(u)
  <2>1. /\ UNCHANGED <<staOn, apOn, creds, want, held, nvs, failed>>
        /\ cmd'[u].at = "idle" /\ cmd[u].at = "dropoff" /\ raced' = (mgr = "connect")
        BY <1>14, <1>i DEF SwitchDrops
  <2>2. radio'.link = "idle" /\ radio'.mode = radio.mode /\ radio'.cfg = radio.cfg
        BY <1>0, <1>14, DisconnectIs DEF SwitchDrops, Types, Radios
  <2>3. CommandDone(u)'  BY <2>1 DEF CommandDone
  <2>4. AgreedFor(u)'  BY <1>0, <1>1, <2>1, <2>2, <2>3 DEF AgreedFor
  <2>5. WantedFor(u)'  BY <1>1, <2>1, <2>2 DEF WantedFor
  <2>6. QED  BY <2>4, <2>5
<1>15. CASE SwitchWakes(u) \/ ApRefused(u)
  <2>1. /\ UNCHANGED <<staOn, apOn, creds, want, held, nvs, failed, radio, raced>>
        /\ cmd'[u].at = "idle" /\ cmd[u].at \in {"again", "mode"}
        BY <1>15, <1>i DEF SwitchWakes, ApRefused
  <2>2. CommandDone(u)'  BY <2>1 DEF CommandDone
  <2>3. AgreedFor(u)'  BY <1>0, <1>1, <2>1, <2>2 DEF AgreedFor
  <2>4. WantedFor(u)'  BY <1>0, <1>1, <2>1 DEF WantedFor
  <2>5. QED  BY <2>3, <2>4
<1>16. CASE ApMode(u)
  <2>1. /\ UNCHANGED <<staOn, apOn, creds, want, held, nvs, failed, raced>>
        /\ cmd'[u].at = "apset" /\ cmd[u].at = "mode"
        BY <1>16, <1>g DEF ApMode
  <2>2. radio'.link = radio.link /\ radio'.cfg = radio.cfg /\ radio'.net = radio.net
        BY <1>0, <1>16, SetModeIs DEF ApMode
  <2>3. CommandDone(u)'  BY <2>1 DEF CommandDone
  <2>4. AgreedFor(u)'  BY <1>0, <1>1, <2>1, <2>2, <2>3 DEF AgreedFor
  <2>5. WantedFor(u)'  BY <1>0, <1>1, <2>1, <2>2 DEF WantedFor
  <2>6. QED  BY <2>4, <2>5
<1>17. CASE ApSet(u)
  <2>1. /\ UNCHANGED <<staOn, creds, want, held, nvs, failed, raced, radio>>
        /\ cmd'[u].at = "apflag" /\ cmd'[u].on = cmd[u].on /\ cmd[u].at = "apset"
        /\ apOn' = cmd[u].on
        BY <1>17, <1>g DEF ApSet
  <2>2. CommandDone(u)'  BY <2>1 DEF CommandDone
  <2>3. radio.mode = (IF cmd[u].on THEN "apsta" ELSE "sta")
        BY <2>1 DEF SettingInv, CountInv, Counted
  <2>4. AgreedFor(u)'  BY <1>0, <1>1, <2>1, <2>2, <2>3 DEF AgreedFor
  <2>5. WantedFor(u)'  BY <1>0, <1>1, <2>1 DEF WantedFor
  <2>6. QED  BY <2>4, <2>5
<1>18. CASE ApFlag(u)
  <2>1. /\ UNCHANGED <<staOn, apOn, creds, want, held, raced, radio>>
        /\ cmd'[u].at = "idle" /\ cmd[u].at = "apflag"
        BY <1>18, <1>i DEF ApFlag
  <2>2. /\ nvs'.ssid = nvs.ssid /\ nvs'.pass = nvs.pass /\ nvs'.sta = nvs.sta
        /\ "ap" \notin failed' => nvs'.ap = cmd[u].on
        /\ "creds" \in failed' <=> "creds" \in failed
        /\ "sta" \in failed' <=> "sta" \in failed
        BY <1>0, <1>18 DEF ApFlag, StoreFlag, Types
  <2>3. CommandDone(u)'  BY <2>1 DEF CommandDone
  <2>4. mgr \in Running => apOn = cmd[u].on  BY <1>0, <2>1 DEF AgreedFor, CommandDone
  <2>5. AgreedFor(u)'  BY <1>0, <1>1, <2>1, <2>2, <2>3, <2>4 DEF AgreedFor
  <2>6. WantedFor(u)'  BY <1>0, <1>1, <2>1, <2>2 DEF WantedFor
  <2>7. QED  BY <2>5, <2>6
<1>19. QED  BY <1>4, <1>5, <1>6, <1>7, <1>8, <1>9, <1>10, <1>11, <1>12, <1>13, <1>14, <1>15,
               <1>16, <1>17, <1>18
            DEF User, SetSta, SetStaEnabled, SetApEnabled

LEMMA SettingInvNext == ASSUME OneUser, ~Early, SettingInv, [Next]_vars PROVE SettingInv'
<1>1. CountInv'  BY CountInvNext DEF SettingInv
<1>2. Settings'
  <2>1. CASE UNCHANGED vars
    <3>1. UNCHANGED <<staOn, apOn, want, creds, cmd, held, nvs, mgr, failed, raced, radio>>
          BY <2>1 DEF vars, flags, history
    <3>2. QED  BY <3>1, SettingsElsewhere
  <2>2. CASE Manager
        BY <2>2, BringUpSettings, LoopSettings DEF Manager
  <2>3. CASE Next
        BY <2>2, <2>3, NetworkSettings, EventSettings, UserSettings, FreshSettings
        DEF Next, SettingInv, CountInv, LinkInv
  <2>4. QED  BY <2>1, <2>3
<1>3. QED  BY <1>1, <1>2 DEF SettingInv, Settings

(* What a step of bring-up or of a command has done, and what agrees while *)
(* none is under way.                                                      *)
THEOREM SettingInvariant == OneUser /\ ~Early => (Spec => []SettingInv)
<1> SUFFICES ASSUME OneUser, ~Early PROVE Spec => []SettingInv  OBVIOUS
<1>1. Init => SettingInv
      BY FreshLink, FreshCount, FreshSettings DEF SettingInv, CountInv, Settings
<1>2. SettingInv /\ [Next]_vars => SettingInv'  BY SettingInvNext
<1>3. QED  BY <1>1, <1>2, PTL DEF Spec

(* A headless board comes back as it was left: whenever no command is      *)
(* under way NVS, RAM, the driver's configuration and the radio's mode     *)
(* agree, wherever power had failed (net_wifi_task, net_wifi_set_sta and   *)
(* the two switches); for one task of commands that waits for bring-up.    *)
THEOREM ComesBack == OneUser /\ ~Early => (Spec => []ResumesAsLeft)
<1>1. SettingInv => ResumesAsLeft
  <2> SUFFICES ASSUME SettingInv, Settled
               PROVE  /\ "sta" \notin failed => nvs.sta = staOn
                      /\ "ap" \notin failed => nvs.ap = apOn
                      /\ radio.mode = (IF apOn THEN "apsta" ELSE "sta")
                      /\ "creds" \notin failed =>
                           /\ radio.cfg = creds /\ want = (creds.ssid # 0)
                           /\ creds = [ssid |-> nvs.ssid, pass |-> nvs.pass]
      BY DEF ResumesAsLeft
  <2>1. mgr \in Running /\ Agreed  BY DEF SettingInv, Settled, Running
  <2>2. \A P : "idle" \notin P => ~At(P)  BY DEF Settled, Idling, At
  <2>3. /\ ~At({"switch"}) /\ ~At({"apflag"}) /\ ~At({"apset"}) /\ ~At({"pass", "copy"})
        /\ ~At({"drop", "read"}) /\ ~At({"drop", "read", "config"})
        BY <2>2
  <2>4. QED  BY <2>1, <2>3 DEF Agreed
<1>2. QED  BY <1>1, SettingInvariant, PTL

(* Switching the station off or giving it another network leaves no join   *)
(* and no link that is not wanted, but for a join that raced with the      *)
(* command (net_wifi_set_sta, net_wifi_set_sta_enabled, net_wifi_task).    *)
THEOREM NoUnwantedLink == OneUser /\ ~Early => (Spec => []LinkIsWantedUnlessRaced)
<1>1. SettingInv => LinkIsWantedUnlessRaced
  <2> SUFFICES ASSUME SettingInv, Settled, "creds" \notin failed, radio.link # "idle", ~raced
               PROVE  staOn /\ radio.net = creds
      BY DEF LinkIsWantedUnlessRaced
  <2>1. Wanted  BY DEF SettingInv
  <2>2. \A P : "idle" \notin P => ~At(P)  BY DEF Settled, Idling, At
  <2>3. ~At({"dropoff"}) /\ ~At({"drop"})  BY <2>2
  <2>4. QED  BY <2>1, <2>3 DEF Wanted
<1>2. QED  BY <1>1, SettingInvariant, PTL
=============================================================================
