-------------------------------- MODULE Wifi --------------------------------
(***************************************************************************)
(* The Wi-Fi manager of src/main/net_wifi.c: the two halves of the radio,  *)
(* the commands that switch them (shell.c, web_config.c), the events of    *)
(* the driver, the task that retries a join with a growing delay, the      *)
(* bring-up at boot and what is kept in NVS across a restart.              *)
(*                                                                         *)
(* Commands come from two tasks that share no lock, and both run beside    *)
(* the manager; a command is split at every call that leaves the CPU.  An  *)
(* event handler is one step: the event task outranks the others and they  *)
(* are on its core.  Time passes in slices of the manager's wait.          *)
(***************************************************************************)
EXTENDS Integers, Sequences, FiniteSetsExt

CONSTANTS
  Users,               \* tasks that give commands: "console", "web"
  Networks,            \* SSIDs, positive; 0 is the empty one
  Retry, Quiet,        \* STA_RETRY_MS and STA_QUIET_MS, in slices
  Shifts,              \* STA_BACKOFF_SHIFTS
  MaxClients,          \* AP_MAX_CONN
  Eth,                 \* the cable is plugged in and has a lease
  Early,               \* commands are given during bring-up, too
  Commands, Disturbances, Backlog   \* bounds: commands; moves, resets and errors together; events

ASSUME WifiAssumption ==
  /\ Users \subseteq {"console", "web"} /\ Networks \subseteq Nat \ {0}
  /\ {Retry, Quiet, Shifts, MaxClients, Commands, Disturbances, Backlog} \subseteq Nat
  /\ Retry > 0 /\ {Eth, Early} \subseteq BOOLEAN

VARIABLES
  state,               \* s_state
  staOn, apOn, want,   \* s_sta_on, s_ap_on, s_sta_want
  creds,               \* s_ssid and s_pass
  clients, leased,     \* s_ap_clients, s_sta_ip4 # 0
  tries, waited,       \* s_join_tries, s_waited_ms
  mgr, force, notified,\* net_wifi_task: where it is, its local, its notification
  cmd,                 \* the command each user is in
  held,                \* the wifi_config_t or the flags a task has read
  nvs,                 \* keys of the namespace "netcfg"
  radio,               \* the driver and the co-processor
  events,              \* of the default event loop
  home,                \* configurations with which a join succeeds here
  left,                \* what is left of the bounds
  failed,              \* history: settings whose last command returned an error
  raced                \* history: a join was ordered in the middle of a command

flags   == <<staOn, apOn, want, creds>>
joining == <<tries, waited, force, notified>>
history == <<failed, raced>>
vars == <<state, flags, clients, leased, joining, mgr, cmd, held, nvs, radio, events, home, left,
          history>>

None  == [ssid |-> 0, pass |-> FALSE]          \* no upstream network
Given == {None} \cup [ssid : Networks, pass : BOOLEAN]
Keyed == {c \in Given : c.pass}                         \* every network has a key
Creds == Given \cup {[ssid |-> 0, pass |-> TRUE]}     \* what a reset may leave in NVS
Tasks == Users \cup {"mgr"}
Idle  == [at |-> "idle", on |-> FALSE, new |-> None]
Off   == [started |-> FALSE, mode |-> "null", cfg |-> None, link |-> "idle", net |-> None, assoc |-> 0]

(* The saturating counts: no larger value makes a difference to the delay. *)
RetryDelay(t, c) ==
  LET ms == Retry * 2^(IF t < Shifts THEN t ELSE Shifts)
  IN  IF c > 0 /\ ms < Quiet THEN Quiet ELSE ms
LongestDelay == RetryDelay(Shifts, 1)

NextTry == IF tries < Shifts THEN tries + 1 ELSE tries
Waited  == IF waited < LongestDelay THEN waited + 1 ELSE waited

PowerOn ==
  /\ state' = "init" /\ staOn' = TRUE /\ apOn' = TRUE /\ want' = FALSE /\ creds' = None
  /\ clients' = 0 /\ leased' = FALSE /\ tries' = 0 /\ waited' = 0
  /\ mgr' = "init" /\ force' = FALSE /\ notified' = FALSE
  /\ cmd' = [u \in Users |-> Idle] /\ held' = [t \in Tasks |-> None]
  /\ radio' = Off /\ events' = <<>> /\ failed' = {} /\ raced' = FALSE

Init ==
  /\ state = "init" /\ staOn = TRUE /\ apOn = TRUE /\ want = FALSE /\ creds = None
  /\ clients = 0 /\ leased = FALSE /\ tries = 0 /\ waited = 0
  /\ mgr = "init" /\ force = FALSE /\ notified = FALSE
  /\ cmd = [u \in Users |-> Idle] /\ held = [t \in Tasks |-> None]
  /\ radio = Off /\ events = <<>> /\ failed = {} /\ raced = FALSE
  /\ nvs \in {[ssid |-> c.ssid, pass |-> c.pass, sta |-> TRUE, ap |-> TRUE] : c \in Keyed \cup {None}}
  /\ home = Keyed
  /\ left = [commands |-> Commands, disturbances |-> Disturbances]

Spend(what) == left[what] > 0 /\ left' = [left EXCEPT ![what] = @ - 1]

-----------------------------------------------------------------------------
(* The driver.  Operators with a prime are calls; the rest is the network  *)

Post(e) == events' = Append(events, e)

(* esp_wifi_disconnect(): an event follows if there was anything to drop.  *)
Disconnect ==
  IF radio.link = "idle" THEN UNCHANGED <<radio, events>>
  ELSE radio' = [radio EXCEPT !.link = "idle", !.net = None] /\ Post("lost")

(* esp_wifi_connect(): refused while a join or a link is there.            *)
Connect ==
  radio' = IF radio.link = "idle" THEN [radio EXCEPT !.link = "joining", !.net = radio.cfg] ELSE radio

(* esp_wifi_set_mode(): stopping the SoftAP drops its stations silently.   *)
SetMode(m) ==
  /\ radio' = [radio EXCEPT !.mode = m, !.assoc = IF m = "sta" THEN 0 ELSE @]
  /\ IF radio.started /\ m = "apsta" /\ radio.mode = "sta" THEN Post("ap_start")
                                                           ELSE UNCHANGED events

NetworkOnly ==
  UNCHANGED <<state, flags, clients, leased, joining, mgr, cmd, held, nvs, home, left, history>>

Associate ==
  /\ radio.link = "joining" /\ radio.net \in home
  /\ radio' = [radio EXCEPT !.link = "up"]
  /\ NetworkOnly /\ UNCHANGED events

Lease ==
  /\ radio.link = "up"
  /\ radio' = [radio EXCEPT !.link = "leased"] /\ Post("ip")
  /\ NetworkOnly

(* The network is out of reach, has another key, or went away.             *)
LinkLost ==
  /\ radio.link # "idle" /\ radio.net \notin home
  /\ Disconnect /\ raced' = FALSE
  /\ UNCHANGED <<state, flags, clients, leased, joining, mgr, cmd, held, nvs, home, left, failed>>

Move == /\ Spend("disturbances") /\ home' \in SUBSET Keyed /\ home' # home /\ Len(events) < Backlog
        /\ UNCHANGED <<state, flags, clients, leased, joining, mgr, cmd, held, nvs, radio, events, history>>

StationJoins ==
  /\ radio.started /\ radio.mode = "apsta" /\ radio.assoc < MaxClients /\ Len(events) < Backlog
  /\ radio' = [radio EXCEPT !.assoc = @ + 1] /\ Post("joined")
  /\ NetworkOnly

StationLeaves ==
  /\ radio.assoc > 0 /\ Len(events) < Backlog
  /\ radio' = [radio EXCEPT !.assoc = @ - 1] /\ Post("left")
  /\ NetworkOnly

Driver  == Associate \/ Lease \/ LinkLost
Network == Driver \/ Move \/ StationJoins \/ StationLeaves

-----------------------------------------------------------------------------
(* The event handlers                                                      *)

(* AP_START says "not joined", whatever the station does.                  *)
OnApStart_Always ==
  /\ Head(events) = "ap_start" /\ state' = "ap" /\ UNCHANGED <<clients, leased, tries>>

OnApStart ==
  /\ Head(events) = "ap_start"
  /\ state' = IF state # "sta" THEN "ap" ELSE state
  /\ UNCHANGED <<clients, leased, tries>>

OnStaConnected ==
  /\ Head(events) = "joined"
  /\ clients' = clients + 1 /\ UNCHANGED <<state, leased, tries>>

OnStaDisconnected ==
  /\ Head(events) = "left"
  /\ clients' = (IF clients > 0 THEN clients - 1 ELSE clients) /\ UNCHANGED <<state, leased, tries>>

OnLost ==
  /\ Head(events) = "lost"
  /\ leased' = FALSE /\ state' = (IF state = "sta" THEN "ap" ELSE state)
  /\ UNCHANGED <<clients, tries>>

OnGotIp ==
  /\ Head(events) = "ip"
  /\ leased' = TRUE /\ state' = "sta" /\ tries' = 0 /\ UNCHANGED clients

Event ==
  /\ events # <<>>
  /\ OnApStart \/ OnStaConnected \/ OnStaDisconnected \/ OnLost \/ OnGotIp
  /\ events' = Tail(events)
  /\ UNCHANGED <<flags, waited, force, notified, mgr, cmd, held, nvs, radio, home, left, history>>

-----------------------------------------------------------------------------
(* net_wifi_task: bring-up, then the retry loop                            *)

MgrOnly == UNCHANGED <<cmd, nvs, home, failed>>

(* Any call of the bring-up may fail; the task is gone then.               *)
BringUpFails ==
  /\ mgr \in {"init", "load", "flags", "read", "config", "narrow", "start"}
  /\ Spend("disturbances") /\ state' = "off" /\ mgr' = "gone" /\ MgrOnly
  /\ UNCHANGED <<flags, clients, leased, joining, held, radio, events, raced>>

InitRadio ==
  /\ mgr = "init" /\ mgr' = "load"
  /\ MgrOnly /\ UNCHANGED <<state, flags, clients, leased, joining, held, radio, events, left, raced>>

(* The flags are read from NVS and assigned later, under no lock that the  *)
(* switches would take.                                                    *)
LoadCreds ==
  /\ mgr = "load" /\ mgr' = "flags"
  /\ creds' = [ssid |-> nvs.ssid, pass |-> nvs.pass]
  /\ held' = [held EXCEPT !["mgr"] = [sta |-> nvs.sta, ap |-> nvs.ap]]
  /\ MgrOnly /\ UNCHANGED <<state, staOn, apOn, want, clients, leased, joining, radio, events, left, raced>>

LoadFlags ==
  /\ mgr = "flags" /\ mgr' = "read"
  /\ staOn' = held["mgr"].sta /\ apOn' = held["mgr"].ap
  /\ held' = [held EXCEPT !["mgr"] = None]
  /\ MgrOnly /\ UNCHANGED <<state, want, creds, clients, leased, joining, radio, events, left, raced>>

(* sta_config_apply(), shared with net_wifi_set_sta().                     *)
ReadCreds(t) == held' = [held EXCEPT ![t] = creds] /\ want' = (creds.ssid # 0)
SetConfig(t) == radio' = [radio EXCEPT !.cfg = held[t]] /\ held' = [held EXCEPT ![t] = None]

BringUpRead ==
  /\ mgr = "read" /\ mgr' = "config" /\ ReadCreds("mgr")
  /\ MgrOnly
  /\ UNCHANGED <<state, staOn, apOn, creds, clients, leased, joining, radio, events, left, raced>>

BringUpConfig ==
  /\ mgr = "config" /\ mgr' = "narrow" /\ SetConfig("mgr")
  /\ MgrOnly /\ UNCHANGED <<state, flags, clients, leased, joining, events, left, raced>>

Narrow ==
  /\ mgr = "narrow" /\ mgr' = "start" /\ SetMode(IF apOn THEN "apsta" ELSE "sta")
  /\ MgrOnly /\ UNCHANGED <<state, flags, clients, leased, joining, held, left, raced>>

StartRadio ==
  /\ mgr = "start" /\ mgr' = "check" /\ force' = TRUE
  /\ radio' = [radio EXCEPT !.started = TRUE]
  /\ IF radio.mode = "apsta" THEN Post("ap_start") ELSE UNCHANGED events
  /\ MgrOnly /\ UNCHANGED <<state, flags, clients, leased, tries, waited, notified, held, left, raced>>

Due == want /\ staOn /\ state # "sta" /\ (force \/ waited >= RetryDelay(tries, clients))

Check ==
  /\ mgr = "check"
  /\ IF Due THEN mgr' = "connect" /\ force' = FALSE /\ waited' = 0 /\ tries' = NextTry
            ELSE mgr' = "wait" /\ UNCHANGED <<force, waited, tries>>
  /\ MgrOnly /\ UNCHANGED <<state, flags, clients, leased, notified, held, radio, events, left, raced>>

(* A join ordered between a command's disconnect and its new configuration *)
(* still uses the old one; so does one decided on before and ordered after.*)
Join ==
  /\ mgr = "connect" /\ mgr' = "wait" /\ Connect
  /\ raced' = (raced \/ \E u \in Users : cmd[u].at \in {"read", "config"})
  /\ MgrOnly /\ UNCHANGED <<state, flags, clients, leased, joining, held, events, left>>

Notified ==
  /\ mgr = "wait" /\ mgr' = "check" /\ notified
  /\ notified' = FALSE /\ tries' = 0 /\ force' = TRUE
  /\ MgrOnly /\ UNCHANGED <<state, flags, clients, leased, waited, held, radio, events, left, raced>>

(* The wait is not counted.                                                *)
Slice_Uncounted ==
  /\ mgr = "wait" /\ mgr' = "check" /\ ~notified /\ events = <<>>
  /\ MgrOnly
  /\ UNCHANGED <<state, flags, clients, leased, joining, held, radio, events, left, raced>>

(* A slice is five seconds; the handlers of the events take far less.      *)
Slice ==
  /\ mgr = "wait" /\ mgr' = "check" /\ ~notified /\ events = <<>> /\ waited' = Waited
  /\ MgrOnly
  /\ UNCHANGED <<state, flags, clients, leased, tries, force, notified, held, radio, events, left, raced>>

BringUp == InitRadio \/ LoadCreds \/ LoadFlags \/ BringUpRead \/ BringUpConfig \/ Narrow \/ StartRadio
Manager == BringUp \/ BringUpFails \/ Check \/ Join \/ Notified \/ Slice

-----------------------------------------------------------------------------
(* The commands                                                            *)

UserOnly == UNCHANGED <<waited, force, mgr, home>>
Goto(u, where) == cmd' = [cmd EXCEPT ![u].at = where]
End(u, key, ok) ==
  /\ cmd'    = [cmd EXCEPT ![u] = Idle]
  /\ failed' = IF ok THEN failed \ {key} ELSE failed \cup {key}

MayCommand(u) == cmd[u].at = "idle" /\ (Early \/ mgr \in {"check", "connect", "wait", "gone"})

Begin(u, first, on, new) ==
  /\ cmd' = [cmd EXCEPT ![u] = [at |-> first, on |-> on, new |-> new]]
  /\ UserOnly
  /\ UNCHANGED <<state, flags, clients, leased, tries, notified, held, nvs, radio, events, history>>

(* "wifi sta <ssid> <password>", "wifi sta clear"; the page's form, where a*)
(* blank password with the SSID that is already set changes nothing.       *)
StaCommand(u) ==
  /\ MayCommand(u) /\ Spend("commands")
  /\ \E c \in Given :
       /\ u = "web" /\ c # None /\ ~c.pass => c.ssid # creds.ssid
       /\ Begin(u, "ssid", FALSE, c)

StaSwitch(u) ==
  /\ MayCommand(u) /\ Spend("commands")
  /\ \E on \in BOOLEAN : Begin(u, "staflag", on, None)

(* Both front ends refuse to cut the last path to the board; the console   *)
(* can be told to do it anyway.                                            *)
ApSwitch(u) ==
  /\ MayCommand(u) /\ Spend("commands")
  /\ \E on \in BOOLEAN :
       /\ on \/ Eth \/ state = "sta" \/ u = "console"
       /\ Begin(u, "mode", on, None)

(* net_wifi_set_sta(): an error of NVS ends it where it is.                *)
StoreFails(u) ==
  /\ cmd[u].at \in {"ssid", "pass"} /\ Spend("disturbances") /\ End(u, "creds", FALSE)
  /\ UserOnly /\ UNCHANGED <<state, flags, clients, leased, tries, notified, held, nvs, radio, events, raced>>

StoreSsid(u) ==
  /\ cmd[u].at = "ssid" /\ Goto(u, "pass") /\ nvs' = [nvs EXCEPT !.ssid = cmd[u].new.ssid]
  /\ UserOnly /\ UNCHANGED <<state, flags, clients, leased, tries, notified, held, radio, events, left, history>>

StorePass(u) ==
  /\ cmd[u].at = "pass" /\ Goto(u, "copy") /\ nvs' = [nvs EXCEPT !.pass = cmd[u].new.pass]
  /\ UserOnly /\ UNCHANGED <<state, flags, clients, leased, tries, notified, held, radio, events, left, history>>

CopyCreds(u) ==
  /\ cmd[u].at = "copy" /\ Goto(u, "drop") /\ creds' = cmd[u].new
  /\ UserOnly
  /\ UNCHANGED <<state, staOn, apOn, want, clients, leased, tries, notified, held, nvs, radio, events,
                 left, history>>

Drop(u) ==
  /\ cmd[u].at = "drop" /\ Goto(u, "read") /\ Disconnect /\ raced' = (mgr = "connect")
  /\ UserOnly /\ UNCHANGED <<state, flags, clients, leased, tries, notified, held, nvs, left, failed>>

ApplyRead(u) ==
  /\ cmd[u].at = "read" /\ Goto(u, "config") /\ ReadCreds(u)
  /\ UserOnly
  /\ UNCHANGED <<state, staOn, apOn, creds, clients, leased, tries, notified, nvs, radio, events, left,
                 history>>

(* The notification is given whether or not the driver took the settings.  *)
ApplyConfig(u) ==
  /\ cmd[u].at = "config" /\ notified' = TRUE
  /\ \/ SetConfig(u) /\ End(u, "creds", TRUE) /\ UNCHANGED left
     \/ Spend("disturbances") /\ End(u, "creds", FALSE)
        /\ held' = [held EXCEPT ![u] = None] /\ UNCHANGED radio
  /\ UserOnly /\ UNCHANGED <<state, flags, clients, leased, tries, nvs, events, raced>>

SetSta(u) == StoreFails(u) \/ StoreSsid(u) \/ StorePass(u) \/ CopyCreds(u)
             \/ Drop(u) \/ ApplyRead(u) \/ ApplyConfig(u)

(* The switch of the SoftAP is kept in RAM only.                           *)
StoreFlag_Forgets(u, key) == UNCHANGED <<nvs, left, failed>>

(* nvs_set_flag(), for either half: what it returns is reported, no more.  *)
StoreFlag(u, key) ==
  \/ nvs' = [nvs EXCEPT ![key] = cmd[u].on] /\ failed' = failed \ {key} /\ UNCHANGED left
  \/ Spend("disturbances") /\ failed' = failed \cup {key} /\ UNCHANGED nvs

StaFlag(u) ==
  /\ cmd[u].at = "staflag" /\ Goto(u, "switch") /\ StoreFlag(u, "sta")
  /\ UserOnly /\ UNCHANGED <<state, flags, clients, leased, tries, notified, held, radio, events, raced>>

Switch(u) ==
  /\ cmd[u].at = "switch" /\ Goto(u, IF cmd[u].on THEN "again" ELSE "dropoff") /\ staOn' = cmd[u].on
  /\ UserOnly
  /\ UNCHANGED <<state, apOn, want, creds, clients, leased, tries, notified, held, nvs, radio, events,
                 left, history>>

(* Switching the station off only stops the loop.                          *)
SwitchDrops_Nothing(u) ==
  /\ cmd[u].at = "dropoff" /\ cmd' = [cmd EXCEPT ![u] = Idle]
  /\ raced' = (mgr = "connect")
  /\ UserOnly
  /\ UNCHANGED <<state, flags, clients, leased, tries, notified, held, nvs, radio, events, left, failed>>

SwitchDrops(u) ==
  /\ cmd[u].at = "dropoff" /\ cmd' = [cmd EXCEPT ![u] = Idle]
  /\ Disconnect /\ raced' = (mgr = "connect")
  /\ UserOnly /\ UNCHANGED <<state, flags, clients, leased, tries, notified, held, nvs, left, failed>>

SwitchWakes(u) ==
  /\ cmd[u].at = "again" /\ cmd' = [cmd EXCEPT ![u] = Idle]
  /\ tries' = 0 /\ notified' = TRUE
  /\ UserOnly /\ UNCHANGED <<state, flags, clients, leased, held, nvs, radio, events, left, history>>

SetStaEnabled(u) == StaFlag(u) \/ Switch(u) \/ SwitchDrops(u) \/ SwitchWakes(u)

(* net_wifi_set_ap_enabled()                                               *)
TooEarly == state \in {"off", "init"}

ApRefused(u) ==
  /\ cmd[u].at = "mode" /\ cmd' = [cmd EXCEPT ![u] = Idle]
  /\ (TooEarly /\ UNCHANGED left) \/ Spend("disturbances")
  /\ UserOnly
  /\ UNCHANGED <<state, flags, clients, leased, tries, notified, held, nvs, radio, events, history>>

ApMode(u) ==
  /\ cmd[u].at = "mode" /\ ~TooEarly
  /\ Goto(u, "apset") /\ SetMode(IF cmd[u].on THEN "apsta" ELSE "sta")
  /\ UserOnly /\ UNCHANGED <<state, flags, clients, leased, tries, notified, held, nvs, left, history>>

(* The stations are forgotten whichever way the SoftAP is switched.        *)
ApSet_Always(u) ==
  /\ cmd[u].at = "apset" /\ Goto(u, "apflag") /\ apOn' = cmd[u].on /\ clients' = 0
  /\ UserOnly
  /\ UNCHANGED <<state, staOn, want, creds, leased, tries, notified, held, nvs, radio, events, left, history>>

ApSet(u) ==
  /\ cmd[u].at = "apset" /\ Goto(u, "apflag")
  /\ apOn' = cmd[u].on /\ clients' = (IF cmd[u].on THEN clients ELSE 0)
  /\ UserOnly
  /\ UNCHANGED <<state, staOn, want, creds, leased, tries, notified, held, nvs, radio, events, left, history>>

ApFlag(u) ==
  /\ cmd[u].at = "apflag" /\ cmd' = [cmd EXCEPT ![u] = Idle] /\ StoreFlag(u, "ap")
  /\ UserOnly /\ UNCHANGED <<state, flags, clients, leased, tries, notified, held, radio, events, raced>>

SetApEnabled(u) == ApRefused(u) \/ ApMode(u) \/ ApSet(u) \/ ApFlag(u)

User(u) == StaCommand(u) \/ StaSwitch(u) \/ ApSwitch(u) \/ SetSta(u) \/ SetStaEnabled(u) \/ SetApEnabled(u)

(* The board is reset or loses power at any moment.  NVS keeps a prefix of *)
(* what it was given.                                                      *)
Reboot == Spend("disturbances") /\ PowerOn /\ UNCHANGED <<nvs, home>>

Next == Network \/ Event \/ Manager \/ (\E u \in Users : User(u)) \/ Reboot

Spec == Init /\ [][Next]_vars

(* Slices end however many stations come and go.                           *)
Fairness == WF_radio(Driver) /\ WF_events(Event) /\ WF_mgr(Manager) /\ SF_mgr(Slice)
            /\ \A u \in Users : WF_cmd(SetSta(u) \/ SetStaEnabled(u) \/ SetApEnabled(u))
FairSpec == Spec /\ Fairness

-----------------------------------------------------------------------------
(* Correctness                                                             *)

(* Each variable holds what its C counterpart can hold; the counts that    *)
(* make the delay stay bounded (retry_delay_ms, net_wifi_task).            *)
TypeOK ==
  /\ state \in {"off", "init", "ap", "sta"} /\ creds \in Creds /\ radio.cfg \in Creds /\ radio.net \in Creds
  /\ {staOn, apOn, want, leased, force, notified, raced} \subseteq BOOLEAN
  /\ clients \in 0 .. MaxClients + Backlog /\ tries \in 0 .. Shifts /\ waited \in 0 .. LongestDelay
  /\ radio.assoc \in 0 .. MaxClients /\ failed \subseteq {"creds", "sta", "ap"}

Idling == \A u \in Users : cmd[u].at = "idle"
Settled == Idling /\ events = <<>> /\ mgr \in {"check", "wait"}

(* What the displays and the retry loop are told is true once the events   *)
(* are handled: the state is "joined" exactly while there is a lease, and  *)
(* an address is shown exactly then.  Switching the SoftAP on while the    *)
(* station is joined must not look like a lost link.                       *)
StateTellsLink ==
  events = <<>> => (state = "sta" <=> radio.link = "leased") /\ (leased <=> state = "sta")

(* A headless board comes back the way it was left: whenever no command is *)
(* under way NVS, RAM, the driver's configuration and the radio's mode     *)
(* agree, except for a setting whose last command reported an error        *)
(* (net_wifi_set_sta and the two switches).                                *)
ResumesAsLeft ==
  Settled =>
    /\ "sta" \notin failed => nvs.sta = staOn
    /\ "ap" \notin failed => nvs.ap = apOn
    /\ radio.mode = IF apOn THEN "apsta" ELSE "sta"
    /\ "creds" \notin failed =>
         /\ radio.cfg = creds /\ want = (creds.ssid # 0)
         /\ creds = [ssid |-> nvs.ssid, pass |-> nvs.pass]

(* The count of stations that holds back a join is never below the number  *)
(* there are, so nobody on the SoftAP is dropped by an early sweep.        *)
NeverUndercounts == Settled => clients >= radio.assoc

(* Switching the station off, or giving it another network, leaves no join *)
(* and no link that is not wanted, but for a join that raced with the      *)
(* command: one that was decided on before and ordered after it dropped    *)
(* the link, or ordered before the driver had the new credentials.         *)
LinkIsWantedUnlessRaced ==
  Settled /\ "creds" \notin failed /\ radio.link # "idle" => raced \/ (staOn /\ radio.net = creds)

(* With its network in reach, a station that is wanted and switched on     *)
(* joins, however long the delay had grown.                                *)
Joinable == want /\ staOn /\ radio.started /\ radio.cfg \in home
JoinsInTheEnd == Joinable ~> (state = "sta" \/ ~Joinable)
=============================================================================
