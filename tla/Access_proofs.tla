--------------------------- MODULE Access_proofs ----------------------------
(***************************************************************************)
(* The doors of the board, for any number of callers, screens, images and  *)
(* failures of power.                                                      *)
(***************************************************************************)
EXTENDS Access, TLAPS

-----------------------------------------------------------------------------
(* The SSH server                                                          *)

Session   == [authed : BOOLEAN, channel : BOOLEAN, tries : Nat, i : Nat]
InSession == {"kex", "auth", "shell"}

SshTypeOK ==
  /\ ssh_at \in {"boot", "down", "loop", "kex", "auth", "shell"}
  /\ s_pass \in BOOLEAN
  /\ ssh_nvs \in [pass : BOOLEAN, key : Nat]
  /\ bind_key \in Nat /\ made \in Nat /\ known \in Nat
  /\ sess \in Session
  /\ calls \in [SshCallers -> {"none", "queued", "session", "shut"}]

(* The listener has a key, and none that clients were not told of.         *)
KeyInUse ==
  /\ Listening <=> bind_key # 0
  /\ bind_key # 0 /\ known # 0 => bind_key = known

(* The task serves one caller, and nobody while it serves no one.          *)
OneServed ==
  /\ ssh_at \notin InSession => Served = {}
  /\ ssh_at \in InSession => \E c \in SshCallers : Served = {c}

(* A login has tries and polls left; outside it there is none.             *)
LoginEnds ==
  /\ sess.tries < AuthTries /\ sess.i < AuthPolls
  /\ ssh_at # "auth" => sess = NoSess

SshInv == SshTypeOK /\ HostKeyKept /\ KeyInUse /\ OneServed /\ LoginEnds

(* An empty session is one that may go on.                                 *)
LEMMA NoSessIs ==
  /\ NoSess \in Session
  /\ NoSess.tries < AuthTries /\ NoSess.i < AuthPolls
  BY SshAssumption DEF NoSess, Session

(* What has been hung up is in no session.                                 *)
LEMMA AllDropped ==
  ASSUME SshTypeOK, calls' = Dropped
  PROVE  calls' \in [SshCallers -> {"none", "queued", "session", "shut"}] /\ Served' = {}
  BY DEF SshTypeOK, Dropped, Served

(* At power on.                                                            *)
LEMMA SshInitInv == SshInit => SshInv
<1> SUFFICES ASSUME SshInit PROVE SshInv  OBVIOUS
<1> USE DEF SshInit
<1>1. SshTypeOK  BY NoSessIs DEF SshTypeOK
<1>2. HostKeyKept /\ KeyInUse  BY DEF HostKeyKept, KeyInUse, Listening
<1>3. OneServed  BY DEF OneServed, Served, InSession
<1>4. LoginEnds  BY NoSessIs DEF LoginEnds
<1>5. QED  BY <1>1, <1>2, <1>3, <1>4 DEF SshInv

(* The network and the power switch.                                       *)
LEMMA OutsideInv ==
  ASSUME SshInv, PowerCycle \/ \E c \in SshCallers : Call(c) \/ CallAgain(c)
  PROVE  SshInv'
<1>0. SshTypeOK /\ HostKeyKept /\ KeyInUse /\ OneServed /\ LoginEnds  BY DEF SshInv
<1>1. CASE PowerCycle
  <2> USE DEF PowerCycle
  <2>1. SshTypeOK'  BY <1>0, <1>1, NoSessIs DEF SshTypeOK
  <2>2. (HostKeyKept /\ KeyInUse)'  BY <1>0, <1>1 DEF HostKeyKept, KeyInUse, Listening
  <2>3. OneServed'  BY <1>1 DEF OneServed, Served, InSession
  <2>4. LoginEnds'  BY <1>1, NoSessIs DEF LoginEnds
  <2>5. QED  BY <2>1, <2>2, <2>3, <2>4 DEF SshInv
<1>2. ASSUME NEW c \in SshCallers, Call(c) \/ CallAgain(c) PROVE SshInv'
  <2>1. /\ calls[c] \in {"none", "shut"} /\ calls' \in {[calls EXCEPT ![c] = "queued"], [calls EXCEPT ![c] = "none"]}
        /\ UNCHANGED <<ssh_at, s_state, s_pass, ssh_nvs, bind_key, sess, made, known>>
    BY <1>2 DEF Call, CallAgain
  <2>2. SshTypeOK'  BY <1>0, <2>1 DEF SshTypeOK
  <2>3. Served' = Served  BY <1>0, <2>1 DEF Served, SshTypeOK
  <2>4. (HostKeyKept /\ KeyInUse /\ OneServed /\ LoginEnds)'
    BY <1>0, <2>1, <2>3 DEF HostKeyKept, KeyInUse, Listening, OneServed, LoginEnds
  <2>5. QED  BY <2>2, <2>4 DEF SshInv
<1>3. QED  BY <1>1, <1>2

(* The commands that change what is stored.                                *)
LEMMA StoreInv == SshInv /\ (SetLogin \/ Off \/ Regen) => SshInv'
<1> SUFFICES ASSUME SshInv, SetLogin \/ Off \/ Regen PROVE SshInv'  OBVIOUS
<1>0. SshTypeOK /\ HostKeyKept /\ KeyInUse /\ OneServed /\ LoginEnds  BY DEF SshInv
<1>1. UNCHANGED <<ssh_at, bind_key, sess, calls, made>>  BY DEF SetLogin, Off, Regen
<1>2. CASE SetLogin \/ Off
  <2>1. /\ ssh_nvs' \in [pass : BOOLEAN, key : Nat] /\ ssh_nvs'.key = ssh_nvs.key /\ known' = known
        /\ s_pass' \in BOOLEAN
    BY <1>0, <1>2 DEF SetLogin, Off, SshTypeOK
  <2>2. SshTypeOK'  BY <1>0, <1>1, <2>1 DEF SshTypeOK
  <2>3. (HostKeyKept /\ KeyInUse)'  BY <1>0, <1>1, <2>1 DEF HostKeyKept, KeyInUse, Listening
  <2>4. (OneServed /\ LoginEnds)'  BY <1>0, <1>1 DEF OneServed, Served, LoginEnds
  <2>5. QED  BY <2>2, <2>3, <2>4 DEF SshInv
<1>3. CASE Regen
  <2>1. /\ ssh_nvs' \in [pass : BOOLEAN, key : Nat] /\ known' = 0 /\ s_pass' = s_pass
    BY <1>0, <1>3 DEF Regen, SshTypeOK
  <2>2. SshTypeOK'  BY <1>0, <1>1, <2>1 DEF SshTypeOK
  <2>3. (HostKeyKept /\ KeyInUse)'  BY <1>0, <1>1, <2>1 DEF HostKeyKept, KeyInUse, Listening
  <2>4. (OneServed /\ LoginEnds)'  BY <1>0, <1>1 DEF OneServed, Served, LoginEnds
  <2>5. QED  BY <2>2, <2>3, <2>4 DEF SshInv
<1>4. QED  BY <1>2, <1>3

(* The key at the start of the task: the one stored, one that was stored,  *)
(* or none.                                                                *)
LEMMA KeyInv == SshInv /\ (LoadKey \/ CreateKey) => SshInv'
<1> SUFFICES ASSUME SshInv, LoadKey \/ CreateKey PROVE SshInv'  OBVIOUS
<1>0. SshTypeOK /\ HostKeyKept /\ KeyInUse /\ OneServed /\ LoginEnds  BY DEF SshInv
<1>1. ssh_at = "boot" /\ UNCHANGED <<s_pass, sess, calls>>  BY DEF LoadKey, CreateKey
<1>2. /\ ssh_at' = IF bind_key' = 0 THEN "down" ELSE "loop"
      /\ bind_key' \in Nat /\ known' \in Nat /\ made' \in Nat
      /\ bind_key' # 0 /\ known' # 0 => bind_key' = known'
      /\ known' # 0 => ssh_nvs'.key = known'
      /\ ssh_nvs' \in [pass : BOOLEAN, key : Nat]
  <2>1. CASE LoadKey  BY <1>0, <2>1 DEF LoadKey, Starts, SshTypeOK
  <2>2. ASSUME made' = made + 1, NEW stored \in BOOLEAN, Starts(InUse(made', stored)),
               ssh_nvs' \in {[ssh_nvs EXCEPT !.key = made']} \cup (IF stored THEN {} ELSE {ssh_nvs}),
               known' = InUse(made', stored)
        PROVE  /\ ssh_at' = IF bind_key' = 0 THEN "down" ELSE "loop"
               /\ bind_key' \in Nat /\ known' \in Nat /\ made' \in Nat /\ bind_key' = known'
               /\ known' # 0 => ssh_nvs'.key = known'
               /\ ssh_nvs' \in [pass : BOOLEAN, key : Nat]
    <3>1. made' \in Nat  BY <1>0, <2>2 DEF SshTypeOK
    <3>2. bind_key' = known' /\ known' \in {0, made'} /\ (known' # 0 => stored)  BY <2>2 DEF Starts, InUse
    <3>3. ssh_nvs' \in {ssh_nvs, [ssh_nvs EXCEPT !.key = made']}
          /\ (stored => ssh_nvs' = [ssh_nvs EXCEPT !.key = made'])
      BY <2>2
    <3>4. QED  BY <1>0, <2>2, <3>1, <3>2, <3>3 DEF Starts, SshTypeOK
  <2>3. CASE CreateKey /\ Starts(0) /\ UNCHANGED <<made, ssh_nvs, known>>
    BY <1>0, <2>3 DEF Starts, SshTypeOK, HostKeyKept
  <2>4. QED  BY <2>1, <2>2, <2>3 DEF CreateKey
<1>3. SshTypeOK'  BY <1>0, <1>1, <1>2 DEF SshTypeOK
<1>4. (HostKeyKept /\ KeyInUse)'  BY <1>2 DEF HostKeyKept, KeyInUse, Listening
<1>5. (OneServed /\ LoginEnds)'  BY <1>0, <1>1, <1>2 DEF OneServed, Served, LoginEnds, InSession
<1>6. QED  BY <1>3, <1>4, <1>5 DEF SshInv

(* A poll of a login that goes on leaves tries and time.                   *)
LEMMA BroughtIs ==
  ASSUME SshTypeOK, NEW s \in Brought
  PROVE  s \in Session /\ s.i = sess.i + 1
<1>1. sess \in Session  BY DEF SshTypeOK
<1>2. s \in {[sess EXCEPT !.i = @ + 1], [sess EXCEPT !.i = @ + 1, !.tries = @ + 1],
             [sess EXCEPT !.i = @ + 1, !.authed = TRUE], [sess EXCEPT !.i = @ + 1, !.channel = TRUE]}
  BY DEF Brought
<1>3. CASE s = [sess EXCEPT !.i = @ + 1]  BY <1>1, <1>3 DEF Session
<1>4. CASE s = [sess EXCEPT !.i = @ + 1, !.tries = @ + 1]
  <2>1. s = [authed |-> sess.authed, channel |-> sess.channel, tries |-> sess.tries + 1, i |-> sess.i + 1]
    BY <1>1, <1>4, Zenon DEF Session
  <2>2. QED  BY <1>1, <2>1 DEF Session
<1>5. CASE s = [sess EXCEPT !.i = @ + 1, !.authed = TRUE]
  <2>1. s = [authed |-> TRUE, channel |-> sess.channel, tries |-> sess.tries, i |-> sess.i + 1]
    BY <1>1, <1>5 DEF Session
  <2>2. QED  BY <1>1, <2>1 DEF Session
<1>6. CASE s = [sess EXCEPT !.i = @ + 1, !.channel = TRUE]
  <2>1. s = [authed |-> sess.authed, channel |-> TRUE, tries |-> sess.tries, i |-> sess.i + 1]
    BY <1>1, <1>6 DEF Session
  <2>2. QED  BY <1>1, <2>1 DEF Session
<1>7. QED  BY <1>2, <1>3, <1>4, <1>5, <1>6

(* A caller from the queue to the end of its session.                      *)
LEMMA ServeInv ==
  ASSUME SshInv, NoCred \/ Listen \/ KeyExchange \/ Login \/ ShellEnds \/ \E c \in SshCallers : Answer(c)
  PROVE  SshInv'
<1>0. SshTypeOK /\ HostKeyKept /\ KeyInUse /\ OneServed /\ LoginEnds  BY DEF SshInv
<1>1. UNCHANGED <<s_pass, ssh_nvs, bind_key, made, known>>
  BY DEF NoCred, Listen, KeyExchange, Login, ShellEnds, Answer, Take, RejectExtra
<1> DEFINE Goes == /\ ssh_at \in {"loop", "kex", "auth", "shell"} /\ ssh_at' \in {"loop", "kex", "auth", "shell"}
                   /\ sess' \in Session
                   /\ calls' \in [SshCallers -> {"none", "queued", "session", "shut"}]
                   /\ OneServed' /\ LoginEnds'
<1>2. SUFFICES Goes
  <2>1. SshTypeOK'  BY <1>0, <1>1, <1>2 DEF SshTypeOK
  <2>2. (HostKeyKept /\ KeyInUse)'  BY <1>0, <1>1, <1>2 DEF HostKeyKept, KeyInUse, Listening
  <2>3. QED  BY <1>2, <2>1, <2>2 DEF SshInv
<1>3. CASE NoCred \/ Listen
  BY <1>0, <1>3 DEF NoCred, Listen, SshTypeOK, OneServed, Served, LoginEnds
<1>4. ASSUME NEW c \in SshCallers, Take(c) PROVE Goes
  <2>1. sess' = NoSess /\ LoginEnds'  BY <1>4, NoSessIs DEF Take, LoginEnds
  <2>2. ssh_at = "loop" /\ Served = {}  BY <1>0, <1>4 DEF Take, OneServed, InSession
  <2>3. \/ ssh_at' = "kex" /\ calls' = [calls EXCEPT ![c] = "session"]
        \/ ssh_at' = "loop" /\ calls' = [calls EXCEPT ![c] = "shut"]
    BY <1>4 DEF Take
  <2>4. calls' \in [SshCallers -> {"none", "queued", "session", "shut"}]  BY <1>0, <2>3 DEF SshTypeOK
  <2>5. Served' = IF ssh_at' = "kex" THEN {c} ELSE {}  BY <1>0, <2>2, <2>3 DEF Served, SshTypeOK
  <2>6. QED  BY <2>1, <2>2, <2>3, <2>4, <2>5, NoSessIs DEF OneServed, InSession
<1>5. ASSUME NEW c \in SshCallers, RejectExtra(c) PROVE Goes
  <2>1. ssh_at = "shell" /\ calls[c] = "queued" /\ calls' = [calls EXCEPT ![c] = "shut"] /\ UNCHANGED <<ssh_at, sess>>
    BY <1>5 DEF RejectExtra
  <2>2. Served' = Served /\ calls' \in [SshCallers -> {"none", "queued", "session", "shut"}]
    BY <1>0, <2>1 DEF Served, SshTypeOK
  <2>3. QED  BY <1>0, <2>1, <2>2 DEF OneServed, LoginEnds, SshTypeOK
<1>6. CASE KeyExchange \/ ShellEnds
  <2>1. /\ ssh_at \in {"kex", "shell"} /\ sess' = sess
        /\ \/ ssh_at' = "loop" /\ calls' = Dropped
           \/ ssh_at = "kex" /\ ssh_at' = "auth" /\ calls' = calls
    BY <1>6 DEF KeyExchange, ShellEnds, EndSession
  <2>2. LoginEnds'  BY <1>0, <2>1 DEF LoginEnds
  <2>3. calls' = calls => Served' = Served  BY DEF Served
  <2>4. QED  BY <1>0, <2>1, <2>2, <2>3, AllDropped DEF OneServed, InSession, SshTypeOK
<1>7. CASE Login
  <2>1. PICK s \in Brought, gone \in BOOLEAN :
          /\ \/ s.authed /\ s.channel /\ ssh_at' \in {"shell", "loop"}
             \/ ~ gone /\ Waits(s, sess.i) /\ ssh_at' = ssh_at
             \/ ssh_at' = "loop"
          /\ sess' = IF ssh_at' = "auth" THEN s ELSE NoSess
          /\ calls' = IF ssh_at' = "loop" THEN Dropped ELSE calls
    BY <1>7, Zenon DEF Login
  <2>2. ssh_at = "auth" /\ ssh_at' \in {"loop", "auth", "shell"}  BY <1>7, <2>1 DEF Login
  <2>3. s \in Session /\ s.i = sess.i + 1
    BY <1>0, BroughtIs
  <2>4. sess' \in Session /\ LoginEnds'
    <3>1. CASE ssh_at' = "auth"
      <4>1. Waits(s, sess.i) /\ sess' = s  BY <2>1, <2>2, <3>1
      <4>2. QED  BY <2>3, <3>1, <4>1 DEF Waits, LoginEnds
    <3>2. CASE ssh_at' # "auth"  BY <2>1, <3>2, NoSessIs DEF LoginEnds
    <3>3. QED  BY <3>1, <3>2
  <2>5. CASE ssh_at' = "loop"
    <3>1. calls' = Dropped  BY <2>1, <2>5
    <3>2. QED  BY <1>0, <2>2, <2>4, <2>5, <3>1, AllDropped DEF OneServed, InSession
  <2>6. CASE ssh_at' # "loop"
    <3>1. calls' = calls /\ Served' = Served  BY <2>1, <2>6 DEF Served
    <3>2. QED  BY <1>0, <2>2, <2>4, <2>6, <3>1 DEF OneServed, InSession, SshTypeOK
  <2>7. QED  BY <2>5, <2>6
<1> HIDE DEF Goes
<1>8. QED  BY <1>3, <1>4, <1>5, <1>6, <1>7, Zenon DEF Answer

(* What holds of the server at every step.                                 *)
THEOREM SshInvariant == SshSpec => []SshInv
<1>1. SshInv /\ [SshNext]_sshVars => SshInv'
  <2> SUFFICES ASSUME SshInv, [SshNext]_sshVars PROVE SshInv'  OBVIOUS
  <2>1. CASE PowerCycle \/ \E c \in SshCallers : Call(c) \/ CallAgain(c)  BY <2>1, OutsideInv
  <2>2. CASE SetLogin \/ Off \/ Regen  BY <2>2, StoreInv
  <2>3. CASE LoadKey \/ CreateKey  BY <2>3, KeyInv
  <2>4. CASE NoCred \/ Listen \/ KeyExchange \/ Login \/ ShellEnds \/ \E c \in SshCallers : Answer(c)
    BY <2>4, ServeInv
  <2>5. CASE UNCHANGED sshVars
    BY <2>5 DEF sshVars, SshInv, SshTypeOK, HostKeyKept, KeyInUse, Listening, OneServed, Served, LoginEnds
  <2>6. QED  BY <2>1, <2>2, <2>3, <2>4, <2>5, Zenon DEF SshNext, ServeTask
<1>2. QED  BY SshInitInv, <1>1, PTL DEF SshSpec
(* The host key that clients were offered is the one that is stored, what- *)
(* ever fails and whenever the power goes (net_ssh.c:329-368).             *)
THEOREM KeyKept == SshSpec => []HostKeyKept
<1>1. SshInv => HostKeyKept  BY DEF SshInv
<1>2. QED  BY SshInvariant, <1>1, PTL

(* The task serves one caller at a time, with a key that clients know, and *)
(* none beyond its tries and its time (net_ssh.c:656-705).                 *)
THEOREM OneCaller == SshSpec => [](OneServed /\ KeyInUse /\ LoginEnds)
<1>1. SshInv => OneServed /\ KeyInUse /\ LoginEnds  BY DEF SshInv
<1>2. QED  BY SshInvariant, <1>1, PTL

-----------------------------------------------------------------------------
(* The consoles                                                            *)

UartPlace == {"poll", "settle", "banner", "key", "attach", "publish", "front", "prompt", "detach",
              "back", "hold", "settle2", "banner2", "unlock"}
SshPlace  == {"idle", "reset", "swap", "open", "loop", "key", "attach", "publish", "front", "prompt",
              "detach", "back", "hold", "wipe", "restore", "release", "bye"}
SomeScreen == Screens \cup {NoScreen}

ConsoleTypeOK ==
  /\ owner \in {"none", "uart", "ssh"} /\ fg \in [Transport -> SomeScreen]
  /\ ready \in BOOLEAN /\ clearPending \in BOOLEAN
  /\ lock \in {"free", "console", "printer"} /\ stdout \in Transport
  /\ sinks \in [Sink -> [fn : {"none"} \cup Transport, screen : SomeScreen]]
  /\ at \in [Transport -> Place] /\ at["uart"] \in UartPlace /\ at["ssh"] \in SshPlace
  /\ slot \in [Transport -> Sink] /\ opening \in [Transport -> SomeScreen]
  /\ paintLock \in {"free", "draw"} /\ draw \in {"idle", "want", "read", "write"}
  /\ target \in {"none"} \cup Transport /\ idx \in Sink /\ curRun \in 1 .. Runs
  /\ printer \in {"idle", "redraw"}
  /\ shown \in [Transport -> {"text", "clear", "frame"}]

(* Who has the console.                                                    *)
OwnerAt ==
  /\ lock = "console" <=> at["uart"] # "poll"
  /\ lock = "printer" <=> printer = "redraw"
  /\ owner = "ssh" <=> at["ssh"] \notin {"idle", "bye"}
  /\ at["uart"] \in {"banner", "banner2", "attach", "publish", "front"} => owner = "uart"
  /\ at["uart"] = "prompt" => owner # "ssh"
  /\ at["uart"] \in {"detach", "back", "hold"} => owner = "none"

(* Where the prints go.                                                    *)
StdoutAt ==
  /\ at["ssh"] \in {"idle", "reset", "swap", "release", "bye"} => stdout = "uart"
  /\ at["ssh"] \in {"open", "loop", "key", "attach", "publish", "front", "prompt", "wipe", "restore"}
       => stdout = "ssh"

(* The serial port on its way back from a screen.                          *)
WayBackToPrompt ==
  /\ owner = "uart" => fg["uart"] = NoScreen /\ ready
  /\ fg["uart"] # NoScreen => ready
  /\ at["uart"] = "hold" => clearPending /\ ready
  /\ clearPending => at["uart"] \in {"hold", "settle2", "banner2"}
  /\ clearPending /\ at["uart"] = "settle2" => Unsettled

HasSink(u)  == \E i \in Sink : sinks[i].fn = u
SinksShow(u, s) == \A i \in Sink : sinks[i].fn = u => sinks[i].screen = s
Writing(u)  == draw = "write" /\ target = u

(* What is on a terminal, and who may write a frame to it.                 *)
Bare(u)     == fg[u] = NoScreen /\ ~ HasSink(u) /\ ~ Writing(u)
Showing(u)  == fg[u] # NoScreen /\ HasSink(u) /\ SinksShow(u, fg[u])

Face(u) ==
  /\ HasSink(u) \/ Writing(u) => shown[u] \in {"clear", "frame"}
  /\ at[u] \in {"poll", "settle", "banner", "key", "prompt", "settle2", "banner2", "unlock", "loop", "restore"}
       => Showing(u) \/ (Bare(u) /\ (shown[u] = "text" \/ (u = "uart" /\ clearPending)))
  /\ at[u] \in {"attach", "swap", "open"} => Bare(u) /\ shown[u] = "text"
  /\ at[u] \in {"idle", "reset", "release", "bye", "wipe"} => Bare(u)
  /\ at[u] \in {"attach", "publish", "front"} => opening[u] \in Screens
  /\ at[u] = "publish" => Bare(u) /\ shown[u] = "clear" /\ sinks[slot[u]].fn = "none"
  /\ at[u] = "front"   => fg[u] = NoScreen /\ HasSink(u) /\ SinksShow(u, opening[u])
  /\ at[u] = "detach"  => fg[u] # NoScreen
  /\ at[u] = "back"    => fg[u] # NoScreen /\ ~ HasSink(u)
  /\ at[u] = "hold"    => fg[u] = NoScreen /\ ~ HasSink(u)

(* The paint lock is held while a frame is being written.                  *)
PaintLocked ==
  /\ paintLock = "draw" <=> draw \in {"read", "write"}
  /\ draw = "write" => target \in Transport

ConsoleInv == /\ ConsoleTypeOK /\ OwnerAt /\ StdoutAt /\ WayBackToPrompt /\ PaintLocked
              /\ \A u \in Transport : Face(u)

ConsoleControl == ConsoleTypeOK /\ OwnerAt /\ StdoutAt /\ WayBackToPrompt /\ PaintLocked
USE DEF Transport, Sink, Place, UartPlace, SshPlace, SomeScreen, ConsoleControl

(* At power on there is a prompt, or will be.                              *)
LEMMA ConsoleInitInv == Init => ConsoleInv
<1> SUFFICES ASSUME Init PROVE ConsoleInv  OBVIOUS
<1> USE DEF Init, Free
<1>1. ConsoleTypeOK
  <2>1. at \in [Transport -> Place]  OBVIOUS
  <2>2. sinks \in [Sink -> [fn : {"none"} \cup Transport, screen : SomeScreen]]  OBVIOUS
  <2>3. curRun \in 1 .. Runs  BY ConsoleAssumption
  <2>4. fg \in [Transport -> SomeScreen] /\ opening \in [Transport -> SomeScreen]  OBVIOUS
  <2>5. slot \in [Transport -> Sink] /\ shown \in [Transport -> {"text", "clear", "frame"}]  OBVIOUS
  <2>6. at["uart"] \in UartPlace /\ at["ssh"] \in SshPlace  OBVIOUS
  <2>7. ready \in BOOLEAN /\ clearPending \in BOOLEAN  OBVIOUS
  <2>8. QED  BY <2>1, <2>2, <2>3, <2>4, <2>5, <2>6, <2>7 DEF ConsoleTypeOK
<1>2. OwnerAt /\ StdoutAt /\ WayBackToPrompt /\ PaintLocked
  BY DEF OwnerAt, StdoutAt, WayBackToPrompt, PaintLocked
<1>3. \A u \in Transport : Face(u)  BY DEF Face, Bare, Showing, HasSink, Writing
<1>4. QED  BY <1>1, <1>2, <1>3 DEF ConsoleInv

(* A key at a prompt, and the way into a screen.                           *)
LEMMA CommandLineInv ==
  ASSUME ConsoleInv, NEW u \in Transport, CommandLine(u)
  PROVE  ConsoleInv'
<1>0. ConsoleControl /\ \A v \in Transport : Face(v)  BY DEF ConsoleInv
<1> USE ConsoleAssumption
       DEF ConsoleTypeOK, OwnerAt, StdoutAt, WayBackToPrompt, Unsettled, PaintLocked,
           Face, Bare, Showing, HasSink, SinksShow, Writing, Goto, ownVars, drawVars, Text
<1>1. CASE Type(u)
  <2>1. ConsoleControl'  BY <1>0, <1>1 DEF Type, AtPrompt
  <2>2. \A v \in Transport : Face(v)'  BY <1>0, <1>1 DEF Type, AtPrompt
  <2>3. QED  BY <2>1, <2>2 DEF ConsoleInv
<1>2. CASE \E s \in Screens : Open(u, s)
  <2>1. ConsoleControl'  BY <1>0, <1>2 DEF Open, AtPrompt
  <2>2. \A v \in Transport : Face(v)'  BY <1>0, <1>2 DEF Open, AtPrompt
  <2>3. QED  BY <2>1, <2>2 DEF ConsoleInv
<1>3. CASE Attach(u)
  <2>1. ConsoleControl'  BY <1>0, <1>3 DEF Attach
  <2>2. \A v \in Transport : Face(v)'  BY <1>0, <1>3 DEF Attach
  <2>3. QED  BY <2>1, <2>2 DEF ConsoleInv
<1>4. CASE Publish(u)
  <2>1. ConsoleControl'  BY <1>0, <1>4 DEF Publish
  <2>2. \A v \in Transport : Face(v)'  BY <1>0, <1>4 DEF Publish
  <2>3. QED  BY <2>1, <2>2 DEF ConsoleInv
<1>5. CASE Front(u)
  <2>1. ConsoleControl'  BY <1>0, <1>5 DEF Front
  <2>2. \A v \in Transport : Face(v)'  BY <1>0, <1>5 DEF Front
  <2>3. QED  BY <2>1, <2>2 DEF ConsoleInv
<1>6. CASE Prompt(u)
  <2>1. ConsoleControl'  BY <1>0, <1>6 DEF Prompt, Done
  <2>2. \A v \in Transport : Face(v)'  BY <1>0, <1>6 DEF Prompt, Done
  <2>3. QED  BY <2>1, <2>2 DEF ConsoleInv
<1>7. QED  BY <1>1, <1>2, <1>3, <1>4, <1>5, <1>6 DEF CommandLine

(* The way out of a screen.                                                *)
LEMMA LeaveScreenInv ==
  ASSUME ConsoleInv, NEW u \in Transport, LeaveScreen(u)
  PROVE  ConsoleInv'
<1>0. ConsoleControl /\ \A v \in Transport : Face(v)  BY DEF ConsoleInv
<1> USE ConsoleAssumption
       DEF ConsoleTypeOK, OwnerAt, StdoutAt, WayBackToPrompt, Unsettled, PaintLocked,
           Face, Bare, Showing, HasSink, SinksShow, Writing, Goto, ownVars, drawVars
<1>1. CASE Leave(u) \/ Ignore(u)
  <2>1. ConsoleControl'  BY <1>0, <1>1 DEF Leave, Ignore, AtScreen, AtPrompt, Done
  <2>2. \A v \in Transport : Face(v)'  BY <1>0, <1>1 DEF Leave, Ignore, AtScreen, AtPrompt, Done
  <2>3. QED  BY <2>1, <2>2 DEF ConsoleInv
<1>2. CASE Detach(u)
  <2>1. ConsoleControl'  BY <1>0, <1>2 DEF Detach
  <2>2. \A v \in Transport : Face(v)'  BY <1>0, <1>2 DEF Detach
  <2>3. QED  BY <2>1, <2>2 DEF ConsoleInv
<1>3. CASE Back(u)
  <2>1. ConsoleControl'  BY <1>0, <1>3 DEF Back
  <2>2. \A v \in Transport : Face(v)'  BY <1>0, <1>3 DEF Back
  <2>3. QED  BY <2>1, <2>2 DEF ConsoleInv
<1>4. CASE Hold(u)
  <2>1. ConsoleControl'  BY <1>0, <1>4 DEF Hold, AfterHold, Closing
  <2>2. \A v \in Transport : Face(v)'  BY <1>0, <1>4 DEF Hold, AfterHold, Closing
  <2>3. QED  BY <2>1, <2>2 DEF ConsoleInv
<1>5. QED  BY <1>1, <1>2, <1>3, <1>4 DEF LeaveScreen

(* The console task, between two keys.                                     *)
LEMMA ConsoleTaskInv ==
  ASSUME ConsoleInv, Lock \/ Settle("settle", "banner", "key") \/ Banner("banner", "key") \/ NoKey
         \/ Settle("settle2", "banner2", "unlock") \/ Banner("banner2", "unlock") \/ Unlock
         \/ ConsoleStart \/ AsyncBegin \/ AsyncPrint
  PROVE  ConsoleInv'
<1>0. ConsoleControl /\ \A v \in Transport : Face(v)  BY DEF ConsoleInv
<1> USE ConsoleAssumption
       DEF ConsoleTypeOK, OwnerAt, StdoutAt, WayBackToPrompt, Unsettled, PaintLocked,
           Face, Bare, Showing, HasSink, SinksShow, Writing, Goto, ownVars, drawVars, shellVars, Text
<1>1. CASE Lock
  <2>1. ConsoleControl'  BY <1>0, <1>1 DEF Lock
  <2>2. \A v \in Transport : Face(v)'  BY <1>0, <1>1 DEF Lock
  <2>3. QED  BY <2>1, <2>2 DEF ConsoleInv
<1>2. CASE Settle("settle", "banner", "key")
  <2>1. ConsoleControl'  BY <1>0, <1>2 DEF Settle
  <2>2. \A v \in Transport : Face(v)'  BY <1>0, <1>2 DEF Settle
  <2>3. QED  BY <2>1, <2>2 DEF ConsoleInv
<1>3. CASE Settle("settle2", "banner2", "unlock")
  <2>1. ConsoleControl'  BY <1>0, <1>3 DEF Settle
  <2>2. \A v \in Transport : Face(v)'  BY <1>0, <1>3 DEF Settle
  <2>3. QED  BY <2>1, <2>2 DEF ConsoleInv
<1>4. CASE Banner("banner", "key")
  <2>1. ConsoleTypeOK'
    <3>1. shown' \in [Transport -> {"text", "clear", "frame"}]
      <4>1. stdout = "uart" /\ shown["uart"] \in {"text", "clear", "frame"}
            /\ (clearPending \/ shown["uart"] = "text")
        BY <1>0, <1>4 DEF Banner
      <4>2. CASE clearPending  BY <1>0, <1>4, <4>1, <4>2 DEF Banner, Wiped
      <4>3. CASE ~ clearPending  BY <1>0, <1>4, <4>1, <4>3 DEF Banner
      <4>4. QED  BY <4>2, <4>3
    <3>2. QED  BY <1>0, <1>4, <3>1 DEF Banner
  <2>2. (OwnerAt /\ StdoutAt)'  BY <1>0, <1>4 DEF Banner, Wiped
  <2>3. WayBackToPrompt'  BY <1>0, <1>4 DEF Banner, Wiped
  <2>4. PaintLocked'  BY <1>0, <1>4 DEF Banner, Wiped
  <2>5. \A v \in Transport : Face(v)'  BY <1>0, <1>4 DEF Banner, Wiped
  <2>6. QED  BY <2>1, <2>2, <2>3, <2>4, <2>5 DEF ConsoleInv
<1>5. CASE Banner("banner2", "unlock")
  <2>1. ConsoleTypeOK'
    <3>1. shown' \in [Transport -> {"text", "clear", "frame"}]
      <4>1. stdout = "uart" /\ shown["uart"] \in {"text", "clear", "frame"}
            /\ (clearPending \/ shown["uart"] = "text")
        BY <1>0, <1>5 DEF Banner
      <4>2. CASE clearPending  BY <1>0, <1>5, <4>1, <4>2 DEF Banner, Wiped
      <4>3. CASE ~ clearPending  BY <1>0, <1>5, <4>1, <4>3 DEF Banner
      <4>4. QED  BY <4>2, <4>3
    <3>2. QED  BY <1>0, <1>5, <3>1 DEF Banner
  <2>2. (OwnerAt /\ StdoutAt)'  BY <1>0, <1>5 DEF Banner, Wiped
  <2>3. WayBackToPrompt'  BY <1>0, <1>5 DEF Banner, Wiped
  <2>4. PaintLocked'  BY <1>0, <1>5 DEF Banner, Wiped
  <2>5. \A v \in Transport : Face(v)'  BY <1>0, <1>5 DEF Banner, Wiped
  <2>6. QED  BY <2>1, <2>2, <2>3, <2>4, <2>5 DEF ConsoleInv
<1>6. CASE NoKey \/ Unlock
  <2>1. ConsoleControl'  BY <1>0, <1>6 DEF NoKey, Unlock
  <2>2. \A v \in Transport : Face(v)'  BY <1>0, <1>6 DEF NoKey, Unlock
  <2>3. QED  BY <2>1, <2>2 DEF ConsoleInv
<1>7. CASE ConsoleStart
  <2>1. ConsoleControl'  BY <1>0, <1>7 DEF ConsoleStart
  <2>2. \A v \in Transport : Face(v)'  BY <1>0, <1>7 DEF ConsoleStart
  <2>3. QED  BY <2>1, <2>2 DEF ConsoleInv
<1>8. CASE AsyncBegin \/ AsyncPrint
  <2>1. ConsoleControl'  BY <1>0, <1>8 DEF AsyncBegin, AsyncPrint
  <2>2. \A v \in Transport : Face(v)'  BY <1>0, <1>8 DEF AsyncBegin, AsyncPrint
  <2>3. QED  BY <2>1, <2>2 DEF ConsoleInv
<1>9. QED  BY <1>1, <1>2, <1>3, <1>4, <1>5, <1>6, <1>7, <1>8

(* A session, from the claim of the console to its release.                *)
LEMMA SshTaskInv ==
  ASSUME ConsoleInv, Claim \/ RingReset \/ Redirect \/ RemoteOpen \/ ReadByte \/ FlushRing \/ EndLoop
         \/ Exit \/ WriteNow \/ Restore \/ Release \/ Bye
  PROVE  ConsoleInv'
<1>0. ConsoleControl /\ \A v \in Transport : Face(v)  BY DEF ConsoleInv
<1> USE ConsoleAssumption
       DEF ConsoleTypeOK, OwnerAt, StdoutAt, WayBackToPrompt, Unsettled, PaintLocked,
           Face, Bare, Showing, HasSink, SinksShow, Writing, Goto, ownVars, drawVars, shellVars, Text
<1>1. CASE Claim
  <2>1. ConsoleControl'  BY <1>0, <1>1 DEF Claim
  <2>2. \A v \in Transport : Face(v)'  BY <1>0, <1>1 DEF Claim
  <2>3. QED  BY <2>1, <2>2 DEF ConsoleInv
<1>2. CASE RingReset
  <2>1. ConsoleControl'  BY <1>0, <1>2 DEF RingReset, Wiped
  <2>2. \A v \in Transport : Face(v)'  BY <1>0, <1>2 DEF RingReset, Wiped
  <2>3. QED  BY <2>1, <2>2 DEF ConsoleInv
<1>3. CASE Redirect
  <2>1. ConsoleControl'  BY <1>0, <1>3 DEF Redirect
  <2>2. \A v \in Transport : Face(v)'  BY <1>0, <1>3 DEF Redirect
  <2>3. QED  BY <2>1, <2>2 DEF ConsoleInv
<1>4. CASE RemoteOpen
  <2>1. ConsoleControl'  BY <1>0, <1>4 DEF RemoteOpen
  <2>2. \A v \in Transport : Face(v)'  BY <1>0, <1>4 DEF RemoteOpen
  <2>3. QED  BY <2>1, <2>2 DEF ConsoleInv
<1>5. CASE ReadByte \/ EndLoop
  <2>1. ConsoleControl'  BY <1>0, <1>5 DEF ReadByte, EndLoop
  <2>2. \A v \in Transport : Face(v)'  BY <1>0, <1>5 DEF ReadByte, EndLoop
  <2>3. QED  BY <2>1, <2>2 DEF ConsoleInv
<1>6. CASE FlushRing
  <2>1. ConsoleControl'  BY <1>0, <1>6 DEF FlushRing
  <2>2. \A v \in Transport : Face(v)'  BY <1>0, <1>6 DEF FlushRing
  <2>3. QED  BY <2>1, <2>2 DEF ConsoleInv
<1>7. CASE Exit
  <2>1. ConsoleControl'  BY <1>0, <1>7 DEF Exit, AtPrompt
  <2>2. \A v \in Transport : Face(v)'  BY <1>0, <1>7 DEF Exit, AtPrompt
  <2>3. QED  BY <2>1, <2>2 DEF ConsoleInv
<1>8. CASE WriteNow
  <2>1. ConsoleControl'  BY <1>0, <1>8 DEF WriteNow, Wiped
  <2>2. \A v \in Transport : Face(v)'  BY <1>0, <1>8 DEF WriteNow, Wiped
  <2>3. QED  BY <2>1, <2>2 DEF ConsoleInv
<1>9. CASE Restore
  <2>1. ConsoleControl'  BY <1>0, <1>9 DEF Restore
  <2>2. \A v \in Transport : Face(v)'  BY <1>0, <1>9 DEF Restore
  <2>3. QED  BY <2>1, <2>2 DEF ConsoleInv
<1>10. CASE Release
  <2>1. ConsoleControl'  BY <1>0, <1>10 DEF Release
  <2>2. \A v \in Transport : Face(v)'  BY <1>0, <1>10 DEF Release
  <2>3. QED  BY <2>1, <2>2 DEF ConsoleInv
<1>11. CASE Bye
  <2>1. ConsoleControl'  BY <1>0, <1>11 DEF Bye
  <2>2. \A v \in Transport : Face(v)'  BY <1>0, <1>11 DEF Bye
  <2>3. QED  BY <2>1, <2>2 DEF ConsoleInv
<1>12. QED  BY <1>1, <1>2, <1>3, <1>4, <1>5, <1>6, <1>7, <1>8, <1>9, <1>10, <1>11

(* The run after this one, or the end of the frame.                        *)
LEMMA AfterRun ==
  ASSUME ConsoleTypeOK, NextRun
  PROVE  /\ idx' \in Sink /\ curRun' \in 1 .. Runs
         /\ \/ draw' = "read" /\ paintLock' = paintLock
            \/ draw' = "idle" /\ paintLock' = "free"
<1>1. idx \in 1 .. 2 /\ curRun \in 1 .. Runs /\ Runs \in Nat \ {0}  BY ConsoleAssumption DEF ConsoleTypeOK
<1>2. CASE idx = 1
  <2>1. idx # 2  BY <1>2
  <2>2. idx' = 2 /\ draw' = "read" /\ UNCHANGED <<curRun, paintLock, painting>>
    BY <1>2, <2>1, Zenon DEF NextRun
  <2>3. QED  BY <1>1, <2>2
<1>3. CASE idx = 2 /\ curRun < Runs
  <2>1. idx # 1 /\ curRun # Runs /\ curRun + 1 \in 1 .. Runs  BY <1>1, <1>3
  <2>2. idx' = 1 /\ curRun' = curRun + 1 /\ draw' = "read" /\ UNCHANGED <<paintLock, painting>>
    BY <1>3, <2>1, Zenon DEF NextRun
  <2>3. QED  BY <1>1, <2>1, <2>2
<1>4. CASE idx = 2 /\ curRun = Runs  BY <1>1, <1>4 DEF NextRun
<1>5. QED  BY <1>1, <1>2, <1>3, <1>4

(* A frame, from the choice of a screen to its last run.                   *)
LEMMA DrawTaskInv ==
  ASSUME ConsoleInv, DrawTask
  PROVE  ConsoleInv'
<1>0. ConsoleControl /\ \A v \in Transport : Face(v)  BY DEF ConsoleInv
<1> USE AfterRun, ConsoleAssumption
       DEF ConsoleTypeOK, OwnerAt, StdoutAt, WayBackToPrompt, Unsettled, PaintLocked,
           Face, Bare, Showing, HasSink, SinksShow, Writing, ownVars, shellVars
<1>1. CASE \E s \in Screens : DrawWant(s)
  <2>1. ConsoleControl'  BY <1>0, <1>1 DEF DrawWant
  <2>2. \A v \in Transport : Face(v)'  BY <1>0, <1>1 DEF DrawWant
  <2>3. QED  BY <2>1, <2>2 DEF ConsoleInv
<1>2. CASE PaintBegin
  <2>1. ConsoleControl'  BY <1>0, <1>2 DEF PaintBegin
  <2>2. \A v \in Transport : Face(v)'  BY <1>0, <1>2 DEF PaintBegin
  <2>3. QED  BY <2>1, <2>2 DEF ConsoleInv
<1>3. CASE ReadSink
  <2>1. ConsoleControl'  BY <1>0, <1>3 DEF ReadSink
  <2>2. \A v \in Transport : Face(v)'  BY <1>0, <1>3 DEF ReadSink
  <2>3. QED  BY <2>1, <2>2 DEF ConsoleInv
<1>4. CASE WriteUart
  <2>1. ConsoleControl'  BY <1>0, <1>4 DEF WriteUart, Frame
  <2>2. \A v \in Transport : Face(v)'  BY <1>0, <1>4 DEF WriteUart, Frame
  <2>3. QED  BY <2>1, <2>2 DEF ConsoleInv
<1>5. CASE WriteSsh
  <2>1. ConsoleControl'  BY <1>0, <1>5 DEF WriteSsh, Frame
  <2>2. \A v \in Transport : Face(v)'  BY <1>0, <1>5 DEF WriteSsh, Frame
  <2>3. QED  BY <2>1, <2>2 DEF ConsoleInv
<1>6. CASE WriteGivesUp
  <2>1. ConsoleControl'  BY <1>0, <1>6 DEF WriteGivesUp
  <2>2. \A v \in Transport : Face(v)'  BY <1>0, <1>6 DEF WriteGivesUp
  <2>3. QED  BY <2>1, <2>2 DEF ConsoleInv
<1>7. QED  BY <1>1, <1>2, <1>3, <1>4, <1>5, <1>6 DEF DrawTask

(* What holds of the consoles at every step.                               *)
THEOREM ConsoleInvariant == ConsoleSpec => []ConsoleInv
<1>1. ConsoleInv /\ [Next]_vars => ConsoleInv'
  <2> SUFFICES ASSUME ConsoleInv, [Next]_vars PROVE ConsoleInv'  OBVIOUS
  <2>1. ASSUME NEW u \in Transport, CommandLine(u) PROVE ConsoleInv'  BY <2>1, CommandLineInv
  <2>2. ASSUME NEW u \in Transport, LeaveScreen(u) PROVE ConsoleInv'  BY <2>2, LeaveScreenInv
  <2>3. CASE ConsoleTask \/ ConsoleStart \/ AsyncBegin \/ AsyncPrint
    <3>1. CASE CommandLine("uart") \/ LeaveScreen("uart")  BY <2>1, <2>2, <3>1
    <3>2. QED  BY <2>3, <3>1, ConsoleTaskInv DEF ConsoleTask
  <2>4. CASE SshTask
    <3>1. CASE CommandLine("ssh") \/ LeaveScreen("ssh")  BY <2>1, <2>2, <3>1
    <3>2. QED  BY <2>4, <3>1, SshTaskInv DEF SshTask
  <2>5. CASE DrawTask  BY <2>5, DrawTaskInv
  <2>6. CASE UNCHANGED vars
    BY <2>6 DEF vars, ownVars, shellVars, drawVars, ConsoleInv, ConsoleTypeOK, OwnerAt, StdoutAt,
       WayBackToPrompt, Unsettled, PaintLocked, Face, Bare, Showing, HasSink, SinksShow, Writing
  <2>7. QED  BY <2>3, <2>4, <2>5, <2>6 DEF Next
<1>2. QED  BY ConsoleInitInv, <1>1, PTL DEF ConsoleSpec

(* No frame over a prompt, no prompt over a frame, nothing of one terminal *)
(* on the other, in any order of the four tasks (screen.c:60-65,           *)
(* shell.h:50-73).                                                         *)
THEOREM TerminalsIntact == ConsoleSpec => []TerminalIntact
<1>1. ConsoleInv => TerminalIntact
  BY DEF ConsoleInv, ConsoleTypeOK, OwnerAt, StdoutAt, TerminalIntact, Printing
<1>2. QED  BY ConsoleInvariant, <1>1, PTL

(* The serial port is not left on a screen that nobody paints              *)
(* (shell.c:757-762).                                                      *)
THEOREM FrontPainted == ConsoleSpec => []FrontIsPainted
<1>1. ConsoleInv => FrontIsPainted
  <2> SUFFICES ASSUME ConsoleInv, at["uart"] = "poll"
               PROVE  /\ fg["uart"] # NoScreen <=> HasSink("uart")
                      /\ SinksShow("uart", fg["uart"])
                      /\ ~ clearPending
    BY DEF FrontIsPainted, HasSink, SinksShow
  <2>1. Showing("uart") \/ Bare("uart")  BY DEF ConsoleInv, Face
  <2>2. QED  BY <2>1 DEF ConsoleInv, WayBackToPrompt, Showing, Bare, HasSink, SinksShow
<1>2. QED  BY ConsoleInvariant, <1>1, PTL

-----------------------------------------------------------------------------
(* The update: the way back from a bad image is never overwritten, for     *)
(* images of any size and any number of uploads and failures of power.     *)

other == Other(run)

(* The other slot holds an image to go back to: one that was confirmed, or *)
(* the one flashed over USB.                                               *)
WayBack == latest = run /\ (entry[other] = "valid" \/ (entry[other] = "undefined" /\ run = 1))

(* The running image is on trial: nothing may touch the other one.         *)
OnTrial ==
  entry[run] = "pending" =>
    /\ WayBack /\ Bootable(run) /\ image[other] = "good"
    /\ http \in {"idle", "begin"} /\ shell \in {"idle", "mark"}

(* The running image is confirmed, or was flashed over USB.                *)
Confirmed ==
  entry[run] # "pending" =>
    /\ image[run] = "good" /\ confirm # "mark"
    /\ entry[run] \in {"undefined", "valid"}
    /\ entry[run] = "undefined" => run = 0 /\ entry[other] \notin {"valid", "invalid"}
    /\ latest = run <=> entry[other] \in {"undefined", "valid"}

(* A rollback that has looked at the slot's state finds nothing newer.     *)
Marking ==
  shell = "mark" => /\ WayBack /\ image[other] # "bad"
                    /\ http \in {"idle", "begin", "recv", "end"}

(* A slot that was selected is about to be started.                        *)
Selecting == entry[other] = "new" => http = "restart" \/ shell = "restart"

Typed ==
  /\ OtaTypeOK
  /\ http \in {"idle", "begin", "recv", "end", "select", "restart"}
  /\ shell \in {"idle", "mark", "select", "restart"} /\ sending \in {"good", "bad", "part"}
  /\ confirm = "mark" => image[run] = "good"
  /\ http = "recv" => idle < IdleMax

OtaInv == Typed /\ OnTrial /\ Confirmed /\ Marking /\ Selecting

USE DEF AppSlot, Other, other, Bootable

(* The board as it was flashed over USB.                                   *)
LEMMA OtaInitInv == OtaInit => OtaInv
<1> SUFFICES ASSUME OtaInit PROVE OtaInv  OBVIOUS
<1>1. Typed
  <2>1. 0 \in 0 .. Chunks /\ 0 \in 0 .. IdleMax  BY OtaAssumption
  <2>2. QED  BY <2>1 DEF OtaInit, Typed, OtaTypeOK
<1>2. OnTrial /\ Confirmed /\ Marking /\ Selecting
  BY DEF OtaInit, OnTrial, Confirmed, Marking, Selecting
<1>3. QED  BY <1>1, <1>2 DEF OtaInv

(* What the boot loader picks.                                             *)
LEMMA BackFromTrial ==
  ASSUME OtaInv, entry[run] = "pending"
  PROVE  Selected(Aborted(entry)) = other /\ Pick(entry) = other
BY DEF OtaInv, Typed, OtaTypeOK, OnTrial, WayBack, Selected, Aborted, Pick

(* With nothing new to start, a confirmed image is started again.          *)
LEMMA StaysConfirmed ==
  ASSUME OtaInv, entry[run] # "pending", entry[other] # "new" \/ ~Bootable(other)
  PROVE  /\ Pick(entry) = run
         /\ Selected(Aborted(entry)) = IF entry[other] = "new" THEN other ELSE run
BY DEF OtaInv, Typed, OtaTypeOK, Confirmed, Selected, Aborted, Pick

(* An image that was selected is started.                                  *)
LEMMA StartsNew ==
  ASSUME OtaInv, entry[run] # "pending", entry[other] = "new", Bootable(other)
  PROVE  Pick(entry) = other /\ Selected(Aborted(entry)) = other
BY DEF OtaInv, Typed, OtaTypeOK, Confirmed, Selected, Aborted, Pick

(* A boot, on purpose or after a failure of power, keeps the invariant.    *)
LEMMA BootStep == OtaInv /\ Boot => OtaInv'
<1> SUFFICES ASSUME OtaInv, Boot PROVE OtaInv'  OBVIOUS
<1> USE DEF OtaInv, Typed, OtaTypeOK, WayBack
<1>1. /\ confirm' = "sleep" /\ shell' = "idle" /\ http' = "idle" /\ sending' = sending
      /\ image' = image /\ latest' = latest /\ run' = Pick(entry)
      /\ remaining' = 0 /\ idle' = 0
  BY DEF Boot, StartFrom
<1>2. entry' = [Aborted(entry) EXCEPT ![Selected(Aborted(entry))] = IF @ = "new" THEN "pending" ELSE @]
  BY DEF Boot, StartFrom
<1>3. Aborted(entry) \in [AppSlot -> {"undefined", "new", "pending", "valid", "invalid", "aborted"}]
  BY DEF Aborted
<1>4. /\ remaining' \in 0 .. Chunks /\ idle' \in 0 .. IdleMax
      /\ entry' \in [AppSlot -> {"undefined", "new", "pending", "valid", "invalid", "aborted"}]
  <2>1. 0 \in 0 .. Chunks /\ 0 \in 0 .. IdleMax  BY OtaAssumption
  <2>2. Selected(Aborted(entry)) \in AppSlot  BY DEF Selected
  <2>3. QED  BY <1>1, <1>2, <1>3, <2>1, <2>2
<1>5. CASE entry[run] = "pending"
  <2>1. Selected(Aborted(entry)) = other /\ run' = other  BY <1>1, <1>5, BackFromTrial
  <2>2. entry'[other] = entry[other] /\ entry'[run] = "aborted"
    BY <1>2, <1>5, <2>1 DEF Aborted, OnTrial
  <2>3. Typed'  BY <1>1, <1>4, <2>1
  <2>4. OnTrial' /\ Confirmed' /\ Marking' /\ Selecting'
    BY <1>1, <1>5, <2>1, <2>2 DEF OnTrial, Confirmed, Marking, Selecting
  <2>5. QED  BY <2>3, <2>4
<1>6. CASE entry[run] # "pending" /\ entry[other] = "new" /\ Bootable(other)
  <2>1. Selected(Aborted(entry)) = other /\ run' = other  BY <1>1, <1>6, StartsNew
  <2>2. entry'[other] = "pending" /\ entry'[run] = entry[run] /\ latest = other
    BY <1>2, <1>6, <2>1 DEF Aborted, Confirmed
  <2>3. Typed'  BY <1>1, <1>4, <2>1
  <2>4. OnTrial' /\ Confirmed' /\ Marking' /\ Selecting'
    BY <1>1, <1>6, <2>1, <2>2 DEF OnTrial, Confirmed, Marking, Selecting
  <2>5. QED  BY <2>3, <2>4
<1>7. CASE entry[run] # "pending" /\ ~(entry[other] = "new" /\ Bootable(other))
  <2>1. /\ run' = run
        /\ Selected(Aborted(entry)) = IF entry[other] = "new" THEN other ELSE run
    BY <1>1, <1>7, StaysConfirmed
  <2>2. /\ entry'[run] = entry[run]
        /\ entry'[other] = CASE entry[other] = "new" -> "pending"
                              [] entry[other] = "pending" -> "aborted"
                              [] OTHER -> entry[other]
    BY <1>2, <1>7, <2>1 DEF Aborted, Confirmed
  <2>3. Typed'  BY <1>1, <1>4, <2>1
  <2>4. OnTrial' /\ Confirmed' /\ Marking' /\ Selecting'
    BY <1>1, <1>7, <2>1, <2>2 DEF OnTrial, Confirmed, Marking, Selecting
  <2>5. QED  BY <2>3, <2>4
<1>8. QED  BY <1>5, <1>6, <1>7

(* A rollback on trial restarts into the confirmed image, or does nothing. *)
LEMMA MarkInvalidStep == OtaInv /\ MarkInvalid => OtaInv'
<1> SUFFICES ASSUME OtaInv, MarkInvalid PROVE OtaInv'  OBVIOUS
<1> USE DEF OtaInv, Typed, OtaTypeOK, WayBack
<1>1. CASE entry[other] # "undefined" /\ Bootable(other)
  <2> DEFINE e == [entry EXCEPT ![run] = "invalid"]
  <2>1. entry[other] = "valid" /\ image[other] = "good" /\ latest = run
    BY <1>1 DEF MarkInvalid, Marking
  <2>2. e \in [AppSlot -> {"undefined", "new", "pending", "valid", "invalid", "aborted"}]
    OBVIOUS
  <2>3. e[run] = "invalid" /\ e[other] = "valid"  BY <2>1
  <2>4. Aborted(e) = e
    <3>1. \A s \in AppSlot : e[s] # "pending"  BY <2>3
    <3>2. QED  BY <2>2, <3>1, Zenon DEF Aborted
  <2>5. Selected(e) = other
    <3>1. Selected(e) = other  BY <2>1, <2>3 DEF Selected
    <3>2. QED  BY <3>1
  <2>6. Pick(e) = other  BY <2>1, <2>4, <2>5 DEF Pick
  <2>7. StartFrom(e)  BY <1>1 DEF MarkInvalid
  <2>8. /\ confirm' = "sleep" /\ shell' = "idle" /\ http' = "idle" /\ sending' = sending
        /\ image' = image /\ latest' = latest /\ run' = other
        /\ remaining' = 0 /\ idle' = 0
    BY <2>6, <2>7 DEF StartFrom
  <2>9. entry' = e
    <3>1. entry' = [e EXCEPT ![other] = IF @ = "new" THEN "pending" ELSE @]
      BY <2>4, <2>5, <2>7 DEF StartFrom
    <3>2. QED  BY <2>2, <2>3, <3>1
  <2>10. Typed'  BY <2>1, <2>2, <2>8, <2>9, OtaAssumption
  <2>11. OnTrial' /\ Confirmed' /\ Marking' /\ Selecting'
    BY <2>1, <2>3, <2>8, <2>9 DEF OnTrial, Confirmed, Marking, Selecting
  <2>12. QED  BY <2>10, <2>11
<1>2. CASE ~(entry[other] # "undefined" /\ Bootable(other))
  BY <1>2 DEF MarkInvalid, flash, post, OnTrial, Confirmed, Marking, Selecting
<1>3. QED  BY <1>1, <1>2

(* The confirmation marks the image that runs, and no other.               *)
LEMMA ConfirmStep == OtaInv /\ (ConfirmLook \/ ConfirmMark) => OtaInv'
<1> SUFFICES ASSUME OtaInv, ConfirmLook \/ ConfirmMark PROVE OtaInv'  OBVIOUS
<1> USE DEF OtaInv, Typed, OtaTypeOK, WayBack, flash, post
<1>1. CASE ConfirmLook
  BY <1>1 DEF ConfirmLook, OnTrial, Confirmed, Marking, Selecting
<1>2. CASE ConfirmMark
  <2>1. entry[run] = "pending" /\ InForce = run
    BY <1>2 DEF ConfirmMark, Confirmed, OnTrial, InForce
  <2>2. entry' = [entry EXCEPT ![run] = "valid"]  BY <1>2, <2>1 DEF ConfirmMark
  <2>3. QED  BY <1>2, <2>1, <2>2 DEF ConfirmMark, OnTrial, Confirmed, Marking, Selecting
<1>3. QED  BY <1>1, <1>2

(* An upload touches the other slot, and only if the running image is      *)
(* confirmed.                                                              *)
LEMMA PostStep == OtaInv /\ (Begin \/ Post) => OtaInv'
<1> SUFFICES ASSUME OtaInv, Begin \/ Post PROVE OtaInv'  OBVIOUS
<1> USE DEF OtaInv, Typed, OtaTypeOK, WayBack, flash, OnTrial, Confirmed, Marking, Selecting
<1>1. CASE Begin  BY <1>1 DEF Begin, Spend
<1>2. CASE Refuse  BY <1>2 DEF Refuse
<1>3. CASE Erase  BY <1>3, OtaAssumption DEF Erase
<1>4. CASE Receive  BY <1>4, OtaAssumption DEF Receive
<1>5. CASE Silence \/ Break
  <2>1. idle' \in 0 .. IdleMax /\ (http' = "recv" => idle' < IdleMax)
    BY <1>5, OtaAssumption DEF Silence, Break, Abort
  <2>2. QED  BY <1>5, <2>1 DEF Silence, Break, Abort
<1>6. CASE Received  BY <1>6 DEF Received
<1>7. CASE EndWhole \/ EndInvalid  BY <1>7 DEF EndWhole, EndInvalid, Abort
<1>8. CASE Select  BY <1>8 DEF Select, SetBoot
<1>9. QED  BY <1>1, <1>2, <1>3, <1>4, <1>5, <1>6, <1>7, <1>8 DEF Post, Handler

(* A rollback command selects the other slot only if it can be started.    *)
LEMMA RollbackStep == OtaInv /\ (Rollback \/ BootOther) => OtaInv'
<1> SUFFICES ASSUME OtaInv, Rollback \/ BootOther PROVE OtaInv'  OBVIOUS
<1> USE DEF OtaInv, Typed, OtaTypeOK, WayBack, flash, post, OnTrial, Confirmed, Marking, Selecting
<1>1. CASE Rollback  BY <1>1 DEF Rollback, Spend
<1>2. CASE BootOther  BY <1>2 DEF BootOther, SetBoot
<1>3. QED  BY <1>1, <1>2

(* The inductive invariant.                                                *)
THEOREM OtaInvariant == OtaSpec => []OtaInv
<1>1. OtaInit => OtaInv  BY OtaInitInv
<1>2. OtaInv /\ [OtaNext]_otaVars => OtaInv'
  <2> SUFFICES ASSUME OtaInv, [OtaNext]_otaVars PROVE OtaInv'  OBVIOUS
  <2>1. CASE Crash \/ PowerCut \/ Restart  BY <2>1, BootStep DEF Crash, PowerCut, Restart
  <2>2. CASE ConfirmLook \/ ConfirmMark  BY <2>2, ConfirmStep
  <2>3. CASE Begin \/ Post  BY <2>3, PostStep
  <2>4. CASE Rollback \/ BootOther  BY <2>4, RollbackStep
  <2>5. CASE MarkInvalid  BY <2>5, MarkInvalidStep
  <2>6. CASE UNCHANGED otaVars
    BY <2>6 DEF otaVars, flash, post, OtaInv, Typed, OtaTypeOK, OnTrial, WayBack, Confirmed, Marking, Selecting
  <2>7. QED  BY <2>1, <2>2, <2>3, <2>4, <2>5, <2>6 DEF OtaNext
<1>3. QED  BY <1>1, <1>2, PTL DEF OtaSpec

(* Every variable keeps its type.                                          *)
THEOREM OtaTyped == OtaSpec => []OtaTypeOK
<1>1. OtaInv => OtaTypeOK  BY DEF OtaInv, Typed
<1>2. QED  BY <1>1, OtaInvariant, PTL

(* A bad image gives way to a good one on the next boot (ota.c:49-60,      *)
(* 87-101, shell.c:503-540).                                               *)
THEOREM WayBackKept == OtaSpec => []BadGivesWay
<1>1. OtaInv => BadGivesWay
  <2> SUFFICES ASSUME OtaInv, image[run] = "bad" PROVE image[Started] = "good"  BY DEF BadGivesWay
  <2>1. entry[run] = "pending"  BY DEF OtaInv, Confirmed
  <2>2. Started = other  BY <2>1, BackFromTrial DEF Started
  <2>3. QED  BY <2>1, <2>2 DEF OtaInv, OnTrial
<1>2. QED  BY <1>1, OtaInvariant, PTL

(* An upload that breaks off leaves the boot slot alone (ota.c:119-165).   *)
THEOREM BrokenUploadHarmless == OtaSpec => []BrokenUploadChangesNothing
<1>1. OtaInv => BrokenUploadChangesNothing
  <2> SUFFICES ASSUME OtaInv, http \in {"begin", "recv", "end", "select"}, shell # "restart",
                      entry[run] \in {"undefined", "valid"}
               PROVE  Started = run
    BY DEF BrokenUploadChangesNothing
  <2>1. entry[other] # "new"  BY DEF OtaInv, Selecting
  <2>2. QED  BY <2>1, StaysConfirmed DEF Started
<1>2. QED  BY <1>1, OtaInvariant, PTL
-----------------------------------------------------------------------------
(* The doors together                                                      *)

(* What an operator does at one door is what that component does.          *)
THEOREM DoorsAreTheirs == AccessSpec => ConsoleSpec /\ SshSpec /\ OtaSpec
<1>1. AccessInit => Init /\ SshInit /\ OtaInit  BY DEF AccessInit
<1>2. [AccessNext]_<<door, doorVars>> => [Next]_vars /\ [SshNext]_sshVars /\ [OtaNext]_otaVars
  BY DEF AccessNext, ConsoleStep, SshStep, OtaStep, InConsole, InSsh, InOta, doorVars
<1>3. QED  BY <1>1, <1>2, PTL DEF AccessSpec, ConsoleSpec, SshSpec, OtaSpec

(* Every invariant that a run checks of the doors holds for all callers,   *)
(* screens, images and failures.                                           *)
THEOREM AccessSafe ==
  AccessSpec => [](TerminalIntact /\ FrontIsPainted /\ HostKeyKept /\ BadGivesWay /\ BrokenUploadChangesNothing)
BY DoorsAreTheirs, TerminalsIntact, FrontPainted, KeyKept, WayBackKept, BrokenUploadHarmless, PTL
=============================================================================
