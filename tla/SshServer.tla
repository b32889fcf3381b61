----------------------------- MODULE SshServer ------------------------------
(***************************************************************************)
(* The SSH server around the shell, src/main/net_ssh.c: the stored login   *)
(* and host key, the task that serves one caller at a time, and what       *)
(* becomes of the others meanwhile.  libssh, the network and the flash are *)
(* external; what happens to the console inside a session is in Console.   *)
(***************************************************************************)
EXTENDS Naturals

CONSTANTS
  SshCallers,          \* whoever connects
  AuthTries,           \* AUTH_TRIES
  AuthPolls,           \* polls that a login may take, 100
  DeniedPolls,         \* polls after which one that was denied is not waited for, 20
  Keys                 \* bound: host keys ever generated

ASSUME SshAssumption ==
  /\ AuthTries \in Nat \ {0} /\ DeniedPolls \in Nat /\ AuthPolls \in Nat
  /\ DeniedPolls < AuthPolls /\ Keys \in Nat

VARIABLES
  ssh_at,              \* where ssh_task is: boot, down (deleted), loop, kex, auth, shell
  s_state,             \* what the status line says
  s_pass,              \* a password is known
  ssh_nvs,             \* the stored password and host key, 0 for none
  bind_key,            \* the key that the listener has
  sess,                \* the sess_t of serve(), and its loop index
  calls,               \* each caller's connection: none, queued, session, shut
  made,                \* host keys generated so far
  known                \* history: the key that clients have seen, 0 once it may change

sshVars == <<ssh_at, s_state, s_pass, ssh_nvs, bind_key, sess, calls, made, known>>

NoSess == [authed |-> FALSE, channel |-> FALSE, tries |-> 0, i |-> 0]

SshInit ==
  /\ ssh_at = "boot" /\ s_state = "off" /\ s_pass = FALSE
  /\ ssh_nvs = [pass |-> FALSE, key |-> 0]
  /\ bind_key = 0 /\ sess = NoSess /\ made = 0 /\ known = 0
  /\ calls = [c \in SshCallers |-> "none"]

Listening == ssh_at \notin {"boot", "down"}
Served    == {c \in SshCallers : calls[c] = "session"}
Dropped   == [c \in SshCallers |-> IF c \in Served THEN "shut" ELSE calls[c]]

-----------------------------------------------------------------------------
(* Outside *)

Call(c) ==
  /\ Listening /\ calls[c] = "none"
  /\ calls' = [calls EXCEPT ![c] = "queued"]
  /\ UNCHANGED <<ssh_at, s_state, s_pass, ssh_nvs, bind_key, sess, made, known>>

CallAgain(c) ==
  /\ calls[c] = "shut" /\ calls' = [calls EXCEPT ![c] = "none"]
  /\ UNCHANGED <<ssh_at, s_state, s_pass, ssh_nvs, bind_key, sess, made, known>>

PowerCycle ==
  /\ ssh_at' = "boot" /\ s_state' = "off" /\ s_pass' = ssh_nvs.pass
  /\ bind_key' = 0 /\ sess' = NoSess /\ calls' = [c \in SshCallers |-> "none"]
  /\ UNCHANGED <<ssh_nvs, made, known>>

-----------------------------------------------------------------------------
(* The commands, from any console *)

\* net_ssh_set_login(): the password, then the user, then the commit, and only
\* then what is in force; a failed one may have stored the password already.
SetLogin ==
  /\ \/ ssh_nvs' = [ssh_nvs EXCEPT !.pass = TRUE] /\ s_pass' \in {s_pass, TRUE}
     \/ UNCHANGED <<ssh_nvs, s_pass>>
  /\ UNCHANGED <<ssh_at, s_state, bind_key, sess, calls, made, known>>

\* ssh off.  Whether the password could be erased is not looked at.
Off ==
  /\ \/ ssh_nvs' = [ssh_nvs EXCEPT !.pass = FALSE] /\ s_pass' \in {s_pass, FALSE}
     \/ UNCHANGED ssh_nvs /\ s_pass' \in {s_pass, ssh_nvs.pass}
  /\ UNCHANGED <<ssh_at, s_state, bind_key, sess, calls, made, known>>

\* ssh regen: the key in use stays in use until the next start.
Regen ==
  /\ ssh_nvs' = [ssh_nvs EXCEPT !.key = 0] /\ known' = 0
  /\ UNCHANGED <<ssh_at, s_state, s_pass, bind_key, sess, calls, made>>

-----------------------------------------------------------------------------
(* ssh_task() *)

Starts(key) == /\ bind_key' = key
               /\ ssh_at' = IF key = 0 THEN "down" ELSE "loop"

\* hostkey_load_or_create(): the stored key, or a new one in place of one that
\* is not there or cannot be read; one that cannot be stored is not used.
InUse_Always(k, stored) == k
InUse(k, stored)        == IF stored THEN k ELSE 0

LoadKey ==
  /\ ssh_at = "boot" /\ ssh_nvs.key # 0
  /\ Starts(ssh_nvs.key) /\ known' = ssh_nvs.key
  /\ UNCHANGED <<s_state, s_pass, ssh_nvs, sess, calls, made>>

CreateKey ==
  /\ ssh_at = "boot"
  /\ \/ /\ made < Keys /\ made' = made + 1
        /\ \E stored \in BOOLEAN :
             /\ Starts(InUse(made', stored))
             /\ ssh_nvs' \in {[ssh_nvs EXCEPT !.key = made']} \cup (IF stored THEN {} ELSE {ssh_nvs})
             /\ known' = InUse(made', stored)
     \/ /\ Starts(0) /\ UNCHANGED <<made, ssh_nvs, known>>
  /\ UNCHANGED <<s_state, s_pass, sess, calls>>

\* Without a password nobody is accepted.
NoCred ==
  /\ ssh_at = "loop" /\ ~ s_pass /\ s_state' = "nocred"
  /\ UNCHANGED <<ssh_at, s_pass, ssh_nvs, bind_key, sess, calls, made, known>>

Listen ==
  /\ ssh_at = "loop" /\ s_pass /\ s_state' = "listen"
  /\ UNCHANGED <<ssh_at, s_pass, ssh_nvs, bind_key, sess, calls, made, known>>

\* ssh_bind_accept() may fail, and loses the connection.
Take(c) ==
  /\ ssh_at = "loop" /\ s_pass /\ calls[c] = "queued"
  /\ s_state' = "listen" /\ sess' = NoSess
  /\ \/ ssh_at' = "kex" /\ calls' = [calls EXCEPT ![c] = "session"]
     \/ ssh_at' = "loop" /\ calls' = [calls EXCEPT ![c] = "shut"]
  /\ UNCHANGED <<s_pass, ssh_nvs, bind_key, made, known>>

EndSession == ssh_at' = "loop" /\ calls' = Dropped

KeyExchange ==
  /\ ssh_at = "kex"
  /\ EndSession \/ (ssh_at' = "auth" /\ UNCHANGED calls)
  /\ UNCHANGED <<s_state, s_pass, ssh_nvs, bind_key, sess, made, known>>

\* serve(): what a poll may bring, until the caller is in, gives up, or has used
\* up its tries or its time.
Brought_Restarts ==
  {[sess EXCEPT !.i = @ + 1],
   [sess EXCEPT !.i = @ + 1, !.tries = @ + 1]}
    \cup (IF s_pass THEN {[sess EXCEPT !.i = 0, !.authed = TRUE]} ELSE {})
    \cup (IF sess.authed THEN {[sess EXCEPT !.i = @ + 1, !.channel = TRUE]} ELSE {})
Brought ==
  {[sess EXCEPT !.i = @ + 1],
   [sess EXCEPT !.i = @ + 1, !.tries = @ + 1]}
    \cup (IF s_pass THEN {[sess EXCEPT !.i = @ + 1, !.authed = TRUE]} ELSE {})
    \cup (IF sess.authed THEN {[sess EXCEPT !.i = @ + 1, !.channel = TRUE]} ELSE {})

\* i is what the loop's index was in the poll.
Waits(s, i) == ~ (s.tries > 0 /\ i > DeniedPolls) /\ i + 1 < AuthPolls /\ s.tries < AuthTries

Login ==
  /\ ssh_at = "auth"
  /\ \E s \in Brought, gone \in BOOLEAN :
       LET in == s.authed /\ s.channel
       IN  /\ IF in THEN ssh_at' \in {"shell", "loop"}
              ELSE IF ~ gone /\ Waits(s, sess.i) THEN UNCHANGED ssh_at
              ELSE ssh_at' = "loop"
           /\ sess' = IF ssh_at' = "auth" THEN s ELSE NoSess
           /\ calls' = IF ssh_at' = "loop" THEN Dropped ELSE calls
           /\ s_state' = IF ssh_at' = "shell" THEN "session" ELSE s_state
  /\ UNCHANGED <<s_pass, ssh_nvs, bind_key, made, known>>

\* run_shell() turns away one more caller every half second.
RejectExtra(c) ==
  /\ ssh_at = "shell" /\ calls[c] = "queued"
  /\ calls' = [calls EXCEPT ![c] = "shut"]
  /\ UNCHANGED <<ssh_at, s_state, s_pass, ssh_nvs, bind_key, sess, made, known>>

ShellEnds ==
  /\ ssh_at = "shell" /\ EndSession
  /\ UNCHANGED <<s_state, s_pass, ssh_nvs, bind_key, sess, made, known>>

Answer(c) == Take(c) \/ RejectExtra(c)
ServeTask   == LoadKey \/ CreateKey \/ NoCred \/ Listen \/ KeyExchange \/ Login
SshNext   == \/ ServeTask \/ ShellEnds \/ PowerCycle \/ SetLogin \/ Off \/ Regen
             \/ \E c \in SshCallers : Answer(c) \/ Call(c) \/ CallAgain(c)

SshSpec == SshInit /\ [][SshNext]_sshVars

-----------------------------------------------------------------------------
(* Properties *)

\* The host key that clients were offered last is the one that is stored, so that
\* the next start can offer it again: neither an error of NVS nor a power cut leaves
\* a key in use that nobody kept (net_ssh.c:329-368).  `ssh regen` takes it back.
HostKeyKept == known # 0 => ssh_nvs.key = known
=============================================================================
