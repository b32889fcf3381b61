------------------------------- MODULE ModeS -------------------------------
(***************************************************************************)
(* Which frames src/main/mode-s.c believes, and whose it says they are.    *)
(*                                                                         *)
(* A frame is the set of its bits that are one, an address or a checksum   *)
(* the set of its ones, so that exclusive or is symmetric difference.  The *)
(* code is the program's on a shorter frame: Column is its parity table,   *)
(* with the distance that the program relies on (CodeAssumption).          *)
(* Squitters (DF 11, 17, 18) carry their own parity; in a reply the        *)
(* address is laid over it and only a list of addresses heard shortly      *)
(* before can tell whether it is right.                                    *)
(***************************************************************************)
EXTENDS Naturals, FiniteSets, FiniteSetsExt

CONSTANTS
  Short, Long, Check,  \* MODE_S_SHORT_MSG_BITS, MODE_S_LONG_MSG_BITS, the 24 bits of parity
  Code,                \* the low bits of the parity in which a DF11 carries an interrogator's code
  Column,              \* mode_s_checksum_table
  Entries, CacheTTL,   \* MODE_S_ICAO_CACHE_LEN, MODE_S_ICAO_CACHE_TTL
  Hash(_),             \* icao_cache_has_addr
  Planes, Formats,     \* addresses of the aircraft around, the downlink formats they send
  Payloads, Noise      \* what a frame may say; the sets of bits that are received wrong

Xor(A, B)      == (A \ B) \cup (B \ A)
Odd(A)         == Cardinality(A) % 2 = 1

\* As in the program's table, the columns differ and have an odd number of ones,
\* so that no two wrong bits look like one or none, and neither two wrong bits
\* nor one and a code look like a code or like a wrong bit.
ASSUME CodeAssumption ==
  /\ Long \in Nat /\ Short \in 6 + Check .. Long - 1 /\ Check \in Nat \ {0}
  /\ Column \in [1 .. Long - Check -> SUBSET (1 .. Check)]
  /\ \A b \in DOMAIN Column : Odd(Column[b]) /\ Cardinality(Column[b]) > 1
  /\ \A a, b \in DOMAIN Column : a # b => Xor(Column[a], Column[b]) \notin SUBSET Code

\* No aircraft's address is what one or two wrong bits leave of the parity: with
\* 24 bits of parity few addresses are, and the decoder could not tell.
ASSUME PlanesAssumption ==
  \A a \in Planes : a \subseteq 1 .. Check /\ Odd(a) /\ Cardinality(a) > 1
                   /\ \A b \in DOMAIN Column : a # Column[b]

VARIABLES
  icao_cache,          \* addresses and how long ago each was entered
  clean,               \* history: how long ago a squitter of an aircraft came in without a wrong bit
  verdict              \* what became of the frame just received

decodeVars == <<icao_cache, clean, verdict>>

Gone    == CacheTTL + 1
NoEntry == [addr |-> {}, age |-> Gone]
Silence == [df |-> 0, by |-> {}, wrong |-> 0, ok |-> FALSE, as |-> {}, same |-> FALSE]

DecodeInit ==
  /\ icao_cache = [e \in Entries |-> NoEntry]
  /\ clean = [a \in Planes |-> Gone]
  /\ verdict = Silence

-----------------------------------------------------------------------------
(* Frames *)

TypeOf(m)   == LET bit(b) == IF b \in m THEN 2^(5 - b) ELSE 0
               IN  bit(1) + bit(2) + bit(3) + bit(4) + bit(5)
DF(t)       == {b \in 1 .. 5 : (t \div 2^(5 - b)) % 2 = 1}
Length(t)   == IF t >= 16 THEN Long ELSE Short
Squitters   == {11, 17, 18}
Replies     == {0, 4, 5, 16, 20, 21} \cup 24 .. 31
OneBitOff17 == {1, 16, 19, 21, 25}

\* What bit b of a frame of n adds to the parity; a short frame uses the end of the table.
Weight(b, n)   == IF b > n - Check THEN {b - (n - Check)} ELSE Column[b + Long - n]
Residual(m, n) == FoldSet(LAMBDA b, sum : Xor(Weight(b, n), sum), {}, {b \in m : b <= n})
Address(m)     == {c \in 1 .. Check : 5 + c \in m}
Body(m, n)     == {b \in m : b <= n - Check}

\* What aircraft a sends: a squitter with its address in the clear, a DF11 also
\* in answer to an interrogator, a reply with the address over the parity.
Frame(df, a, data, iid) ==
  LET n    == Length(df)
      text == DF(df) \cup data \cup (IF df \in Squitters THEN {5 + c : c \in a} ELSE {})
  IN  text \cup {n - Check + c : c \in Xor(Residual(text, n), IF df \in Squitters THEN iid ELSE a)}

\* Behind a short frame the receiver repeats the last bit it was sure of.
Heard(m, n) == m \cup (IF n \in m THEN n + 1 .. Long ELSE {})

-----------------------------------------------------------------------------
(* The decoder *)

Seen(a) == LET e == icao_cache[Hash(a)] IN a # {} /\ e.addr = a /\ e.age <= CacheTTL

\* A frame whose type is one bit off 17 is a DF17 if that makes its parity right.
Patch(m)   == (m \ (1 .. 5)) \cup DF(17)
Patched(m) == TypeOf(m) \in OneBitOff17 /\ Residual(Patch(m), Long) = {}

\* All that is wrong with a DF11 may be an interrogator's code.
CodeOnly(m, t) == t = 11 /\ Residual(m, Length(t)) \in SUBSET Code \ {{}}

\* The bits of a squitter whose flip makes the parity right; the first is taken.
Fixes(m, t) ==
  LET r == Residual(m, Length(t))
  IN  IF t \notin Squitters \/ CodeOnly(m, t) THEN {} ELSE {j \in 1 .. Length(t) : Weight(j, Length(t)) = r}

Corrected(m, t) == LET fixes == Fixes(m, t) IN IF fixes = {} THEN m ELSE Xor(m, {Min(fixes)})

\* A squitter with its parity right; a DF11 with a code if its address was
\* heard before; a reply if what is left of the parity is an address heard before.

Believed(m, t) ==
  LET r == Residual(m, Length(t))
  IN  \/ t \in Squitters /\ (r = {} \/ (CodeOnly(m, t) /\ Seen(Address(m))))
      \/ t \in Replies /\ Seen(r)

Whose(m, t) == IF t \in Replies THEN Residual(m, Length(t)) ELSE Address(m)

\* An address is remembered from a DF11 or DF17 that came in without a wrong
\* bit and answers nobody.
Remembers_Corrected(m, t) == t \in {11, 17} /\ Residual(Corrected(m, t), Length(t)) = {}
Remembers(m, t)           == t \in {11, 17} /\ Residual(m, Length(t)) = {}

-----------------------------------------------------------------------------
(* Receiving *)

\* mode_s_decode() on a frame of aircraft a, of which the bits in e are wrong.
Receive(a, df, data, iid, e) ==
  LET n     == Length(df)
      sent  == Frame(df, a, data, iid)
      wrong == e \cap 1 .. n
      m     == Heard(Xor(sent, wrong), n)
      first == IF Patched(m) THEN Patch(m) ELSE m
      t     == TypeOf(first)
      final == Corrected(first, t)
      as    == Whose(final, t)
  IN  /\ verdict' = [df |-> df, by |-> a, wrong |-> Cardinality(wrong) + Cardinality(iid), ok |-> Believed(final, t),
                     as |-> as, same |-> t = df /\ Body(final, n) = Body(sent, n)]
      /\ icao_cache' = IF Remembers(m, t) /\ ~ Patched(m)
                       THEN [icao_cache EXCEPT ![Hash(as)] = [addr |-> as, age |-> 0]]
                       ELSE icao_cache
      /\ clean' = IF df \in {11, 17} /\ Body(e, n) = {} /\ Residual(m, n) = {}
                  THEN [clean EXCEPT ![a] = 0] ELSE clean

Taken == /\ verdict # Silence /\ verdict' = Silence
         /\ UNCHANGED <<icao_cache, clean>>

Later(age) == IF age = Gone THEN Gone ELSE age + 1

Ages ==
  /\ verdict = Silence
  /\ icao_cache' = [s \in Entries |-> [icao_cache[s] EXCEPT !.age = Later(@)]]
  /\ clean' = [a \in Planes |-> Later(clean[a])]
  /\ UNCHANGED verdict

DecodeNext ==
  \/ /\ verdict = Silence
     /\ \E a \in Planes, df \in Formats, data \in Payloads, e \in Noise :
          \E iid \in IF df = 11 THEN SUBSET Code ELSE {{}} : Receive(a, df, data, iid, e)
  \/ Taken
  \/ Ages

-----------------------------------------------------------------------------
(* Properties *)

\* What is delivered is what an aircraft sent, credited to it.  A squitter of which
\* at most two bits came in wrong (the bit of a code counts as one) is delivered as
\* it was sent or not at all: neither the correction of one bit nor the guess that a
\* frame of another type was a DF17 makes a different message or aircraft of it.
\* The list of addresses vouches for nobody it should not: what it holds and has not
\* expired is an aircraft whose squitter came in without a wrong bit since, and a
\* reply with at most one wrong bit is credited only to an aircraft heard so within
\* the time to live (mode-s.c:212-288, 818-903).
AsSent ==
  /\ verdict.ok /\ verdict.df \in Squitters /\ verdict.wrong <= 2
       => verdict.same /\ verdict.as = verdict.by
  /\ \A s \in Entries : icao_cache[s].age <= CacheTTL =>
       icao_cache[s].addr \in Planes /\ clean[icao_cache[s].addr] <= icao_cache[s].age
  /\ verdict.ok /\ verdict.df \notin Squitters /\ verdict.wrong <= 1 =>
       verdict.as \in Planes /\ clean[verdict.as] <= CacheTTL
=============================================================================
