--------------------------- MODULE Tracker_proofs ---------------------------
(***************************************************************************)
(* The aircraft table with a receiver from the start, for any number of    *)
(* aircraft and rows.  The receiver is then the only task that writes, so  *)
(* what it found stays true until it writes, and an active row is at most  *)
(* as old as its aircraft is silent.                                       *)
(***************************************************************************)
EXTENDS Tracker, TLAPS

(* Nobody but the receiver is at work.                                     *)
Alone ==
  /\ attached /\ running /\ at[rx] # "off"
  /\ \A t \in Keys \cup {draw} : at[t] = "idle"

(* What the receiver found before it writes.                               *)
Found ==
  /\ at[rx] = "create" => ~row[slot[rx]].active /\ ~Listed(who[rx])
  /\ at[rx] \in {"stamp", "fill"} => row[slot[rx]].active /\ row[slot[rx]].icao = who[rx]
  /\ at[rx] = "drop" => row[slot[rx]].active /\ row[slot[rx]].age > TTL

(* A row is as old as its aircraft is silent, or being brought up to date. *)
Updating(s) == at[rx] \in {"find", "create", "stamp"} /\ who[rx] = row[s].icao
AgesRight ==
  \A s \in Rows : row[s].active =>
    row[s].icao \in Aircraft /\ (Updating(s) \/ row[s].age <= heard[row[s].icao])

(* The two properties of the rows.                                         *)
RowsSingle == \A s, o \in Rows : row[s].active /\ row[o].active /\ row[s].icao = row[o].icao => s = o
RowsClean  == \A s \in Rows : row[s].active => row[s].shows \in {row[s].icao, none}

TableInv == TypeOK /\ Alone /\ Found /\ AgesRight /\ RowsSingle /\ RowsClean

(* The constants, as the provers need them.                                *)
LEMMA Constants ==
  /\ Slots \in Nat /\ 0 < Slots /\ TTL \in Nat /\ 0 < TTL /\ Old \in Nat
  /\ rx # draw /\ rx \notin Keys /\ draw \notin Keys /\ none \notin Aircraft /\ Fakes \subseteq Aircraft
  /\ Rows \subseteq Nat /\ 1 \in Rows
BY TrackerAssumption DEF Old, Rows

USE Constants

(* A cleared row is a row that is not active.                              *)
LEMMA EmptyRow == Empty \in Row /\ ~Empty.active
BY DEF Empty, Row

(* The history variable tells how the board was started.                   *)
LEMMA AttachedKept == [Next]_vars => attached' = attached
BY DEF Next, Write, Expire, Find, Create, Stamp, Fill, TickBegin, Look, DropRow, Press, Start, Inject, Message, Second, vars

(* The table is empty at boot.                                             *)
LEMMA InitInv == attached /\ Init => TableInv
<1> SUFFICES ASSUME attached, Init PROVE TableInv  OBVIOUS
<1>1. row \in [Rows -> Row] /\ \A s \in Rows : ~row[s].active
  BY EmptyRow DEF Init
<1>2. running \in BOOLEAN /\ inject \in BOOLEAN /\ due \in BOOLEAN
  BY TrackerAssumption, Zenon DEF Init
<1>3. at \in [Tasks -> Places] /\ \A t \in Tasks : at[t] = "idle"
  BY DEF Init, Places
<1>4. who \in [Tasks -> Aircraft \cup {none}] /\ slot \in [Tasks -> Rows]
  BY DEF Init
<1>5. heard \in [Aircraft -> 0 .. Old]
  BY DEF Init
<1>6. running
  BY Zenon DEF Init
<1>7. TypeOK
  BY <1>1, <1>2, <1>3, <1>4, <1>5 DEF TypeOK, Tasks, Writers
<1>8. Alone
  BY <1>3, <1>6 DEF Alone, Tasks
<1>9. Found /\ AgesRight /\ RowsSingle /\ RowsClean
  BY <1>1, <1>3 DEF Found, AgesRight, RowsSingle, RowsClean, Tasks
<1>10. QED  BY <1>7, <1>8, <1>9 DEF TableInv

(* While nobody else works, the only steps are the receiver's, key presses *)
(* that leave a flag, and time.                                            *)
LEMMA OnlyReceiver ==
  ASSUME TableInv, [Next]_vars
  PROVE  \/ Find(rx) \/ Create(rx) \/ Stamp(rx) \/ Fill(rx)
         \/ TickBegin(rx) \/ Look(rx) \/ DropRow(rx)
         \/ \E k \in Keys : Press(k) /\ running
         \/ Inject \/ (\E a \in Aircraft : Message(a)) \/ Second \/ UNCHANGED vars
<1>1. running /\ at[rx] # "off" /\ \A t \in Keys \cup {draw} : at[t] = "idle"
  BY DEF TableInv, Alone
<1>2. ASSUME NEW t \in Writers, Write(t) PROVE t = rx
  BY <1>1, <1>2 DEF Writers, Write, Find, Create, Stamp, Fill
<1>3. ASSUME NEW t \in Tickers, TickBegin(t) \/ Expire(t) PROVE t = rx
  BY <1>1, <1>3 DEF Tickers, TickBegin, Expire, Look, DropRow
<1>4. ~Start
  BY <1>1 DEF Start
<1>5. QED
  BY <1>1, <1>2, <1>3, <1>4 DEF Next, Write, Expire

-----------------------------------------------------------------------------
(* Types and whose turn it is.                                             *)

(* The types of the receiver's own variables, one by one.                  *)
LEMMA Typing ==
  ASSUME TypeOK
  PROVE  /\ rx \in Tasks /\ rx \in Writers /\ slot[rx] \in Rows /\ at[rx] \in Places
         /\ \A s \in Rows : row[s] \in Row
         /\ who[rx] \in Aircraft \cup {none}
         /\ at[rx] \in {"find", "create", "stamp", "fill"} => who[rx] \in Aircraft
BY DEF TypeOK, Tasks, Writers

(* Every step keeps the types.                                             *)
LEMMA TypeStep == TableInv /\ [Next]_vars => TypeOK'
<1> SUFFICES ASSUME TableInv, [Next]_vars PROVE TypeOK'  OBVIOUS
<1>0. TypeOK  BY DEF TableInv
<1> USE <1>0, Typing
<1>1. CASE Find(rx)
  <2>1. slot' \in [Tasks -> Rows]  BY <1>1 DEF TypeOK, Find, First, Mine, Free
  <2>2. at' \in [Tasks -> Places]  BY <1>1 DEF TypeOK, Find, Goes, Rests, Places
  <2>3. who' \in [Tasks -> Aircraft \cup {none}] /\ (who' = who \/ at'[rx] = "idle")
    BY <1>1 DEF TypeOK, Find, Goes, Rests
  <2>4. \A t \in Writers \ {rx} : who'[t] = who[t] /\ at'[t] = at[t]
    BY <1>1 DEF TypeOK, Find, Goes, Rests, Tasks, Writers
  <2>5. row' = row /\ running' = running /\ inject' = inject /\ due' = due /\ heard' = heard
    BY <1>1 DEF Find
  <2>6. at[rx] = "find"  BY <1>1 DEF Find
  <2>7. QED  BY AttachedKept, <2>1, <2>2, <2>3, <2>4, <2>5, <2>6 DEF TypeOK, Writers
<1>2. CASE Create(rx)
  <2>1. [icao |-> who[rx], shows |-> none, active |-> TRUE, age |-> Old] \in Row  BY DEF Row
  <2>2. row' \in [Rows -> Row]  BY <1>2, <2>1 DEF TypeOK, Create
  <2>3. QED  BY <1>2, <2>2 DEF TypeOK, Create, Goes, Places, Tasks, Writers
<1>3. CASE Stamp(rx)
  <2>1. row' \in [Rows -> Row]  BY <1>3 DEF TypeOK, Stamp, Row
  <2>2. QED  BY <1>3, <2>1 DEF TypeOK, Stamp, Goes, Places, Tasks, Writers
<1>4. CASE Fill(rx)
  <2>1. row' \in [Rows -> Row]  BY <1>4 DEF TypeOK, Fill, Row
  <2>2. QED  BY <1>4, <2>1 DEF TypeOK, Fill, Goes, Rests, Places, Tasks, Writers
<1>5. CASE TickBegin(rx)
  BY <1>5 DEF TypeOK, TickBegin, Goes, Places, Tasks, Writers
<1>6. CASE Look(rx) \/ DropRow(rx)
  <2>a. UNCHANGED slot \/ NextRow(rx)
    BY <1>6, Zenon DEF Look, DropRow
  <2>0. \/ slot' = slot
        \/ slot' = [slot EXCEPT ![rx] = 1]
        \/ slot' = [slot EXCEPT ![rx] = slot[rx] + 1] /\ slot[rx] # Slots
    BY <2>a, Zenon DEF NextRow
  <2>1. slot' \in [Tasks -> Rows]
    <3>1. slot[rx] # Slots => slot[rx] + 1 \in Rows  BY DEF Rows
    <3>2. 1 \in Rows  BY TrackerAssumption DEF Rows
    <3>3. QED  BY <2>0, <3>1, <3>2 DEF TypeOK
  <2>2. at' \in [Tasks -> Places] /\ at'[rx] \in {"idle", "look", "drop"} /\ \A t \in Tasks \ {rx} : at'[t] = at[t]
    BY <1>6 DEF TypeOK, Look, DropRow, NextRow, Goes, Places
  <2>3. row' \in [Rows -> Row]
    <3>1. row' = row \/ row' = [row EXCEPT ![slot[rx]] = [row[slot[rx]] EXCEPT !.active = FALSE]]
      BY <1>6 DEF Look, DropRow
    <3>2. \A r \in Row : [r EXCEPT !.active = FALSE] \in Row  BY DEF Row
    <3>3. QED  BY <3>1, <3>2 DEF TypeOK
  <2>4. running' = running /\ inject' = inject /\ due' = due /\ heard' = heard /\ who' = who
    BY <1>6 DEF Look, DropRow
  <2>5. QED  BY AttachedKept, <2>1, <2>2, <2>3, <2>4 DEF TypeOK, Tasks, Writers
<1>7. CASE \E k \in Keys : Press(k) /\ running
  BY <1>7 DEF TypeOK, Press
<1>8. CASE Inject \/ (\E a \in Aircraft : Message(a))
  <2>1. PICK a \in Aircraft : Begin(rx, a)  BY <1>8 DEF Inject, Message
  <2>2. heard' \in [Aircraft -> 0 .. Old]  BY <2>1 DEF Begin, TypeOK
  <2>3. at' \in [Tasks -> Places] /\ who' \in [Tasks -> Aircraft \cup {none}] /\ who'[rx] = a
        /\ \A t \in Tasks \ {rx} : at'[t] = at[t] /\ who'[t] = who[t]
    BY <2>1 DEF Begin, Goes, TypeOK, Places
  <2>4. inject' \in BOOLEAN /\ row' = row /\ running' = running /\ due' = due /\ slot' = slot
    BY <1>8 DEF Inject, Message, TypeOK
  <2>5. QED  BY AttachedKept, <2>2, <2>3, <2>4 DEF TypeOK, Tasks, Writers
<1>9. CASE Second
  <2>1. row' \in [Rows -> Row]
    <3>1. \A r \in Row : r.age < Old => r.age + 1 \in 0 .. Old  BY DEF Row
    <3>2. Old \in 0 .. Old  OBVIOUS
    <3>3. \A r \in Row, n \in 0 .. Old : [r EXCEPT !.age = n] \in Row  BY DEF Row
    <3>4. \A s \in Rows : row'[s] = [row[s] EXCEPT !.age = IF row[s].age < Old THEN row[s].age + 1 ELSE Old]
      BY <1>9 DEF Second
    <3>5. ASSUME NEW s \in Rows PROVE row'[s] \in Row
      <4>1. row[s] \in Row  OBVIOUS
      <4>2. PICK n : n = IF row[s].age < Old THEN row[s].age + 1 ELSE Old  OBVIOUS
      <4>3. n \in 0 .. Old  BY <3>1, <3>2, <4>1, <4>2
      <4>4. row'[s] = [row[s] EXCEPT !.age = n]  BY <3>4, <4>2, Zenon
      <4>5. QED  BY <3>3, <4>1, <4>3, <4>4
    <3>6. QED  BY <1>9, <3>5 DEF Second
  <2>2. heard' \in [Aircraft -> 0 .. Old]  BY <1>9 DEF Second, TypeOK
  <2>3. QED  BY <1>9, <2>1, <2>2 DEF Second, TypeOK
<1>10. CASE UNCHANGED vars  BY <1>10 DEF TypeOK, vars
<1>11. QED
  BY OnlyReceiver, <1>1, <1>2, <1>3, <1>4, <1>5, <1>6, <1>7, <1>8, <1>9, <1>10

(* No other task begins to write or to tick.                               *)
LEMMA AloneStep == TableInv /\ [Next]_vars => Alone'
<1> SUFFICES ASSUME TableInv, [Next]_vars PROVE Alone'  OBVIOUS
<1>1. TypeOK /\ Alone  BY DEF TableInv
<1>2. at' = at \/ \E p \in Places \ {"off"} : at' = [at EXCEPT ![rx] = p]
  BY OnlyReceiver
  DEF Find, Create, Stamp, Fill, TickBegin, Look, DropRow, NextRow, Press, Inject, Message, Second, Goes, Rests, Begin, Places, vars
<1>3. running' = running
  BY OnlyReceiver
  DEF Find, Create, Stamp, Fill, TickBegin, Look, DropRow, Press, Inject, Message, Second, vars
<1>4. QED  BY AttachedKept, <1>1, <1>2, <1>3 DEF Alone, TypeOK, Tasks

-----------------------------------------------------------------------------
(* The rows.                                                               *)

(* What a step of the receiver or of time does to the rows.                *)
LEMMA RowSteps ==
  ASSUME TableInv
  PROVE  /\ Create(rx) => row' = [row EXCEPT ![slot[rx]] = [icao |-> who[rx], shows |-> none, active |-> TRUE, age |-> Old]]
         /\ Stamp(rx) => row' = [row EXCEPT ![slot[rx]] = [row[slot[rx]] EXCEPT !.age = 0]]
         /\ Fill(rx) => row' = [row EXCEPT ![slot[rx]] = [row[slot[rx]] EXCEPT !.shows = who[rx]]]
         /\ DropRow(rx) => row' = [row EXCEPT ![slot[rx]] = [row[slot[rx]] EXCEPT !.active = FALSE]]
         /\ Second => \A s \in Rows : /\ row'[s].icao = row[s].icao
                                      /\ row'[s].active = row[s].active
                                      /\ row'[s].shows = row[s].shows
<1>1. TypeOK  BY DEF TableInv
<1>2. ASSUME Second, NEW s \in Rows
      PROVE  row'[s].icao = row[s].icao /\ row'[s].active = row[s].active /\ row'[s].shows = row[s].shows
  <2>1. PICK n : row'[s] = [row[s] EXCEPT !.age = n]  BY <1>2 DEF Second
  <2>2. row[s] \in Row  BY <1>1, Typing
  <2>3. QED  BY <2>1, <2>2 DEF Row
<1>3. QED  BY <1>1, <1>2, Typing DEF Create, Stamp, Fill, DropRow

(* A second makes rows and silences older alike.                           *)
LEMMA Ageing ==
  ASSUME TypeOK, Second
  PROVE  /\ \A s \in Rows : row'[s].age = IF row[s].age < Old THEN row[s].age + 1 ELSE Old
         /\ \A a \in Aircraft : heard'[a] = IF heard[a] < Old THEN heard[a] + 1 ELSE Old
<1>1. ASSUME NEW s \in Rows PROVE row'[s].age = IF row[s].age < Old THEN row[s].age + 1 ELSE Old
  <2>1. PICK n : n = IF row[s].age < Old THEN row[s].age + 1 ELSE Old  OBVIOUS
  <2>2. row'[s] = [row[s] EXCEPT !.age = n]  BY <2>1, Zenon DEF Second
  <2>3. row[s] \in Row  BY Typing
  <2>4. row'[s].age = n  BY <2>2, <2>3 DEF Row
  <2>5. QED  BY <2>1, <2>4
<1>2. QED  BY <1>1 DEF Second

(* What the receiver found stays true until it writes.                     *)
LEMMA FoundStep == TableInv /\ [Next]_vars => Found'
<1> SUFFICES ASSUME TableInv, [Next]_vars PROVE Found'  OBVIOUS
<1>0. TypeOK /\ Found /\ at \in [Tasks -> Places] /\ slot \in [Tasks -> Rows] /\ who \in [Tasks -> Aircraft \cup {none}]
  BY DEF TableInv, TypeOK
<1>a. row \in [Rows -> Row]  BY <1>0 DEF TypeOK
<1> USE <1>0, Typing
<1>1. CASE Find(rx)
  <2>1. CASE Mine(rx) # {}
    <3>1. PICK s \in Mine(rx) : slot' = [slot EXCEPT ![rx] = s]  BY <1>1, <2>1 DEF Find, First
    <3>2. at' = [at EXCEPT ![rx] = "stamp"] /\ who' = who /\ row' = row  BY <1>1, <2>1 DEF Find, Goes
    <3>3. QED  BY <3>1, <3>2 DEF Mine, Found
  <2>2. CASE Mine(rx) = {} /\ Free # {}
    <3>1. PICK s \in Free : slot' = [slot EXCEPT ![rx] = s]  BY <1>1, <2>2 DEF Find, First
    <3>2. at' = [at EXCEPT ![rx] = "create"] /\ who' = who /\ row' = row  BY <1>1, <2>2 DEF Find, Goes
    <3>3. QED  BY <2>2, <3>1, <3>2 DEF Mine, Free, Found, Listed
  <2>3. CASE Mine(rx) = {} /\ Free = {}
    BY <1>1, <2>3 DEF Find, Rests, Goes, Found
  <2>4. QED  BY <2>1, <2>2, <2>3
<1>2. CASE Create(rx)
  <2>1. row'[slot[rx]] = [icao |-> who[rx], shows |-> none, active |-> TRUE, age |-> Old]
    BY <1>2, <1>a, RowSteps
  <2>2. at' = [at EXCEPT ![rx] = "stamp"] /\ who' = who /\ slot' = slot  BY <1>2 DEF Create, Goes
  <2>3. QED  BY <2>1, <2>2 DEF Found
<1>3. CASE Stamp(rx)
  <2>1. row'[slot[rx]] = [row[slot[rx]] EXCEPT !.age = 0]
    BY <1>3, <1>a, RowSteps
  <2>2. row'[slot[rx]].active = row[slot[rx]].active /\ row'[slot[rx]].icao = row[slot[rx]].icao
    BY <2>1 DEF Row
  <2>3. at' = [at EXCEPT ![rx] = "fill"] /\ who' = who /\ slot' = slot /\ at[rx] = "stamp"  BY <1>3 DEF Stamp, Goes
  <2>4. QED  BY <2>2, <2>3 DEF Found
<1>4. CASE Fill(rx) \/ TickBegin(rx)
  BY <1>4 DEF Fill, TickBegin, Rests, Goes, Found
<1>5. CASE Look(rx)
  <2>1. CASE row[slot[rx]].active /\ row[slot[rx]].age > TTL
    BY <1>5, <2>1 DEF Look, Goes, Found
  <2>2. CASE ~(row[slot[rx]].active /\ row[slot[rx]].age > TTL)
    <3>1. NextRow(rx)  BY <1>5, <2>2, Zenon DEF Look
    <3>2. at'[rx] \in {"idle", "look"}  BY <3>1 DEF NextRow, Goes
    <3>3. QED  BY <3>2 DEF Found
  <2>3. QED  BY <2>1, <2>2
<1>6. CASE DropRow(rx)
  <2>1. at'[rx] \in {"idle", "look"}  BY <1>6 DEF DropRow, NextRow, Goes
  <2>2. QED  BY <2>1 DEF Found
<1>7. CASE \E k \in Keys : Press(k) /\ running
  BY <1>7 DEF Press, Found, Listed
<1>8. CASE Inject \/ (\E a \in Aircraft : Message(a))
  <2>1. at'[rx] = "find"  BY <1>8 DEF Inject, Message, Begin, Goes
  <2>2. QED  BY <2>1 DEF Found
<1>9. CASE Second
  <2>1. at' = at /\ slot' = slot /\ who' = who  BY <1>9 DEF Second
  <2>2. \A s \in Rows : row'[s].icao = row[s].icao /\ row'[s].active = row[s].active  BY <1>9, RowSteps
  <2>3. row[slot[rx]].age > TTL => row'[slot[rx]].age > TTL
    <3>0. row[slot[rx]] \in Row  OBVIOUS
    <3>1. row[slot[rx]].age \in Nat  BY <3>0 DEF Row
    <3>2. row'[slot[rx]].age = IF row[slot[rx]].age < Old THEN row[slot[rx]].age + 1 ELSE Old  BY <1>9, Ageing
    <3>3. QED  BY <3>1, <3>2 DEF Old
  <2>4. QED  BY <2>1, <2>2, <2>3 DEF Found, Listed
<1>10. CASE UNCHANGED vars  BY <1>10 DEF vars, Found, Listed
<1>11. QED
  BY OnlyReceiver, <1>1, <1>2, <1>3, <1>4, <1>5, <1>6, <1>7, <1>8, <1>9, <1>10

(* No row grows older than its aircraft is silent.                         *)
LEMMA AgesStep == TableInv /\ [Next]_vars => AgesRight'
<1> SUFFICES ASSUME TableInv, [Next]_vars,
                    NEW s \in Rows, row'[s].active
             PROVE  row'[s].icao \in Aircraft /\ (Updating(s)' \/ row'[s].age <= heard'[row'[s].icao])
  BY DEF AgesRight, Updating
<1>0. /\ TypeOK /\ Found /\ at \in [Tasks -> Places] /\ slot \in [Tasks -> Rows]
      /\ row \in [Rows -> Row] /\ row[s] \in Row /\ heard \in [Aircraft -> 0 .. Old]
      /\ who \in [Tasks -> Aircraft \cup {none}]
  BY DEF TableInv, TypeOK
<1>a. row[s].active => row[s].icao \in Aircraft /\ (Updating(s) \/ row[s].age <= heard[row[s].icao])
  BY DEF TableInv, AgesRight
<1> USE <1>0, <1>a, Typing
<1>1. CASE Find(rx)
  <2>1. row' = row /\ heard' = heard /\ at[rx] = "find"  BY <1>1 DEF Find
  <2>2. CASE Mine(rx) = {} /\ Free = {}
    <3>1. ~Updating(s)  BY <2>1, <2>2 DEF Updating, Mine
    <3>2. QED  BY <2>1, <3>1
  <2>3. CASE ~(Mine(rx) = {} /\ Free = {})
    <3>1. at'[rx] \in {"create", "stamp"} /\ who' = who  BY <1>1, <2>3 DEF Find, Goes
    <3>2. QED  BY <2>1, <3>1 DEF Updating
  <2>4. QED  BY <2>2, <2>3
<1>2. CASE Create(rx)
  <2>1. row' = [row EXCEPT ![slot[rx]] = [icao |-> who[rx], shows |-> none, active |-> TRUE, age |-> Old]]
    BY <1>2, RowSteps
  <2>2. at'[rx] = "stamp" /\ at[rx] = "create" /\ who' = who /\ heard' = heard  BY <1>2 DEF Create, Goes
  <2>3. QED  BY <2>1, <2>2 DEF Updating
<1>3. CASE Stamp(rx)
  <2>1. row' = [row EXCEPT ![slot[rx]] = [row[slot[rx]] EXCEPT !.age = 0]]
    BY <1>3, RowSteps
  <2>2. at'[rx] = "fill" /\ at[rx] = "stamp" /\ heard' = heard  BY <1>3 DEF Stamp, Goes
  <2>3. CASE s = slot[rx]
    <3>1. row'[s].icao = row[s].icao /\ row'[s].age = 0  BY <2>1, <2>3 DEF Row
    <3>2. row[s].active /\ row[s].icao = who[rx]  BY <2>2, <2>3 DEF Found
    <3>3. QED  BY <2>2, <3>1, <3>2
  <2>4. CASE s # slot[rx]
    <3>1. row'[s] = row[s]  BY <2>1, <2>4
    <3>2. row[s].icao # who[rx]
      <4>1. row[slot[rx]].active /\ row[slot[rx]].icao = who[rx]  BY <2>2 DEF Found
      <4>2. RowsSingle  BY DEF TableInv
      <4>3. QED  BY <2>4, <3>1, <4>1, <4>2 DEF RowsSingle
    <3>3. QED  BY <2>2, <3>1, <3>2 DEF Updating
  <2>5. QED  BY <2>3, <2>4
<1>4. CASE Fill(rx)
  <2>1. row' = [row EXCEPT ![slot[rx]] = [row[slot[rx]] EXCEPT !.shows = who[rx]]]
    BY <1>4, RowSteps
  <2>2. at[rx] = "fill" /\ heard' = heard  BY <1>4 DEF Fill
  <2>3. row'[s].icao = row[s].icao /\ row'[s].age = row[s].age /\ row'[s].active = row[s].active  BY <2>1 DEF Row
  <2>4. QED  BY <2>2, <2>3 DEF Updating
<1>5. CASE TickBegin(rx) \/ Look(rx)
  <2>1. row' = row /\ heard' = heard /\ at[rx] \in {"idle", "look"}  BY <1>5 DEF TickBegin, Look
  <2>2. QED  BY <2>1 DEF Updating
<1>6. CASE DropRow(rx)
  <2>1. row' = [row EXCEPT ![slot[rx]] = [row[slot[rx]] EXCEPT !.active = FALSE]]
    BY <1>6, RowSteps
  <2>2. heard' = heard /\ at[rx] = "drop"  BY <1>6 DEF DropRow
  <2>3. s # slot[rx]  BY <2>1 DEF Row
  <2>4. QED  BY <2>1, <2>2, <2>3 DEF Updating
<1>7. CASE \E k \in Keys : Press(k) /\ running
  <2>1. row' = row /\ heard' = heard /\ at' = at /\ who' = who  BY <1>7 DEF Press
  <2>2. QED  BY <2>1 DEF Updating
<1>8. CASE Inject \/ (\E a \in Aircraft : Message(a))
  <2>1. PICK a \in Aircraft : Begin(rx, a)  BY <1>8 DEF Inject, Message
  <2>2. at'[rx] = "find" /\ who'[rx] = a /\ \A b \in Aircraft \ {a} : heard'[b] = heard[b]
    BY <2>1 DEF Begin, Goes
  <2>3. row' = row /\ at[rx] = "idle"  BY <1>8 DEF Inject, Message
  <2>4. QED  BY <2>2, <2>3 DEF Updating
<1>9. CASE Second
  <2>1. at' = at /\ who' = who  BY <1>9 DEF Second
  <2>2. row'[s].icao = row[s].icao /\ row'[s].active = row[s].active  BY <1>9, RowSteps
  <2>3. row[s].icao \in Aircraft  BY <2>2
  <2>4. row'[s].age = IF row[s].age < Old THEN row[s].age + 1 ELSE Old  BY <1>9, Ageing
  <2>5. heard'[row[s].icao] = IF heard[row[s].icao] < Old THEN heard[row[s].icao] + 1 ELSE Old
    BY <1>9, <2>3, Ageing
  <2>6. row[s].age \in 0 .. Old  BY DEF Row
  <2>7. heard[row[s].icao] \in 0 .. Old  BY <2>3
  <2>8. row[s].age <= heard[row[s].icao] => row'[s].age <= heard'[row[s].icao]
    BY <2>4, <2>5, <2>6, <2>7
  <2>9. QED  BY <2>1, <2>2, <2>3, <2>8 DEF Updating
<1>10. CASE UNCHANGED vars  BY <1>10 DEF vars, Updating
<1>11. QED
  BY OnlyReceiver, <1>1, <1>2, <1>3, <1>4, <1>5, <1>6, <1>7, <1>8, <1>9, <1>10

(* Which rows are whose changes only when the receiver creates or drops a  *)
(* row, and what a row shows when it creates or fills one.                 *)
LEMMA RowsKept ==
  ASSUME TableInv, [Next]_vars, ~Create(rx), ~DropRow(rx), NEW s \in Rows
  PROVE  /\ row'[s].icao = row[s].icao /\ row'[s].active = row[s].active
         /\ Fill(rx) /\ s = slot[rx] => row'[s].shows = who[rx]
         /\ ~(Fill(rx) /\ s = slot[rx]) => row'[s].shows = row[s].shows
<1>0. TypeOK /\ row \in [Rows -> Row] /\ row[s] \in Row /\ slot[rx] \in Rows
  BY Typing DEF TableInv, TypeOK
<1>1. CASE Stamp(rx)
  <2>1. row' = [row EXCEPT ![slot[rx]] = [row[slot[rx]] EXCEPT !.age = 0]]  BY <1>1, RowSteps
  <2>2. ~Fill(rx)  BY <1>1 DEF Stamp, Fill
  <2>3. QED  BY <1>0, <2>1, <2>2 DEF Row
<1>2. CASE Fill(rx)
  <2>1. row' = [row EXCEPT ![slot[rx]] = [row[slot[rx]] EXCEPT !.shows = who[rx]]]  BY <1>2, RowSteps
  <2>2. QED  BY <1>0, <1>2, <2>1 DEF Row
<1>3. CASE Second
  <2>1. row'[s].icao = row[s].icao /\ row'[s].active = row[s].active /\ row'[s].shows = row[s].shows
    BY <1>3, RowSteps
  <2>2. ~Fill(rx)
    <3>1. at' = at  BY <1>3 DEF Second
    <3>2. Fill(rx) => at[rx] = "fill" /\ at'[rx] = "idle"  BY <1>0 DEF Fill, Rests, Goes, TypeOK, Tasks
    <3>3. QED  BY <3>1, <3>2
  <2>3. QED  BY <2>1, <2>2
<1>4. CASE ~Stamp(rx) /\ ~Fill(rx) /\ ~Second
  <2>1. row' = row
    BY <1>4, OnlyReceiver DEF Find, TickBegin, Look, Press, Inject, Message, vars
  <2>2. QED  BY <1>4, <2>1
<1>5. QED  BY <1>1, <1>2, <1>3, <1>4

(* A row is made only for an aircraft that has none.                       *)
LEMMA OneRowStep == TableInv /\ [Next]_vars => RowsSingle'
<1> SUFFICES ASSUME TableInv, [Next]_vars,
                    NEW s \in Rows, NEW o \in Rows, row'[s].active, row'[o].active, row'[s].icao = row'[o].icao
             PROVE  s = o
  BY DEF RowsSingle
<1>0. /\ TypeOK /\ row \in [Rows -> Row] /\ slot[rx] \in Rows /\ RowsSingle /\ Found
  BY Typing DEF TableInv, TypeOK
<1>1. CASE Create(rx)
  <2>1. row' = [row EXCEPT ![slot[rx]] = [icao |-> who[rx], shows |-> none, active |-> TRUE, age |-> Old]]
    BY <1>1, RowSteps
  <2>2. \A r \in Rows : ~(row[r].active /\ row[r].icao = who[rx])
    BY <1>0, <1>1 DEF Create, Found, Listed
  <2>3. \A r \in Rows \ {slot[rx]} : row'[r] = row[r]  BY <1>0, <2>1
  <2>4. row'[slot[rx]].icao = who[rx]  BY <1>0, <2>1
  <2>5. QED  BY <1>0, <2>2, <2>3, <2>4 DEF RowsSingle
<1>2. CASE DropRow(rx)
  <2>1. row' = [row EXCEPT ![slot[rx]] = [row[slot[rx]] EXCEPT !.active = FALSE]]  BY <1>2, RowSteps
  <2>2. \A r \in Rows : row'[r].icao = row[r].icao /\ (row'[r].active => row[r].active)
    BY <1>0, <2>1 DEF Row
  <2>3. QED  BY <1>0, <2>2 DEF RowsSingle
<1>3. CASE ~Create(rx) /\ ~DropRow(rx)
  BY <1>0, <1>3, RowsKept DEF RowsSingle
<1>4. QED  BY <1>1, <1>2, <1>3

(* A row is cleared before it is given to another aircraft.                *)
LEMMA OneAircraftStep == TableInv /\ [Next]_vars => RowsClean'
<1> SUFFICES ASSUME TableInv, [Next]_vars, NEW s \in Rows, row'[s].active
             PROVE  row'[s].shows \in {row'[s].icao, none}
  BY DEF RowsClean
<1>0. /\ TypeOK /\ row \in [Rows -> Row] /\ row[s] \in Row /\ slot[rx] \in Rows /\ RowsClean /\ Found
  BY Typing DEF TableInv, TypeOK
<1>1. CASE Create(rx)
  <2>1. row' = [row EXCEPT ![slot[rx]] = [icao |-> who[rx], shows |-> none, active |-> TRUE, age |-> Old]]
    BY <1>1, RowSteps
  <2>2. QED  BY <1>0, <2>1 DEF RowsClean
<1>2. CASE DropRow(rx)
  <2>1. row' = [row EXCEPT ![slot[rx]] = [row[slot[rx]] EXCEPT !.active = FALSE]]  BY <1>2, RowSteps
  <2>2. row'[s].icao = row[s].icao /\ row'[s].shows = row[s].shows /\ row[s].active
    BY <1>0, <2>1 DEF Row
  <2>3. QED  BY <1>0, <2>2 DEF RowsClean
<1>3. CASE ~Create(rx) /\ ~DropRow(rx)
  <2>1. CASE Fill(rx) /\ s = slot[rx]
    <3>1. row[s].icao = who[rx]  BY <1>0, <2>1 DEF Fill, Found
    <3>2. QED  BY <1>3, <2>1, <3>1, RowsKept
  <2>2. CASE ~(Fill(rx) /\ s = slot[rx])
    BY <1>0, <1>3, <2>2, RowsKept DEF RowsClean
  <2>3. QED  BY <2>1, <2>2
<1>4. QED  BY <1>1, <1>2, <1>3

-----------------------------------------------------------------------------
(* The theorems.                                                           *)

(* The invariant is inductive: at a receiver that is attached from the     *)
(* start every state has its types, its one writer, what that writer found,*)
(* and rows that are one aircraft's each (class_driver.c, 423-447).        *)
THEOREM Invariant == Spec => [](attached => TableInv)
<1>1. Init => (attached => TableInv)
  BY InitInv
<1>2. TableInv /\ [Next]_vars => TableInv'
  BY TypeStep, AloneStep, FoundStep, AgesStep, OneRowStep, OneAircraftStep DEF TableInv
<1>3. (attached => TableInv) /\ [Next]_vars => (attached => TableInv)'
  BY <1>2, AttachedKept
<1>4. QED  BY <1>1, <1>3, PTL DEF Spec

(* find_or_create() never gives an aircraft a second row, for any number   *)
(* of aircraft and rows.                                                   *)
THEOREM OneRow == Spec => []OneRowEach
<1>1. (attached => TableInv) => OneRowEach  BY DEF TableInv, RowsSingle, OneRowEach
<1>2. QED  BY Invariant, <1>1, PTL

(* A row handed to a new aircraft shows nothing of the old one: the memset *)
(* of find_or_create() and one writer.                                     *)
THEOREM OneAircraft == Spec => []RowIsOneAircraft
<1>1. (attached => TableInv) => RowIsOneAircraft  BY DEF TableInv, RowsClean, RowIsOneAircraft
<1>2. QED  BY Invariant, <1>1, PTL

(* tracker_tick() drops a row only of an aircraft unheard for longer than  *)
(* CONTACT_TTL_US, although it looks at the row and drops it in two steps. *)
THEOREM DroppedIsSilent == Spec => OnlySilentDropped
<1>1. ASSUME TableInv, [Next]_vars, NEW s \in Rows, row[s].active, ~row'[s].active
      PROVE  heard[row[s].icao] > TTL
  <2>0. /\ TypeOK /\ row \in [Rows -> Row] /\ row[s] \in Row /\ slot[rx] \in Rows /\ Found /\ AgesRight
    BY <1>1, Typing DEF TableInv, TypeOK
  <2>1. CASE Create(rx)
    <3>1. row' = [row EXCEPT ![slot[rx]] = [icao |-> who[rx], shows |-> none, active |-> TRUE, age |-> Old]]
      BY <1>1, <2>1, RowSteps
    <3>2. row'[s] = row[s] \/ row'[s].active  BY <2>0, <3>1
    <3>3. QED  BY <1>1, <3>2
  <2>2. CASE DropRow(rx)
    <3>1. row' = [row EXCEPT ![slot[rx]] = [row[slot[rx]] EXCEPT !.active = FALSE]]  BY <1>1, <2>2, RowSteps
    <3>2. s = slot[rx]  BY <1>1, <2>0, <3>1
    <3>3. at[rx] = "drop"  BY <2>2 DEF DropRow
    <3>4. row[s].age > TTL  BY <2>0, <3>2, <3>3 DEF Found
    <3>5. row[s].icao \in Aircraft /\ row[s].age <= heard[row[s].icao]
      BY <1>1, <2>0, <3>3 DEF AgesRight, Updating
    <3>6. row[s].age \in Nat /\ heard[row[s].icao] \in Nat
      <4>1. row[s].age \in 0 .. Old  BY <2>0 DEF Row
      <4>2. heard[row[s].icao] \in 0 .. Old  BY <2>0, <3>5 DEF TypeOK
      <4>3. QED  BY <4>1, <4>2
    <3>7. QED  BY <3>4, <3>5, <3>6
  <2>3. CASE ~Create(rx) /\ ~DropRow(rx)
    BY <1>1, <2>3, RowsKept
  <2>4. QED  BY <2>1, <2>2, <2>3
<1>2. (attached => TableInv) /\ [Next]_vars => [attached => \A s \in Rows : row[s].active /\ ~row'[s].active => heard[row[s].icao] > TTL]_vars
  BY <1>1
<1>3. QED  BY Invariant, <1>2, PTL DEF Spec, OnlySilentDropped

(* A full table turns a new aircraft away and takes no row from another.   *)
THEOREM NotEvicted == Spec => NobodyEvicted
<1>1. ASSUME TableInv, [Next]_vars, NEW s \in Rows, row[s].active, row'[s].active
      PROVE  row'[s].icao = row[s].icao
  <2>0. /\ TypeOK /\ row \in [Rows -> Row] /\ row[s] \in Row /\ slot[rx] \in Rows /\ Found
    BY <1>1, Typing DEF TableInv, TypeOK
  <2>1. CASE Create(rx)
    <3>1. row' = [row EXCEPT ![slot[rx]] = [icao |-> who[rx], shows |-> none, active |-> TRUE, age |-> Old]]
      BY <1>1, <2>1, RowSteps
    <3>2. ~row[slot[rx]].active  BY <2>0, <2>1 DEF Create, Found
    <3>3. QED  BY <1>1, <2>0, <3>1, <3>2
  <2>2. CASE DropRow(rx)
    <3>1. row' = [row EXCEPT ![slot[rx]] = [row[slot[rx]] EXCEPT !.active = FALSE]]  BY <1>1, <2>2, RowSteps
    <3>2. QED  BY <2>0, <3>1 DEF Row
  <2>3. CASE ~Create(rx) /\ ~DropRow(rx)
    BY <1>1, <2>3, RowsKept
  <2>4. QED  BY <2>1, <2>2, <2>3
<1>2. (attached => TableInv) /\ [Next]_vars => [attached => \A s \in Rows : row[s].active /\ row'[s].active => row'[s].icao = row[s].icao]_vars
  BY <1>1
<1>3. QED  BY Invariant, <1>2, PTL DEF Spec, NobodyEvicted
=============================================================================
