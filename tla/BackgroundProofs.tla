-------------------------- MODULE BackgroundProofs --------------------------
(***************************************************************************)
(* The parts of Background for all values of their bounds.                 *)
(*                                                                         *)
(* The spreadsheet tells the truth for any number of operations, reloads,  *)
(* failures and any length of the stream: whatever column of the sheet is  *)
(* wrong is one that a task on its way will put right, or one of the named *)
(* things happened.                                                        *)
(*                                                                         *)
(* A ticket is sent at most one message that marks it: that alone is not   *)
(* inductive, and holds because a run never has, as the one being sent or  *)
(* among those still to come, a ticket that is marked.  That is so when    *)
(* the run reads its tickets, and marking a ticket takes it out.           *)
(*                                                                         *)
(* The news of a payment is counted in copies: no step makes one without a *)
(* failure, and a booking uses one up.                                     *)
(***************************************************************************)
EXTENDS Background, Sequences, FiniteSetTheorems, TLAPS

Row     == [G!Columns -> Int]
Partial == Row \cup [{"free"} -> Int] \cup [{"nonconfirm"} -> Int]
TaskOf(n) == [option |-> G!Option(n), numbers |-> n]
Tasks   == {TaskOf(n) : n \in Partial}
Steps   == {"idle", "read", "refused", "published", "committed", "loaded"}

Covers(t, c) == c \in DOMAIN t.numbers

\* The numbers and the tasks, and who can be where.
RowsTyped == db \in Row /\ sheet \in Row
QueueTyped ==
    /\ stream \in Seq(Tasks) /\ unacked \in Seq(Tasks)
    /\ inflight = G!NoTask \/ inflight \in [task : Tasks, done : BOOLEAN]
ActorsTyped ==
    /\ pc \in [G!Actors -> Steps]
    /\ numbers \in [G!Actors -> Partial \cup {<<>>}]
    /\ \A a \in G!Actors : pc[a] # "idle" => numbers[a] \in Partial
    /\ \A a \in G!Actors : pc[a] = "loaded" => a = "bot"
    /\ \A a \in G!Actors : pc[a] = "committed" => a = "web"
    /\ pc["bot"] = "loaded" => numbers["bot"] \in Row
    /\ pc["web"] # "idle" => numbers["web"] \in Row
    /\ pc["web"] \in {"idle", "read", "committed"}
SheetTyped == RowsTyped /\ QueueTyped /\ ActorsTyped
FormTyped  == form \in Row \cup {<<>>}

(***************************************************************************)
(* What the sheet will show: the numbers of the newest task that covers    *)
(* the column, and what it shows now if there is none.                     *)
(***************************************************************************)
Front(c, v) ==
    LET given == inflight # G!NoTask /\ Covers(inflight.task, c)
        again == unacked # <<>> /\ Covers(unacked[1], c)
    IN  /\ given => inflight.task.numbers[c] = v /\ (inflight.done => sheet[c] = v)
        /\ again => unacked[1].numbers[c] = v
        /\ ~given /\ ~again => sheet[c] = v

Newest(c, i) ==
    /\ Covers(stream[i], c)
    /\ \A j \in 1..Len(stream) : j > i => ~Covers(stream[j], c)

Shows(c, v) ==
    \/ \E i \in 1..Len(stream) : Newest(c, i) /\ stream[i].numbers[c] = v
    \/ (\A i \in 1..Len(stream) : ~Covers(stream[i], c)) /\ Front(c, v)

Finals == {p \in G!Columns \X Int : Shows(p[1], p[2])}

\* At most one task waits to come again, and nobody is given another then.
InLine == Len(unacked) <= 1 /\ (inflight # G!NoTask => unacked = <<>>)
Alone  == \A a, b \in G!Actors : pc[a] # "idle" /\ pc[b] # "idle" => a = b

\* The sheet will show the database, but for what an operation is about to do.
WillShow ==
    /\ (\A a \in G!Actors : pc[a] \in {"idle", "loaded"}) =>
          \A c \in G!Columns : <<c, db[c]>> \in Finals
    /\ \A a \in G!Actors : pc[a] \in {"read", "refused"} =>
          \A c \in G!Columns \ DOMAIN numbers[a] : <<c, db[c]>> \in Finals
    /\ \A a \in G!Actors : pc[a] = "published" =>
          \A c \in G!Columns : <<c, G!Over(db, numbers[a])[c]>> \in Finals
    /\ pc["cleanup"] = "read" => \A c \in G!Columns : <<c, db[c]>> \in Finals
    /\ pc["web"] = "committed" => db = numbers["web"]
    /\ pc["bot"] = "loaded" => numbers["bot"] = db

Clear == InLine /\ Alone /\ WillShow
SheetInv  == SheetTyped /\ FormTyped /\ (cause = {} => Clear)
-----------------------------------------------------------------------------
(* Numbers and tasks.                                                      *)

LEMMA PartialFacts ==
    ASSUME NEW n \in Partial
    PROVE  /\ DOMAIN n \subseteq G!Columns /\ \A c \in DOMAIN n : n[c] \in Int
           /\ G!Target(G!Option(n)) = DOMAIN n
           /\ n \in Row <=> DOMAIN n = G!Columns
<1>1. DOMAIN n \in {G!Columns, {"free"}, {"nonconfirm"}}
  BY DEF Partial, Row
<1>2. /\ G!Columns # {"free"} /\ G!Columns # {"nonconfirm"} /\ {"free"} # {"nonconfirm"}
      /\ "free" \in G!Columns /\ "nonconfirm" \in G!Columns
  BY DEF G!Columns
<1>3. \A c \in DOMAIN n : n[c] \in Int
  BY DEF Partial, Row
<1>4. n \in Row <=> DOMAIN n = G!Columns
  BY <1>2 DEF Partial, Row
<1>5. G!Target(G!Option(n)) = DOMAIN n
  BY <1>1, <1>2 DEF G!Target, G!Option
<1>6. DOMAIN n \subseteq G!Columns
  BY <1>1, <1>2
<1> QED BY <1>3, <1>4, <1>5, <1>6

LEMMA OverTyped ==
    ASSUME NEW n \in Partial, NEW row \in Row
    PROVE  /\ G!Over(row, n) \in Row
           /\ \A c \in DOMAIN n : G!Over(row, n)[c] = n[c]
           /\ \A c \in G!Columns \ DOMAIN n : G!Over(row, n)[c] = row[c]
           /\ n \in Row => G!Over(row, n) = n
<1>1. \A c \in DOMAIN n : n[c] \in Int /\ c \in G!Columns
  BY PartialFacts
<1>2. G!Over(row, n) \in Row
  BY <1>1 DEF G!Over, Row
<1>3. n \in Row => G!Over(row, n) = n
  BY DEF G!Over, Row
<1> QED BY <1>1, <1>2, <1>3 DEF G!Over

LEMMA TaskFacts ==
    ASSUME NEW t \in Tasks
    PROVE  /\ t.numbers \in Partial /\ t # <<>>
           /\ \A row \in Row : G!Written(row, t) = G!Over(row, t.numbers)
<1>1. PICK n \in Partial : t = TaskOf(n)
  BY DEF Tasks
<1>2. t.numbers = n /\ t.option = G!Option(n) /\ DOMAIN t = {"option", "numbers"}
  BY <1>1 DEF TaskOf
<1>3. t # <<>>
  BY <1>2
<1>4. \A row \in Row : G!Written(row, t) = G!Over(row, t.numbers)
  BY <1>2, PartialFacts DEF G!Written, G!Over
<1> QED BY <1>2, <1>3, <1>4

LEMMA TaskIsGiven ==
    ASSUME NEW t \in Tasks, NEW d \in BOOLEAN
    PROVE  [task |-> t, done |-> d] # G!NoTask
<1>1. t # <<>>
  BY TaskFacts
<1> QED BY <1>1 DEF G!NoTask
-----------------------------------------------------------------------------
(* Sequences.                                                              *)

LEMMA LongSequence ==
    ASSUME NEW S, NEW q \in Seq(S), q # <<>>
    PROVE  /\ Len(q) \in Nat \ {0} /\ Head(q) = q[1] /\ q[1] \in S
           /\ Tail(q) \in Seq(S) /\ Len(Tail(q)) = Len(q) - 1
           /\ \A i \in 1..Len(Tail(q)) : Tail(q)[i] = q[i + 1]
<1>1. Len(q) \in Nat /\ Len(q) # 0
  OBVIOUS
<1>2. Tail(q) \in Seq(S) /\ Len(Tail(q)) = Len(q) - 1
  BY <1>1
<1>3. \A i \in 1..Len(Tail(q)) : Tail(q)[i] = q[i + 1]
  BY <1>1, <1>2
<1> QED BY <1>1, <1>2, <1>3

LEMMA ShortSequence ==
    ASSUME NEW S, NEW q \in Seq(S), Len(q) = 0
    PROVE  q = <<>>
OBVIOUS
-----------------------------------------------------------------------------
(* What the sheet will show, under the changes of the queue.               *)

LEMMA FinalsStay == UNCHANGED <<sheet, G!queue>> => Finals' = Finals
BY DEF Finals, Shows, Newest, Front, G!queue

\* A set of columns is given new numbers, and the others will show what they did.
Puts(n) ==
    /\ \A c \in DOMAIN n : <<c, n[c]>> \in Finals'
    /\ \A p \in Finals : p[1] \notin DOMAIN n => p \in Finals'

LEMMA StorePuts ==
    ASSUME SheetTyped, NEW n \in Partial, stream' = Append(stream, TaskOf(n)),
           UNCHANGED <<sheet, inflight, unacked>>
    PROVE  Puts(n)
<1>1. /\ stream \in Seq(Tasks) /\ TaskOf(n) \in Tasks
      /\ TaskOf(n).numbers = n
  BY DEF SheetTyped, QueueTyped, Tasks, TaskOf
<1>2. PICK m \in Nat : /\ m = Len(stream) /\ Len(stream') = m + 1
                       /\ stream'[m + 1] = TaskOf(n)
                       /\ \A i \in 1..m : stream'[i] = stream[i]
  BY <1>1
<1>3. ASSUME NEW c \in DOMAIN n PROVE <<c, n[c]>> \in Finals'
  <2>1. c \in G!Columns /\ n[c] \in Int
    BY PartialFacts
  <2>2. Newest(c, m + 1)' /\ stream'[m + 1].numbers[c] = n[c]
    BY <1>1, <1>2 DEF Newest, Covers
  <2>3. Shows(c, n[c])'
    BY <1>2, <2>2 DEF Shows
  <2> QED BY <2>1, <2>3 DEF Finals
<1>4. ASSUME NEW p \in Finals, p[1] \notin DOMAIN n PROVE p \in Finals'
  <2> DEFINE c == p[1]  v == p[2]
  <2>1. p \in G!Columns \X Int /\ Shows(c, v)
    BY DEF Finals
  <2>2. ~Covers(stream'[m + 1], c)
    BY <1>1, <1>2, <1>4 DEF Covers
  <2>3. Front(c, v)' <=> Front(c, v)
    BY DEF Front
  <2>4. CASE \E i \in 1..m : Newest(c, i) /\ stream[i].numbers[c] = v
    <3>1. PICK i \in 1..m : Newest(c, i) /\ stream[i].numbers[c] = v
      BY <2>4
    <3>2. i \in 1..Len(stream') /\ Newest(c, i)' /\ stream'[i].numbers[c] = v
      BY <1>2, <2>2, <3>1 DEF Newest
    <3> QED BY <2>1, <3>2 DEF Finals, Shows
  <2>5. CASE (\A i \in 1..m : ~Covers(stream[i], c)) /\ Front(c, v)
    <3>1. \A i \in 1..Len(stream') : ~Covers(stream'[i], c)
      BY <1>2, <2>2, <2>5 DEF Covers
    <3> QED BY <2>1, <2>3, <2>5, <3>1 DEF Finals, Shows
  <2> QED BY <1>2, <2>1, <2>4, <2>5 DEF Shows
<1> QED BY <1>3, <1>4 DEF Puts

\* Numbers that are written at once, when nothing is on its way.
LEMMA WritePuts ==
    ASSUME SheetTyped, NEW n \in Partial, ~G!Pending, sheet' = G!Written(sheet, TaskOf(n)),
           UNCHANGED G!queue
    PROVE  Puts(n)
<1>1. stream = <<>> /\ inflight = G!NoTask /\ unacked = <<>>
  BY DEF G!Pending
<1>2. TaskOf(n) \in Tasks /\ TaskOf(n).numbers = n
  BY DEF Tasks, TaskOf
<1>3. sheet' = G!Over(sheet, n)
  BY <1>2, TaskFacts DEF SheetTyped, RowsTyped
<1>4. \A c, v : Shows(c, v) <=> sheet[c] = v
  BY <1>1 DEF Shows, Newest, Front
<1>5. \A c, v : Shows(c, v)' <=> sheet'[c] = v
  BY <1>1 DEF Shows, Newest, Front, G!queue
<1>6. \A p : p \in Finals <=> p \in G!Columns \X Int /\ sheet[p[1]] = p[2]
  BY <1>4 DEF Finals
<1>7. \A p : p \in Finals' <=> p \in G!Columns \X Int /\ sheet'[p[1]] = p[2]
  BY <1>5 DEF Finals
<1>8. ASSUME NEW c \in DOMAIN n PROVE <<c, n[c]>> \in Finals'
  <2>1. c \in G!Columns /\ n[c] \in Int /\ sheet'[c] = n[c]
    BY <1>3, PartialFacts, OverTyped DEF SheetTyped, RowsTyped
  <2> QED BY <1>7, <2>1
<1>9. ASSUME NEW p \in Finals, p[1] \notin DOMAIN n PROVE p \in Finals'
  BY <1>3, <1>6, <1>7, <1>9, OverTyped DEF SheetTyped, RowsTyped
<1> QED BY <1>8, <1>9 DEF Puts

\* Once everything is still, it shows what it will show.
LEMMA StillShows ==
    ASSUME G!Still
    PROVE  \A c \in G!Columns, v \in Int : <<c, v>> \in Finals => sheet[c] = v
BY DEF G!Still, Finals, Shows, Newest, Front

(***************************************************************************)
(* The worker makes the sheet show what it was to show, in the order of    *)
(* the stream.                                                             *)
(***************************************************************************)
LEMMA DeliverKeeps ==
    ASSUME SheetTyped, InLine, G!deliver, cause' = {}
    PROVE  InLine' /\ Finals \subseteq Finals'
<1>1. inflight = G!NoTask /\ sheet' = sheet
  BY DEF G!deliver
<1>2. CASE /\ stream # <<>> /\ stream' = Tail(stream) /\ UNCHANGED unacked
           /\ inflight' = [task |-> Head(stream), done |-> FALSE]
           /\ G!Suspect("came again late", unacked # <<>>)
  <2>1. unacked = <<>>
    BY <1>2 DEF G!Suspect
  <2>2. /\ stream \in Seq(Tasks) /\ Len(stream) \in Nat \ {0} /\ Head(stream) = stream[1]
        /\ Len(stream') = Len(stream) - 1
        /\ \A i \in 1..Len(stream') : stream'[i] = stream[i + 1]
    BY <1>2, LongSequence DEF SheetTyped, QueueTyped
  <2>3. stream[1] \in Tasks
    BY <1>2, LongSequence DEF SheetTyped, QueueTyped
  <2>4. inflight' # G!NoTask /\ inflight'.task = stream[1] /\ inflight'.done = FALSE
    BY <1>2, <2>2, <2>3, TaskIsGiven
  <2>5. ASSUME NEW p \in Finals PROVE p \in Finals'
    <3> DEFINE c == p[1]  v == p[2]
    <3>1. p \in G!Columns \X Int /\ Shows(c, v)
      BY DEF Finals
    <3>2. SUFFICES Shows(c, v)'
      BY <3>1 DEF Finals
    <3>3. CASE \E i \in 2..Len(stream) : Newest(c, i) /\ stream[i].numbers[c] = v
      <4>1. PICK i \in 2..Len(stream) : Newest(c, i) /\ stream[i].numbers[c] = v
        BY <3>3
      <4>2. i - 1 \in 1..Len(stream') /\ stream'[i - 1] = stream[i]
        BY <2>2, <4>1
      <4>3. \A j \in 1..Len(stream') : j > i - 1 => ~Covers(stream'[j], c)
        BY <2>2, <4>1 DEF Newest
      <4> QED BY <4>1, <4>2, <4>3 DEF Shows, Newest
    <3>4. CASE Newest(c, 1) /\ stream[1].numbers[c] = v
      <4>1. \A j \in 1..Len(stream') : ~Covers(stream'[j], c)
        BY <2>2, <3>4 DEF Newest
      <4>2. Front(c, v)'
        BY <1>2, <2>1, <2>4, <3>4 DEF Front, Newest
      <4> QED BY <4>1, <4>2 DEF Shows
    <3>5. CASE (\A i \in 1..Len(stream) : ~Covers(stream[i], c)) /\ Front(c, v)
      <4>1. \A j \in 1..Len(stream') : ~Covers(stream'[j], c)
        BY <2>2, <3>5
      <4>2. ~Covers(stream[1], c) /\ sheet[c] = v
        BY <1>1, <2>1, <2>2, <3>5 DEF Front
      <4>3. Front(c, v)'
        BY <1>1, <1>2, <2>1, <2>4, <4>2 DEF Front
      <4> QED BY <4>1, <4>3 DEF Shows
    <3> QED BY <2>2, <3>1, <3>3, <3>4, <3>5 DEF Shows
  <2> QED BY <1>2, <2>1, <2>5 DEF InLine
<1>3. CASE /\ unacked # <<>> /\ unacked' = Tail(unacked) /\ UNCHANGED <<stream, cause>>
           /\ inflight' = [task |-> Head(unacked), done |-> FALSE]
  <2> PICK q \in Seq(Tasks) : q = unacked /\ q # <<>>
    BY <1>3 DEF SheetTyped, QueueTyped
  <2>0. /\ Len(q) \in Nat \ {0} /\ Head(q) = q[1] /\ q[1] \in Tasks
        /\ Tail(q) \in Seq(Tasks) /\ Len(Tail(q)) = Len(q) - 1
    BY LongSequence
  <2>a. Len(q) = 1
    BY <2>0 DEF InLine
  <2>b. Tail(q) = <<>>
    <3>1. PICK r \in Seq(Tasks) : r = Tail(q)
      BY <2>0
    <3>2. Len(r) = 0
      BY <2>0, <2>a, <3>1
    <3> QED BY <3>1, <3>2
  <2>1. /\ Len(unacked) = 1 /\ Head(unacked) = unacked[1]
        /\ unacked[1] \in Tasks /\ unacked' = <<>>
    BY <1>3, <2>0, <2>a, <2>b
  <2>2. inflight' # G!NoTask /\ inflight'.task = unacked[1] /\ inflight'.done = FALSE
    BY <1>3, <2>1, TaskIsGiven
  <2>3. \A v : \A c \in G!Columns : Front(c, v) => Front(c, v)'
    BY <1>1, <1>3, <2>1, <2>2 DEF Front
  <2>s. stream' = stream
    BY <1>3
  <2>4. Finals \subseteq Finals'
    BY <2>s, <2>3 DEF Finals, Shows, Newest
  <2> QED BY <2>1, <2>4 DEF InLine
<1> QED BY <1>2, <1>3 DEF G!deliver

LEMMA HandleKeeps ==
    ASSUME SheetTyped, InLine, G!handle_gspread_task
    PROVE  InLine' /\ Finals \subseteq Finals'
<1>1. /\ inflight \in [task : Tasks, done : BOOLEAN] /\ inflight # G!NoTask
      /\ UNCHANGED <<stream, unacked>>
  BY DEF SheetTyped, QueueTyped, G!handle_gspread_task, G!Given
<1>2. inflight'.task = inflight.task /\ inflight'.done = TRUE /\ inflight' # G!NoTask
  BY <1>1 DEF G!handle_gspread_task, G!Done, G!NoTask
<1>3. sheet' = G!Over(sheet, inflight.task.numbers) /\ inflight.task.numbers \in Partial
  BY <1>1, TaskFacts DEF G!handle_gspread_task, SheetTyped, RowsTyped
<1>4. \A c \in G!Columns : sheet'[c] = IF Covers(inflight.task, c)
                                     THEN inflight.task.numbers[c] ELSE sheet[c]
  BY <1>3 DEF G!Over, Covers
<1>5. \A v : \A c \in G!Columns : Front(c, v) => Front(c, v)'
  BY <1>1, <1>2, <1>4 DEF Front, InLine
<1>6. Finals \subseteq Finals'
  BY <1>1, <1>5 DEF Finals, Shows, Newest
<1> QED BY <1>1, <1>2, <1>6 DEF InLine

LEMMA AckKeeps ==
    ASSUME SheetTyped, InLine, G!ack
    PROVE  InLine' /\ Finals \subseteq Finals'
<1>1. \A c, v : Front(c, v) => Front(c, v)'
  BY DEF Front, InLine, G!ack
<1>2. Finals \subseteq Finals'
  BY <1>1 DEF Finals, Shows, Newest, G!ack
<1> QED BY <1>2 DEF InLine, G!ack

LEMMA CrashKeeps ==
    ASSUME SheetTyped, InLine, G!worker_crashes
    PROVE  InLine' /\ Finals \subseteq Finals'
<1>1. /\ inflight # G!NoTask /\ inflight.task \in Tasks /\ unacked = <<>>
      /\ inflight' = G!NoTask /\ UNCHANGED <<stream, sheet>>
  BY DEF SheetTyped, QueueTyped, InLine, G!worker_crashes, G!actors
<1>2. unacked' = <<inflight.task>> /\ Len(unacked') = 1 /\ unacked'[1] = inflight.task
      /\ unacked' # <<>>
  BY <1>1 DEF G!worker_crashes
<1>3. \A c, v : Front(c, v) => Front(c, v)'
  BY <1>1, <1>2 DEF Front
<1>4. Finals \subseteq Finals'
  BY <1>1, <1>3 DEF Finals, Shows, Newest
<1> QED BY <1>1, <1>2, <1>4 DEF InLine
-----------------------------------------------------------------------------
(* Types.                                                                  *)

\* The numbers an operation computes from the row it read.
LEMMA ReadNumbers ==
    ASSUME NEW row \in Row, NEW operation \in DOMAIN G!Changes,
           NEW by \in G!Changes[operation], NEW n,
           n = [c \in DOMAIN by |-> row[c] + by[c]]
    PROVE  /\ by \in Partial /\ n \in Partial
           /\ operation \in G!Does("web") => n \in Row
<1>1. by \in Partial
  <2>1. \A k \in -1..1 : [free |-> k] \in Partial
    BY DEF Partial, Row, G!Columns
  <2>2. CASE operation = "update_free_seat"
    BY <2>1, <2>2 DEF G!Changes
  <2>3. CASE operation # "update_free_seat"
    BY <2>3 DEF G!Changes, Partial, Row, G!Columns
  <2> QED BY <2>2, <2>3
<1>2. DOMAIN n = DOMAIN by
  OBVIOUS
<1>3. DOMAIN n \in {G!Columns, {"free"}, {"nonconfirm"}}
  BY <1>1, <1>2 DEF Partial, Row
<1>4. \A c \in DOMAIN n : n[c] \in Int
  BY <1>1, <1>2, PartialFacts DEF Row
<1>5. n = [c \in DOMAIN n |-> n[c]]
  BY <1>2
<1>6. n \in Partial
  BY <1>3, <1>4, <1>5 DEF Partial, Row
<1>7. ASSUME operation \in G!Does("web") PROVE n \in Row
  <2>1. operation = "decrease_free_and_increase_nonconfirm_seat"
    BY <1>7 DEF G!Does
  <2>2. DOMAIN by = G!Columns
    BY <2>1 DEF G!Changes, G!Columns
  <2> QED BY <1>2, <1>6, <2>2, PartialFacts
<1> QED BY <1>1, <1>6, <1>7

LEMMA StoreTyped ==
    ASSUME SheetTyped, NEW n \in Partial, G!Store(n),
           UNCHANGED <<inflight, unacked>>
    PROVE  QueueTyped'
<1>1. TaskOf(n) \in Tasks /\ stream \in Seq(Tasks)
  BY DEF Tasks, SheetTyped, QueueTyped
<1>2. stream' = Append(IF Len(stream) = MaxMsgs THEN Tail(stream) ELSE stream, TaskOf(n))
  BY DEF G!Store, TaskOf
<1>3. ASSUME Len(stream) = MaxMsgs PROVE Tail(stream) \in Seq(Tasks)
  BY <1>1, <1>3, PartsAssumption
<1>4. stream' \in Seq(Tasks)
  BY <1>1, <1>2, <1>3
<1> QED BY <1>4 DEF SheetTyped, QueueTyped

\* An actor goes on with the numbers it has, or is through.
LEMMA MoveTyped ==
    ASSUME SheetTyped, NEW a \in G!Actors, NEW from, NEW to, G!Step(a, from, to), from # "idle",
           to \in Steps \ {"loaded"}, to = "committed" => a = "web",
           a = "web" => to \in {"idle", "read", "committed"}, UNCHANGED numbers
    PROVE  ActorsTyped'
<1> USE DEF SheetTyped, ActorsTyped, G!Step, G!Actors, Steps
<1>1. pc' \in [G!Actors -> Steps] /\ pc'[a] = to /\ \A b \in G!Actors \ {a} : pc'[b] = pc[b]
  OBVIOUS
<1>2. numbers[a] \in Partial
  OBVIOUS
<1>3. \A b \in G!Actors : pc'[b] # "idle" => numbers[b] \in Partial
  BY <1>1, <1>2
<1>4. \A b \in G!Actors : /\ pc'[b] = "loaded" => pc[b] = "loaded"
                          /\ pc'[b] = "committed" => b = "web"
                          /\ pc'[b] # "idle" => pc[b] # "idle"
  BY <1>1
<1> QED BY <1>1, <1>3, <1>4

LEMMA RowTyped ==
    ASSUME SheetTyped, NEW a \in G!Actors, pc[a] # "idle"
    PROVE  G!Over(db, numbers[a]) \in Row
BY OverTyped DEF SheetTyped, RowsTyped, ActorsTyped

LEMMA WrittenTyped ==
    ASSUME SheetTyped, NEW t \in Tasks
    PROVE  G!Written(sheet, t) \in Row
BY TaskFacts, OverTyped DEF SheetTyped, RowsTyped

LEMMA FormStays ==
    ASSUME SheetTyped, FormTyped, [G!Next]_(G!vars)
    PROVE  FormTyped'
<1>1. form' = form \/ form' = <<>> \/ form' = db
  BY DEF G!Next, G!vars, G!actors, G!read, G!_publish_write_data_reserve, G!publish_fails,
         G!cleanup_rolls_back, G!write_data_reserve, G!write_data_reserve_fails,
         G!update_schedule_event, G!update_schedule_event_fails, G!post_booking_form,
         G!schedule_update_start, G!handle_confirm_save, G!deliver, G!handle_gspread_task,
         G!handle_gspread_task_fails, G!ack, G!worker_crashes, G!discard,
         G!load_schedule_events, G!update_schedule_events_from_googlesheets,
         G!update_schedule_event_data_fails
<1> QED BY <1>1 DEF FormTyped, SheetTyped, RowsTyped

LEMMA TypedStays ==
    ASSUME SheetTyped, FormTyped, [G!Next]_(G!vars)
    PROVE  SheetTyped'
<1>1. ASSUME NEW a \in G!Actors, NEW operation \in DOMAIN G!Changes,
             NEW by \in G!Changes[operation], G!read(a, operation, by)
      PROVE  SheetTyped'
  <2> PICK n : n = [c \in DOMAIN by |-> db[c] + by[c]]
    OBVIOUS
  <2>1. /\ n \in Partial
        /\ operation \in G!Does("web") => n \in Row
    BY ReadNumbers DEF SheetTyped, RowsTyped
  <2>2. /\ numbers' = [numbers EXCEPT ![a] = n] /\ operation \in G!Does(a)
        /\ pc[a] = "idle" /\ pc' = [pc EXCEPT ![a] = "read"]
        /\ UNCHANGED <<db, sheet, G!queue>>
    BY <1>1 DEF G!read, G!Step
  <2>3. /\ pc' \in [G!Actors -> Steps] /\ numbers' \in [G!Actors -> Partial \cup {<<>>}]
        /\ pc'[a] = "read" /\ numbers'[a] = n
        /\ \A b \in G!Actors \ {a} : pc'[b] = pc[b] /\ numbers'[b] = numbers[b]
    BY <2>1, <2>2 DEF SheetTyped, ActorsTyped, Steps
  <2>4. \A b \in G!Actors : pc'[b] # "idle" => numbers'[b] \in Partial
    BY <2>1, <2>3 DEF SheetTyped, ActorsTyped
  <2>5. a = "web" => n \in Row
    BY <2>1, <2>2
  <2>6. "web" \in G!Actors /\ "bot" \in G!Actors /\ "cleanup" \in G!Actors
    BY DEF G!Actors
  <2>7. ActorsTyped'
    BY <2>3, <2>4, <2>5, <2>6 DEF SheetTyped, ActorsTyped
  <2> QED BY <2>2, <2>7 DEF SheetTyped, RowsTyped, QueueTyped, G!queue
<1>2. ASSUME NEW a \in G!Actors, G!_publish_write_data_reserve(a) PROVE SheetTyped'
  <2>1. ActorsTyped'
    BY <1>2, MoveTyped DEF G!_publish_write_data_reserve, Steps
  <2>2. numbers[a] \in Partial
    BY <1>2 DEF G!_publish_write_data_reserve, G!Step, SheetTyped, ActorsTyped
  <2>3. QueueTyped'
    BY <1>2, <2>2, StoreTyped DEF G!_publish_write_data_reserve
  <2> QED BY <1>2, <2>1, <2>3 DEF G!_publish_write_data_reserve, SheetTyped, RowsTyped
<1>3. ASSUME NEW a \in G!Actors, G!publish_fails(a) PROVE SheetTyped'
  <2>1. ActorsTyped'
    BY <1>3, MoveTyped DEF G!publish_fails, Steps
  <2> QED BY <1>3, <2>1 DEF G!publish_fails, SheetTyped, RowsTyped, QueueTyped, G!queue
<1>4. ASSUME NEW a \in G!Actors, G!write_data_reserve(a) PROVE SheetTyped'
  <2>0. a # "web"
    BY <1>4 DEF G!write_data_reserve, G!Step, SheetTyped, ActorsTyped
  <2>1. ActorsTyped'
    BY <1>4, <2>0, MoveTyped DEF G!write_data_reserve, Steps
  <2>2. TaskOf(numbers[a]) \in Tasks /\ sheet' = G!Written(sheet, TaskOf(numbers[a]))
    BY <1>4 DEF G!write_data_reserve, G!Step, SheetTyped, ActorsTyped, Tasks, TaskOf
  <2>3. sheet' \in Row
    BY <2>2, WrittenTyped
  <2> QED BY <1>4, <2>1, <2>3 DEF G!write_data_reserve, SheetTyped, RowsTyped, QueueTyped, G!queue
<1>5. ASSUME NEW a \in G!Actors, G!write_data_reserve_fails(a) PROVE SheetTyped'
  <2>0. a # "web"
    BY <1>5 DEF G!write_data_reserve_fails, G!Step, SheetTyped, ActorsTyped
  <2>1. ActorsTyped'
    BY <1>5, <2>0, MoveTyped DEF G!write_data_reserve_fails, Steps
  <2> QED BY <1>5, <2>1 DEF G!write_data_reserve_fails, SheetTyped, RowsTyped, QueueTyped, G!queue
<1>6. ASSUME NEW a \in G!Actors, G!update_schedule_event(a) PROVE SheetTyped'
  <2>1. ActorsTyped'
    BY <1>6, MoveTyped DEF G!update_schedule_event, Steps
  <2>2. db' \in Row
    BY <1>6, RowTyped DEF G!update_schedule_event, G!Step
  <2> QED BY <1>6, <2>1, <2>2 DEF G!update_schedule_event, SheetTyped, RowsTyped, QueueTyped, G!queue
<1>7. ASSUME NEW a \in G!Actors, G!update_schedule_event_fails(a) PROVE SheetTyped'
  <2>1. ActorsTyped'
    BY <1>7, MoveTyped DEF G!update_schedule_event_fails, Steps
  <2> QED BY <1>7, <2>1 DEF G!update_schedule_event_fails, SheetTyped, RowsTyped, QueueTyped, G!queue
<1>8. ASSUME G!post_booking_form PROVE SheetTyped'
  <2>0. "web" \in G!Actors
    BY DEF G!Actors
  <2>1. CASE /\ G!Step("web", "read", "committed") /\ db' = G!Over(db, numbers["web"])
             /\ UNCHANGED <<sheet, numbers, G!queue>>
    <3>1. ActorsTyped'
      BY <2>0, <2>1, MoveTyped DEF Steps
    <3>2. db' \in Row
      BY <2>0, <2>1, RowTyped DEF G!Step
    <3> QED BY <2>1, <3>1, <3>2 DEF SheetTyped, RowsTyped, QueueTyped, G!queue
  <2>2. CASE /\ G!Step("web", "committed", "idle") /\ G!Store(numbers["web"])
             /\ UNCHANGED <<db, sheet, numbers, inflight, unacked>>
    <3>1. ActorsTyped'
      BY <2>0, <2>2, MoveTyped DEF Steps
    <3>2. numbers["web"] \in Partial
      BY <2>0, <2>2 DEF G!Step, SheetTyped, ActorsTyped
    <3>3. QueueTyped'
      BY <2>2, <3>2, StoreTyped
    <3> QED BY <2>2, <3>1, <3>3 DEF SheetTyped, RowsTyped
  <2>3. CASE G!Step("web", "committed", "idle") /\ UNCHANGED <<db, sheet, numbers, G!queue>>
    <3>1. ActorsTyped'
      BY <2>0, <2>3, MoveTyped DEF Steps
    <3> QED BY <2>3, <3>1 DEF SheetTyped, RowsTyped, QueueTyped, G!queue
  <2> QED BY <1>8, <2>1, <2>2, <2>3 DEF G!post_booking_form
<1>9. ASSUME G!deliver PROVE SheetTyped'
  <2>0. UNCHANGED <<db, sheet, pc, numbers>>
    BY <1>9 DEF G!deliver, G!actors
  <2>1. CASE /\ stream # <<>> /\ stream' = Tail(stream) /\ UNCHANGED unacked
             /\ inflight' = [task |-> Head(stream), done |-> FALSE]
    <3>1. Head(stream) \in Tasks /\ Tail(stream) \in Seq(Tasks)
      BY <2>1, LongSequence DEF SheetTyped, QueueTyped
    <3>2. QueueTyped'
      BY <2>1, <3>1 DEF SheetTyped, QueueTyped
    <3> QED BY <2>0, <3>2 DEF SheetTyped, RowsTyped, ActorsTyped
  <2>2. CASE /\ unacked # <<>> /\ unacked' = Tail(unacked) /\ UNCHANGED stream
             /\ inflight' = [task |-> Head(unacked), done |-> FALSE]
    <3>1. Head(unacked) \in Tasks /\ Tail(unacked) \in Seq(Tasks)
      BY <2>2, LongSequence DEF SheetTyped, QueueTyped
    <3>2. QueueTyped'
      BY <2>2, <3>1 DEF SheetTyped, QueueTyped
    <3> QED BY <2>0, <3>2 DEF SheetTyped, RowsTyped, ActorsTyped
  <2> QED BY <1>9, <2>1, <2>2 DEF G!deliver
<1>10. ASSUME G!Given, G!Done, UNCHANGED <<stream, unacked>> PROVE QueueTyped' /\ inflight.task \in Tasks
  BY <1>10 DEF G!Given, G!Done, SheetTyped, QueueTyped
<1>11. ASSUME G!handle_gspread_task PROVE SheetTyped'
  <2>1. sheet' \in Row
    BY <1>10, <1>11, WrittenTyped DEF G!handle_gspread_task
  <2> QED BY <1>10, <1>11, <2>1
          DEF G!handle_gspread_task, G!actors, SheetTyped, RowsTyped, ActorsTyped
<1>12. ASSUME G!handle_gspread_task_fails PROVE SheetTyped'
  BY <1>10, <1>12 DEF G!handle_gspread_task_fails, G!actors, SheetTyped, RowsTyped, ActorsTyped
<1>13. ASSUME G!ack PROVE SheetTyped'
  BY <1>13 DEF G!ack, G!actors, SheetTyped, RowsTyped, ActorsTyped, QueueTyped
<1>14. ASSUME G!worker_crashes PROVE SheetTyped'
  <2>1. inflight.task \in Tasks /\ unacked \in Seq(Tasks)
    BY <1>14 DEF G!worker_crashes, SheetTyped, QueueTyped
  <2>2. Append(unacked, inflight.task) \in Seq(Tasks)
    BY <2>1
  <2>3. QueueTyped'
    BY <1>14, <2>2 DEF G!worker_crashes, SheetTyped, QueueTyped
  <2> QED BY <1>14, <2>3 DEF G!worker_crashes, G!actors, SheetTyped, RowsTyped, ActorsTyped
<1>15. ASSUME G!load_schedule_events PROVE SheetTyped'
  <2>1. /\ numbers' = [numbers EXCEPT !["bot"] = sheet] /\ UNCHANGED <<db, sheet, G!queue>>
        /\ pc' = [pc EXCEPT !["bot"] = "loaded"] /\ sheet \in Row
    BY <1>15 DEF G!load_schedule_events, G!to_dto, G!Step, SheetTyped, RowsTyped
  <2>2. "bot" \in G!Actors /\ "web" \in G!Actors /\ Row \subseteq Partial
    BY DEF G!Actors, Partial
  <2>3. /\ pc' \in [G!Actors -> Steps] /\ numbers' \in [G!Actors -> Partial \cup {<<>>}]
        /\ numbers'["bot"] \in Row
        /\ \A b \in G!Actors \ {"bot"} : pc'[b] = pc[b] /\ numbers'[b] = numbers[b]
    BY <2>1, <2>2 DEF SheetTyped, ActorsTyped, Steps
  <2>4. ActorsTyped'
    BY <2>1, <2>2, <2>3 DEF SheetTyped, ActorsTyped
  <2> QED BY <2>1, <2>4 DEF SheetTyped, RowsTyped, QueueTyped, G!queue
<1>16. ASSUME G!update_schedule_events_from_googlesheets PROVE SheetTyped'
  <2>1. "bot" \in G!Actors
    BY DEF G!Actors
  <2>2. ActorsTyped'
    BY <1>16, <2>1, MoveTyped DEF G!update_schedule_events_from_googlesheets, Steps
  <2>3. db' \in Row
    BY <1>16 DEF G!update_schedule_events_from_googlesheets, G!Step, SheetTyped, ActorsTyped
  <2> QED BY <1>16, <2>2, <2>3
          DEF G!update_schedule_events_from_googlesheets, SheetTyped, RowsTyped, QueueTyped, G!queue
<1>17. ASSUME G!update_schedule_event_data_fails PROVE SheetTyped'
  <2>1. "bot" \in G!Actors
    BY DEF G!Actors
  <2>2. ActorsTyped'
    BY <1>17, <2>1, MoveTyped DEF G!update_schedule_event_data_fails, Steps
  <2> QED BY <1>17, <2>2
          DEF G!update_schedule_event_data_fails, SheetTyped, RowsTyped, QueueTyped, G!queue
<1>18. ASSUME UNCHANGED G!vars PROVE SheetTyped'
  BY <1>18 DEF G!vars, SheetTyped, RowsTyped, QueueTyped, ActorsTyped
<1>19. ASSUME G!cleanup_rolls_back PROVE SheetTyped'
  <2>1. "cleanup" \in G!Actors
    BY DEF G!Actors
  <2>2. ActorsTyped'
    BY <1>19, <2>1, MoveTyped DEF G!cleanup_rolls_back, Steps
  <2> QED BY <1>19, <2>2 DEF G!cleanup_rolls_back, SheetTyped, RowsTyped, QueueTyped, G!queue
<1>20. ASSUME G!schedule_update_start PROVE SheetTyped'
  BY <1>20 DEF G!schedule_update_start, G!queue, SheetTyped, RowsTyped, QueueTyped, ActorsTyped
<1>21. ASSUME G!handle_confirm_save PROVE SheetTyped'
  <2>1. db' \in Row
    BY <1>21 DEF G!handle_confirm_save, FormTyped
  <2> QED BY <1>21, <2>1
          DEF G!handle_confirm_save, G!queue, SheetTyped, RowsTyped, QueueTyped, ActorsTyped
<1>22. ASSUME G!discard PROVE SheetTyped'
  <2>1. stream # <<>> => Tail(stream) \in Seq(Tasks)
    BY LongSequence DEF SheetTyped, QueueTyped
  <2>2. unacked # <<>> => Tail(unacked) \in Seq(Tasks)
    BY LongSequence DEF SheetTyped, QueueTyped
  <2>3. QueueTyped'
    BY <1>22, <2>1, <2>2 DEF G!discard, SheetTyped, QueueTyped
  <2> QED BY <1>22, <2>3 DEF G!discard, G!actors, SheetTyped, RowsTyped, ActorsTyped
<1> QED BY <1>1, <1>2, <1>3, <1>4, <1>5, <1>6, <1>7, <1>8, <1>9, <1>11, <1>12, <1>13,
           <1>14, <1>15, <1>16, <1>17, <1>18, <1>19, <1>20, <1>21, <1>22 DEF G!Next
-----------------------------------------------------------------------------
(* Nothing of what is named happened: the sheet will show the database.    *)

LEMMA Only ==
    ASSUME Alone, NEW a \in G!Actors, pc[a] # "idle"
    PROVE  \A b \in G!Actors \ {a} : pc[b] = "idle"
BY DEF Alone

\* The worker's steps leave the database and the operations alone.
LEMMA WorkerKeeps ==
    ASSUME Clear, InLine', Finals \subseteq Finals', UNCHANGED <<db, pc, numbers>>
    PROVE  Clear'
<1>1. Alone'
  BY DEF Clear, Alone
<1>2. WillShow'
  BY DEF Clear, WillShow
<1> QED BY <1>1, <1>2 DEF Clear

\* The one that goes on stays the only one.
LEMMA OneGoesOn ==
    ASSUME SheetTyped, Alone, NEW a \in G!Actors, NEW from, NEW to, G!Step(a, from, to),
           \/ from # "idle"
           \/ G!Busy = {}
    PROVE  /\ Alone' /\ pc'[a] = to
           /\ \A b \in G!Actors \ {a} : pc[b] = "idle" /\ pc'[b] = "idle"
<1>1. \A b \in G!Actors \ {a} : pc[b] = "idle"
  BY DEF Alone, G!Step, G!Busy
<1>2. pc'[a] = to /\ \A b \in G!Actors \ {a} : pc'[b] = pc[b]
  BY DEF G!Step, SheetTyped, ActorsTyped
<1> QED BY <1>1, <1>2 DEF Alone

LEMMA QueueStays ==
    ASSUME InLine, UNCHANGED G!queue
    PROVE  InLine'
BY DEF InLine, G!queue

\* A row has every column.
LEMMA WholeRow ==
    ASSUME NEW r \in Row, NEW s \in Row, \A c \in G!Columns : r[c] = s[c]
    PROVE  r = s
BY DEF Row

LEMMA ReadKeeps ==
    ASSUME SheetInv, NEW a \in G!Actors, NEW operation \in DOMAIN G!Changes,
           NEW by \in G!Changes[operation], G!read(a, operation, by), cause' = {}
    PROVE  Clear'
<1> PICK n : n = [c \in DOMAIN by |-> db[c] + by[c]]
  OBVIOUS
<1>1. /\ G!Step(a, "idle", "read") /\ numbers' = [numbers EXCEPT ![a] = n]
      /\ UNCHANGED <<db, sheet, G!queue>> /\ SheetTyped
      /\ cause' = IF G!Still /\ DOMAIN by = G!Columns /\ a # "cleanup" THEN {}
                  ELSE IF G!Busy # {} THEN cause \cup {"overlapped"} ELSE cause
  BY DEF G!read, SheetInv
<1>2. G!Busy = {}
  BY <1>1 DEF G!Still
<1>3. Alone
  BY <1>2 DEF Alone, G!Busy
<1>4. /\ Alone' /\ pc'[a] = "read" /\ \A b \in G!Actors \ {a} : pc'[b] = "idle"
      /\ \A b \in G!Actors : pc[b] = "idle"
  BY <1>1, <1>2, <1>3, OneGoesOn DEF G!Busy
<1>5. numbers'[a] = n /\ DOMAIN n = DOMAIN by
  BY <1>1 DEF SheetTyped, ActorsTyped
<1>6. Finals' = Finals
  BY <1>1, FinalsStay
<1>7. "web" \in G!Actors /\ "bot" \in G!Actors /\ "cleanup" \in G!Actors
  BY DEF G!Actors
<1>8. \A b \in G!Actors : pc'[b] \in {"read", "idle"} /\ (pc'[b] = "read" => b = a)
  BY <1>4
<1>9. CASE G!Still /\ DOMAIN by = G!Columns /\ a # "cleanup"
  <2>1. InLine'
    BY <1>1, <1>9 DEF G!Still, InLine, G!queue
  <2>2. WillShow'
    BY <1>4, <1>5, <1>7, <1>8, <1>9 DEF WillShow
  <2> QED BY <1>4, <2>1, <2>2 DEF Clear
<1>10. CASE Clear
  <2>1. \A c \in G!Columns : <<c, db[c]>> \in Finals
    BY <1>4, <1>10 DEF Clear, WillShow
  <2>2. WillShow'
    BY <1>1, <1>4, <1>6, <1>7, <1>8, <2>1 DEF WillShow
  <2> QED BY <1>1, <1>4, <1>10, <2>2, QueueStays DEF Clear
<1> QED BY <1>1, <1>2, <1>9, <1>10 DEF SheetInv

\* Numbers that went out, by the stream or at once.
LEMMA PutKeeps ==
    ASSUME SheetTyped, Clear, InLine', NEW a \in G!Actors, NEW from \in {"read", "refused"},
           G!Step(a, from, "published"), Puts(numbers[a]), UNCHANGED <<db, numbers>>
    PROVE  Clear'
<1>1. /\ Alone' /\ pc[a] = from /\ pc'[a] = "published"
      /\ \A b \in G!Actors \ {a} : pc'[b] = "idle"
  BY OneGoesOn DEF Clear, G!Step
<1>2. numbers[a] \in Partial /\ db \in Row
  BY <1>1 DEF SheetTyped, RowsTyped, ActorsTyped
<1>3. ASSUME NEW c \in G!Columns PROVE <<c, G!Over(db, numbers[a])[c]>> \in Finals'
  <2>1. CASE c \in DOMAIN numbers[a]
    BY <1>2, <2>1, OverTyped DEF Puts
  <2>2. CASE c \notin DOMAIN numbers[a]
    <3>1. <<c, db[c]>> \in Finals /\ G!Over(db, numbers[a])[c] = db[c]
      BY <1>1, <1>2, <2>2, OverTyped DEF Clear, WillShow
    <3> QED BY <2>2, <3>1 DEF Puts
  <2> QED BY <2>1, <2>2
<1>4. "web" \in G!Actors /\ "bot" \in G!Actors /\ "cleanup" \in G!Actors
  BY DEF G!Actors
<1>5. \A b \in G!Actors : pc'[b] \in {"published", "idle"} /\ (pc'[b] = "published" => b = a)
  BY <1>1
<1>6. WillShow'
  BY <1>1, <1>3, <1>4, <1>5 DEF WillShow
<1> QED BY <1>1, <1>6 DEF Clear

\* When all are through, it is enough that the sheet will show the database.
LEMMA ThroughKeeps ==
    ASSUME SheetTyped, Clear, InLine', NEW a \in G!Actors, NEW from, G!Step(a, from, "idle"),
           from # "idle", \A c \in G!Columns : <<c, db'[c]>> \in Finals'
    PROVE  Clear'
<1>1. Alone' /\ \A b \in G!Actors : pc'[b] = "idle"
  BY OneGoesOn DEF Clear
<1>2. "web" \in G!Actors /\ "bot" \in G!Actors /\ "cleanup" \in G!Actors
  BY DEF G!Actors
<1>3. WillShow'
  BY <1>1, <1>2 DEF WillShow
<1> QED BY <1>1, <1>3 DEF Clear

LEMMA ClearStays ==
    ASSUME SheetInv, [G!Next]_(G!vars), cause' = {}
    PROVE  Clear'
<1> USE DEF G!Suspect
<1>a. SheetTyped /\ (cause = {} => Clear)
  BY DEF SheetInv
<1>b. "web" \in G!Actors /\ "bot" \in G!Actors /\ "cleanup" \in G!Actors
  BY DEF G!Actors
<1>1. ASSUME NEW a \in G!Actors, NEW operation \in DOMAIN G!Changes,
             NEW by \in G!Changes[operation], G!read(a, operation, by)
      PROVE  Clear'
  BY <1>1, ReadKeeps
<1>2. ASSUME NEW a \in G!Actors, G!_publish_write_data_reserve(a) PROVE Clear'
  <2>1. numbers[a] \in Partial
    BY <1>a, <1>2 DEF G!_publish_write_data_reserve, G!Step, SheetTyped, ActorsTyped
  <2>2. /\ G!Step(a, "read", "published") /\ UNCHANGED <<db, sheet, numbers, inflight, unacked>>
        /\ stream' = Append(stream, TaskOf(numbers[a])) /\ cause = {}
    BY <1>2 DEF G!_publish_write_data_reserve, G!Store, TaskOf
  <2>3. Clear /\ InLine'
    BY <1>a, <2>2 DEF Clear, InLine
  <2>4. Puts(numbers[a])
    BY <1>a, <2>1, <2>2, StorePuts
  <2> QED BY <1>a, <2>2, <2>3, <2>4, PutKeeps
<1>3. ASSUME NEW a \in G!Actors, G!publish_fails(a) PROVE Clear'
  <2>1. /\ G!Step(a, "read", "refused") /\ UNCHANGED <<db, sheet, numbers, G!queue>> /\ Clear
    BY <1>a, <1>3 DEF G!publish_fails
  <2>2. /\ Alone' /\ pc[a] = "read" /\ pc'[a] = "refused"
        /\ \A b \in G!Actors \ {a} : pc'[b] = "idle"
    BY <1>a, <2>1, OneGoesOn DEF Clear, G!Step
  <2>3. Finals' = Finals /\ InLine'
    BY <2>1, FinalsStay, QueueStays DEF Clear
  <2>4. \A b \in G!Actors : pc'[b] \in {"refused", "idle"} /\ (pc'[b] = "refused" => b = a)
    BY <2>2
  <2>5. WillShow'
    BY <1>b, <2>1, <2>2, <2>3, <2>4 DEF Clear, WillShow
  <2> QED BY <2>2, <2>3, <2>5 DEF Clear
<1>4. ASSUME NEW a \in G!Actors, G!write_data_reserve(a) PROVE Clear'
  <2>1. numbers[a] \in Partial
    BY <1>a, <1>4 DEF G!write_data_reserve, G!Step, SheetTyped, ActorsTyped
  <2>2. /\ G!Step(a, "refused", "published") /\ UNCHANGED <<db, numbers, G!queue>>
        /\ sheet' = G!Written(sheet, TaskOf(numbers[a])) /\ cause = {} /\ ~G!Pending
    BY <1>4 DEF G!write_data_reserve, TaskOf
  <2>3. Clear /\ InLine'
    BY <1>a, <2>2, QueueStays DEF Clear
  <2>4. Puts(numbers[a])
    BY <1>a, <2>1, <2>2, WritePuts
  <2> QED BY <1>a, <2>2, <2>3, <2>4, PutKeeps
<1>5. ASSUME NEW a \in G!Actors, G!write_data_reserve_fails(a) PROVE Clear'
  BY <1>5 DEF G!write_data_reserve_fails
<1>6. ASSUME NEW a \in G!Actors, G!update_schedule_event(a) PROVE Clear'
  <2>1. /\ G!Step(a, "published", "idle") /\ UNCHANGED <<sheet, numbers, G!queue>>
        /\ db' = G!Over(db, numbers[a]) /\ Clear
    BY <1>a, <1>6 DEF G!update_schedule_event
  <2>2. \A c \in G!Columns : <<c, db'[c]>> \in Finals
    BY <2>1 DEF G!Step, Clear, WillShow
  <2>3. Finals' = Finals /\ InLine'
    BY <2>1, FinalsStay, QueueStays DEF Clear
  <2> QED BY <1>a, <2>1, <2>2, <2>3, ThroughKeeps
<1>7. ASSUME NEW a \in G!Actors, G!update_schedule_event_fails(a) PROVE Clear'
  BY <1>7 DEF G!update_schedule_event_fails
<1>8. ASSUME G!post_booking_form PROVE Clear'
  <2>1. CASE /\ G!Step("web", "read", "committed") /\ db' = G!Over(db, numbers["web"])
             /\ UNCHANGED <<sheet, numbers, G!queue, cause>>
    <3>1. Clear /\ Finals' = Finals /\ InLine'
      BY <1>a, <2>1, FinalsStay, QueueStays DEF Clear
    <3>2. /\ Alone' /\ pc'["web"] = "committed" /\ pc["web"] = "read"
          /\ \A b \in G!Actors \ {"web"} : pc'[b] = "idle"
      BY <1>a, <1>b, <2>1, <3>1, OneGoesOn DEF Clear, G!Step
    <3>3. numbers["web"] \in Row /\ db \in Row
      BY <1>a, <3>2 DEF SheetTyped, RowsTyped, ActorsTyped
    <3>4. db' = numbers["web"]
      BY <2>1, <3>3, OverTyped DEF Partial
    <3>5. \A b \in G!Actors : pc'[b] \in {"committed", "idle"}
      BY <3>2
    <3>6. WillShow'
      BY <1>b, <2>1, <3>2, <3>4, <3>5 DEF WillShow
    <3> QED BY <3>1, <3>2, <3>6 DEF Clear
  <2>2. CASE /\ G!Step("web", "committed", "idle") /\ G!Store(numbers["web"])
             /\ UNCHANGED <<db, sheet, numbers, inflight, unacked>>
    <3>1. numbers["web"] \in Row /\ numbers["web"] \in Partial
      BY <1>a, <2>2 DEF G!Step, SheetTyped, ActorsTyped, Partial
    <3>2. stream' = Append(stream, TaskOf(numbers["web"])) /\ cause = {}
      BY <2>2 DEF G!Store, TaskOf
    <3>3. Clear /\ InLine'
      BY <1>a, <2>2, <3>2 DEF Clear, InLine
    <3>4. Puts(numbers["web"])
      BY <1>a, <2>2, <3>1, <3>2, StorePuts
    <3>5. db = numbers["web"] /\ DOMAIN numbers["web"] = G!Columns
      BY <2>2, <3>1, <3>3, PartialFacts DEF G!Step, Clear, WillShow
    <3>6. \A c \in G!Columns : <<c, db'[c]>> \in Finals'
      BY <2>2, <3>4, <3>5 DEF Puts
    <3> QED BY <1>a, <1>b, <2>2, <3>3, <3>6, ThroughKeeps
  <2>3. CASE cause' = cause \cup {"not published"}
    BY <2>3
  <2> QED BY <1>8, <2>1, <2>2, <2>3 DEF G!post_booking_form
<1>9. ASSUME G!deliver PROVE Clear'
  <2>1. cause = {} /\ UNCHANGED <<db, pc, numbers>>
    BY <1>9 DEF G!deliver, G!actors
  <2> QED BY <1>a, <1>9, <2>1, DeliverKeeps, WorkerKeeps DEF Clear
<1>10. ASSUME G!handle_gspread_task PROVE Clear'
  <2>1. cause = {} /\ UNCHANGED <<db, pc, numbers>>
    BY <1>10 DEF G!handle_gspread_task, G!actors
  <2> QED BY <1>a, <1>10, <2>1, HandleKeeps, WorkerKeeps DEF Clear
<1>11. ASSUME G!handle_gspread_task_fails PROVE Clear'
  BY <1>11 DEF G!handle_gspread_task_fails
<1>12. ASSUME G!ack PROVE Clear'
  <2>1. cause = {} /\ UNCHANGED <<db, pc, numbers>>
    BY <1>12 DEF G!ack, G!actors
  <2> QED BY <1>a, <1>12, <2>1, AckKeeps, WorkerKeeps DEF Clear
<1>13. ASSUME G!worker_crashes PROVE Clear'
  <2>1. cause = {} /\ UNCHANGED <<db, pc, numbers>>
    BY <1>13 DEF G!worker_crashes, G!actors
  <2> QED BY <1>a, <1>13, <2>1, CrashKeeps, WorkerKeeps DEF Clear
<1>14. ASSUME G!load_schedule_events PROVE Clear'
  <2>1. /\ G!Step("bot", "idle", "loaded") /\ numbers' = [numbers EXCEPT !["bot"] = sheet]
        /\ UNCHANGED <<db, sheet, G!queue>> /\ G!Still /\ Clear
    BY <1>a, <1>14 DEF G!load_schedule_events, G!to_dto
  <2>2. /\ Alone' /\ pc'["bot"] = "loaded" /\ \A b \in G!Actors \ {"bot"} : pc'[b] = "idle"
        /\ \A b \in G!Actors : pc[b] = "idle"
    BY <1>a, <1>b, <2>1, OneGoesOn DEF G!Still, Clear, G!Busy
  <2>3. \A c \in G!Columns : <<c, db[c]>> \in Finals
    BY <2>1, <2>2 DEF Clear, WillShow
  <2>4. Finals' = Finals /\ InLine'
    BY <2>1, FinalsStay, QueueStays DEF Clear
  <2>5. db \in Row /\ sheet \in Row /\ \A c \in G!Columns : db[c] \in Int
    BY <1>a DEF SheetTyped, RowsTyped, Row
  <2>6. sheet = db
    BY <2>1, <2>3, <2>5, StillShows, WholeRow
  <2>7. numbers'["bot"] = db' /\ \A b \in G!Actors : pc'[b] \in {"idle", "loaded"}
    BY <1>a, <1>b, <2>1, <2>2, <2>6 DEF SheetTyped, ActorsTyped
  <2>8. WillShow'
    BY <1>b, <2>1, <2>2, <2>3, <2>4, <2>7 DEF WillShow
  <2> QED BY <2>2, <2>4, <2>8 DEF Clear
<1>15. ASSUME G!update_schedule_events_from_googlesheets PROVE Clear'
  <2>1. /\ G!Step("bot", "loaded", "idle") /\ UNCHANGED <<sheet, numbers, G!queue>>
        /\ db' = numbers["bot"] /\ Clear
    BY <1>a, <1>15 DEF G!update_schedule_events_from_googlesheets
  <2>2. db' = db /\ \A b \in G!Actors \ {"bot"} : pc[b] = "idle"
    BY <1>b, <2>1, Only DEF G!Step, Clear, WillShow
  <2>3. \A c \in G!Columns : <<c, db'[c]>> \in Finals
    BY <2>1, <2>2 DEF G!Step, Clear, WillShow
  <2>4. Finals' = Finals /\ InLine'
    BY <2>1, FinalsStay, QueueStays DEF Clear
  <2> QED BY <1>a, <1>b, <2>1, <2>3, <2>4, ThroughKeeps
<1>16. ASSUME G!update_schedule_event_data_fails PROVE Clear'
  <2>1. /\ G!Step("bot", "loaded", "idle") /\ UNCHANGED <<db, sheet, numbers, G!queue>> /\ Clear
    BY <1>a, <1>16 DEF G!update_schedule_event_data_fails
  <2>2. \A b \in G!Actors \ {"bot"} : pc[b] = "idle"
    BY <1>b, <2>1, Only DEF G!Step, Clear
  <2>3. \A c \in G!Columns : <<c, db'[c]>> \in Finals
    BY <2>1, <2>2 DEF G!Step, Clear, WillShow
  <2>4. Finals' = Finals /\ InLine'
    BY <2>1, FinalsStay, QueueStays DEF Clear
  <2> QED BY <1>a, <1>b, <2>1, <2>3, <2>4, ThroughKeeps
<1>17. ASSUME UNCHANGED G!vars PROVE Clear'
  <2>1. Clear /\ UNCHANGED <<db, sheet, pc, numbers, G!queue>>
    BY <1>a, <1>17 DEF G!vars, G!queue
  <2>2. Finals' = Finals
    BY <2>1, FinalsStay
  <2> QED BY <2>1, <2>2, WorkerKeeps, QueueStays DEF Clear
<1>18. ASSUME G!cleanup_rolls_back PROVE Clear'
  <2>0. "cleanup" \in G!Actors
    BY DEF G!Actors
  <2>1. /\ G!Step("cleanup", "read", "idle") /\ UNCHANGED <<db, sheet, numbers, G!queue>>
        /\ pc["cleanup"] = "read" /\ Clear
    BY <1>a, <1>18 DEF G!cleanup_rolls_back, G!Step
  <2>3. Finals' = Finals /\ InLine'
    BY <2>1, FinalsStay, QueueStays DEF Clear
  <2>4. \A c \in G!Columns : <<c, db[c]>> \in Finals
    BY <2>1 DEF Clear, WillShow
  <2> QED BY <1>a, <2>0, <2>1, <2>3, <2>4, ThroughKeeps
<1>19. ASSUME G!schedule_update_start PROVE Clear'
  <2>1. Clear /\ UNCHANGED <<db, sheet, pc, numbers, G!queue>>
    BY <1>a, <1>19 DEF G!schedule_update_start
  <2>2. Finals' = Finals
    BY <2>1, FinalsStay
  <2> QED BY <2>1, <2>2, WorkerKeeps, QueueStays DEF Clear
<1>20. ASSUME G!handle_confirm_save PROVE Clear'
  <2>1. Clear /\ UNCHANGED <<db, sheet, pc, numbers, G!queue>>
    BY <1>a, <1>20 DEF G!handle_confirm_save
  <2>2. Finals' = Finals
    BY <2>1, FinalsStay
  <2> QED BY <2>1, <2>2, WorkerKeeps, QueueStays DEF Clear
<1>21. ASSUME G!discard PROVE Clear'
  BY <1>21 DEF G!discard
<1> QED BY <1>1, <1>2, <1>3, <1>4, <1>5, <1>6, <1>7, <1>8, <1>9, <1>10, <1>11, <1>12, <1>13,
           <1>14, <1>15, <1>16, <1>17, <1>18, <1>19, <1>20, <1>21 DEF G!Next
-----------------------------------------------------------------------------
LEMMA SheetInit == ASSUME G!Init PROVE SheetInv
<1>1. SheetTyped
  <2>1. RowsTyped /\ ActorsTyped
    BY PartsAssumption DEF G!Init, RowsTyped, ActorsTyped, Row, G!Columns, G!Actors,
                           Steps
  <2>2. QueueTyped
    BY DEF G!Init, QueueTyped
  <2> QED BY <2>1, <2>2 DEF SheetTyped
<1>2. G!Still /\ sheet = db
  BY DEF G!Init, G!Still, G!Busy
<1>3. InLine /\ Alone
  BY <1>2 DEF G!Still, InLine, Alone, G!Busy
<1>4. \A c \in G!Columns : <<c, db[c]>> \in Finals
  <2>1. \A c \in G!Columns : Shows(c, db[c])
    BY <1>2 DEF G!Still, Shows, Front
  <2> QED BY <1>1, <2>1 DEF Finals, SheetTyped, RowsTyped, Row
<1>5. \A a \in G!Actors : pc[a] = "idle"
  BY DEF G!Init
<1>6. "web" \in G!Actors /\ "bot" \in G!Actors /\ "cleanup" \in G!Actors
  BY DEF G!Actors
<1>7. WillShow
  BY <1>4, <1>5, <1>6 DEF WillShow
<1>8. FormTyped
  BY DEF G!Init, FormTyped
<1> QED BY <1>1, <1>3, <1>7, <1>8 DEF SheetInv, Clear

LEMMA SheetStep ==
    ASSUME SheetInv, [G!Next]_(G!vars)
    PROVE  SheetInv'
BY TypedStays, FormStays, ClearStays DEF SheetInv

LEMMA ClearTruth == ASSUME SheetInv PROVE G!SheetTellsTruth
<1> SUFFICES ASSUME G!Still, Clear PROVE sheet = db
  BY DEF SheetInv, G!SheetTellsTruth
<1>1. \A a \in G!Actors : pc[a] = "idle"
  BY DEF G!Still, G!Busy
<1>2. \A c \in G!Columns : <<c, db[c]>> \in Finals
  BY <1>1 DEF Clear, WillShow
<1>3. db \in Row /\ sheet \in Row /\ \A c \in G!Columns : db[c] \in Int
  BY DEF SheetInv, SheetTyped, RowsTyped, Row
<1> QED BY <1>2, <1>3, StillShows, WholeRow
-----------------------------------------------------------------------------
(* The reminders.                                                          *)

ReminderTyped ==
    /\ got \in [EventTickets -> Nat] /\ slipped \in [EventTickets -> Nat]
    /\ reminded \subseteq EventTickets
    /\ run \in [on : BOOLEAN, due : SUBSET EventTickets, left : SUBSET EventTickets,
                at : SUBSET EventTickets, try : {1, 2}]

\* The ticket being sent is one ticket, is not marked and does not come again.
AtMostOne == \A s, t \in run.at : s = t
Ahead == run.at \cup (run.left \cap run.due)
NotMarked == Ahead \cap reminded = {} /\ run.at \cap run.left = {}

Counted ==
    \A t \in EventTickets : got[t] <= (IF t \in reminded THEN 1 ELSE 0) + slipped[t]

ReminderInv == ReminderTyped /\ AtMostOne /\ NotMarked /\ Counted
-----------------------------------------------------------------------------
LEMMA ReminderInit == R!Init => ReminderInv
<1> SUFFICES ASSUME R!Init PROVE ReminderInv
  OBVIOUS
<1>1. ReminderTyped
  BY DEF R!Init, ReminderTyped, R!Idle
<1>2. AtMostOne /\ NotMarked /\ Counted
  BY DEF R!Init, AtMostOne, NotMarked, Ahead, Counted, R!Idle
<1> QED BY <1>1, <1>2 DEF ReminderInv

\* A step that neither sends nor marks, and takes nobody up.
LEMMA QuietRunKeeps ==
    ASSUME ReminderInv, UNCHANGED <<reminded, got, slipped>>, run' \in {run, R!Idle}
    PROVE  ReminderInv'
<1>4. R!Idle \in [on : BOOLEAN, due : SUBSET EventTickets, left : SUBSET EventTickets,
                at : SUBSET EventTickets, try : {1, 2}]
  BY DEF R!Idle
<1>1. ReminderTyped'
  BY <1>4 DEF ReminderInv, ReminderTyped
<1>2. Counted'
  BY DEF ReminderInv, Counted
<1>3. AtMostOne' /\ NotMarked'
  BY DEF ReminderInv, AtMostOne, NotMarked, Ahead, R!Idle
<1> QED BY <1>1, <1>2, <1>3 DEF ReminderInv

\* The run is read, with the tickets that are due and not marked.
LEMMA RunKeeps ==
    ASSUME ReminderInv, R!send_reminder
    PROVE  ReminderInv'
<1>1. /\ UNCHANGED <<reminded, got, slipped>>
      /\ run' = [on |-> TRUE, due |-> R!Due, left |-> EventTickets, at |-> {}, try |-> 1]
  BY DEF R!send_reminder, R!told, R!Idle
<1>2. R!Due \in SUBSET (EventTickets \ reminded)
  BY DEF R!Due
<1>3. ReminderTyped'
  BY <1>1, <1>2 DEF ReminderInv, ReminderTyped
<1>4. Counted'
  BY <1>1 DEF ReminderInv, Counted
<1>5. AtMostOne' /\ NotMarked'
  BY <1>1, <1>2 DEF AtMostOne, NotMarked, Ahead
<1> QED BY <1>3, <1>4, <1>5 DEF ReminderInv

LEMMA NextKeeps ==
    ASSUME ReminderInv, NEW t \in EventTickets, R!next_ticket(t)
    PROVE  ReminderInv'
<1>1. UNCHANGED <<reminded, got, slipped>> /\ run.at = {} /\ t \in run.left
  BY DEF R!next_ticket, R!told
<1>2. Counted'
  BY <1>1 DEF ReminderInv, Counted
<1>3. CASE t \in run.due
  <2>1. run' = [run EXCEPT !.left = @ \ {t}, !.at = {t}, !.try = 1]
    BY <1>3 DEF R!next_ticket
  <2>2. ReminderTyped'
    BY <1>1, <2>1 DEF ReminderInv, ReminderTyped
  <2>3. /\ run'.at = {t} /\ run'.left = run.left \ {t} /\ run'.due = run.due
    BY <2>1 DEF ReminderInv, ReminderTyped
  <2>4. AtMostOne' /\ NotMarked'
    BY <1>1, <1>3, <2>3 DEF ReminderInv, AtMostOne, NotMarked, Ahead
  <2> QED BY <1>2, <2>2, <2>4 DEF ReminderInv
<1>4. CASE t \notin run.due
  <2>1. run' = [run EXCEPT !.left = @ \ {t}]
    BY <1>4 DEF R!next_ticket, R!PassOver
  <2>2. ReminderTyped'
    BY <1>1, <2>1 DEF ReminderInv, ReminderTyped
  <2>3. /\ run'.at = {} /\ run'.left = run.left \ {t} /\ run'.due = run.due
    BY <1>1, <2>1 DEF ReminderInv, ReminderTyped
  <2>4. AtMostOne' /\ NotMarked'
    BY <1>1, <2>3 DEF ReminderInv, AtMostOne, NotMarked, Ahead
  <2> QED BY <1>2, <2>2, <2>4 DEF ReminderInv
<1> QED BY <1>3, <1>4

\* The message is sent and marked: the ticket was not marked before.
LEMMA SentKeeps ==
    ASSUME ReminderInv, NEW t \in EventTickets, R!send_remainder_msg(t)
    PROVE  ReminderInv'
<1>1. /\ t \in run.at /\ got' = [got EXCEPT ![t] = @ + 1] /\ slipped' = slipped
      /\ reminded' = reminded \cup {t} /\ run' = [run EXCEPT !.at = {}]
  BY DEF R!send_remainder_msg, R!Sent
<1>2. ReminderTyped'
  BY <1>1 DEF ReminderInv, ReminderTyped
<1>3. t \notin reminded /\ t \notin run.left
  BY <1>1 DEF ReminderInv, NotMarked, Ahead
<1>4. Counted'
  <2> SUFFICES ASSUME NEW s \in EventTickets
      PROVE  got'[s] <= (IF s \in reminded' THEN 1 ELSE 0) + slipped'[s]
    BY DEF Counted
  <2>1. got[s] <= (IF s \in reminded THEN 1 ELSE 0) + slipped[s]
        /\ got[s] \in Nat /\ slipped[s] \in Nat
    BY DEF ReminderInv, Counted, ReminderTyped
  <2>2. CASE s = t
    <3>1. got'[s] = got[s] + 1 /\ s \notin reminded /\ s \in reminded' /\ slipped'[s] = slipped[s]
      BY <1>1, <1>3, <2>2 DEF ReminderInv, ReminderTyped
    <3> QED BY <2>1, <3>1
  <2>3. CASE s # t
    <3>1. got'[s] = got[s] /\ (s \in reminded' <=> s \in reminded) /\ slipped'[s] = slipped[s]
      BY <1>1, <2>3 DEF ReminderInv, ReminderTyped
    <3> QED BY <2>1, <3>1
  <2> QED BY <2>2, <2>3
<1>5. run'.at = {} /\ run'.left = run.left /\ run'.due = run.due
  BY <1>1 DEF ReminderInv, ReminderTyped
<1>6. AtMostOne' /\ NotMarked'
  BY <1>1, <1>3, <1>5 DEF ReminderInv, AtMostOne, NotMarked, Ahead
<1> QED BY <1>2, <1>4, <1>6 DEF ReminderInv

\* A message that went out although the attempt failed is counted as one.
LEMMA FailureKeeps ==
    ASSUME ReminderInv, NEW t \in EventTickets, R!send_remainder_msg_fails(t)
    PROVE  ReminderInv'
<1>1. reminded' = reminded /\ run' = IF run.try = 1 THEN [run EXCEPT !.try = 2] ELSE R!Idle
  BY DEF R!send_remainder_msg_fails
<1>2. \/ UNCHANGED <<got, slipped>>
      \/ /\ got' = [got EXCEPT ![t] = @ + 1] /\ slipped' = [slipped EXCEPT ![t] = @ + 1]
  BY DEF R!send_remainder_msg_fails, R!Sent
<1>3. ReminderTyped'
  BY <1>1, <1>2 DEF ReminderInv, ReminderTyped, R!Idle
<1>4. Counted'
  BY <1>1, <1>2 DEF ReminderInv, Counted, ReminderTyped
<1>5. \/ run'.at = run.at /\ run'.left = run.left /\ run'.due = run.due
      \/ run'.at = {} /\ run'.left = {}
  BY <1>1 DEF ReminderInv, ReminderTyped, R!Idle
<1>6. AtMostOne' /\ NotMarked'
  BY <1>1, <1>5 DEF ReminderInv, AtMostOne, NotMarked, Ahead
<1> QED BY <1>3, <1>4, <1>6 DEF ReminderInv

LEMMA ReminderStep ==
    ASSUME ReminderInv, [R!Next]_(R!vars)
    PROVE  ReminderInv'
<1>1. ASSUME NEW on \in BOOLEAN, R!schedule_notification_job(on) PROVE ReminderInv'
  BY <1>1, QuietRunKeeps DEF R!schedule_notification_job, R!told
<1>2. ASSUME NEW t \in EventTickets, R!pay(t) PROVE ReminderInv'
  BY <1>2, QuietRunKeeps DEF R!pay, R!told
<1>3. ASSUME NEW t \in EventTickets, R!close(t) PROVE ReminderInv'
  BY <1>3, QuietRunKeeps DEF R!close, R!told
<1>4. CASE R!tick
  BY <1>4, QuietRunKeeps DEF R!tick, R!told
<1>5. CASE R!send_reminder
  BY <1>5, RunKeeps
<1>6. CASE R!send_reminder_again
  BY <1>6, QuietRunKeeps DEF R!send_reminder_again, R!told
<1>7. ASSUME NEW t \in EventTickets, R!next_ticket(t) PROVE ReminderInv'
  BY <1>7, NextKeeps
<1>8. ASSUME NEW t \in EventTickets, R!send_remainder_msg(t) PROVE ReminderInv'
  BY <1>8, SentKeeps
<1>9. ASSUME NEW t \in EventTickets, R!send_remainder_msg_fails(t) PROVE ReminderInv'
  BY <1>9, FailureKeeps
<1>10. CASE R!finish \/ R!crash
  BY <1>10, QuietRunKeeps DEF R!finish, R!crash, R!told
<1>11. CASE R!restart \/ UNCHANGED R!vars
  BY <1>11, QuietRunKeeps DEF R!restart, R!vars, R!told
<1> QED BY <1>1, <1>2, <1>3, <1>4, <1>5, <1>6, <1>7, <1>8, <1>9, <1>10, <1>11 DEF R!Next

(***************************************************************************)
(* Whom the run found due it still has before it, is sending to, or has    *)
(* marked: what lets it finish only when all of them are reminded.         *)
(***************************************************************************)
FoundIsHeld == run.on => run.due \subseteq run.left \cup run.at \cup reminded

\* The loop passes a ticket over only if it was not due.
LEMMA FoundStep ==
    ASSUME ReminderInv, FoundIsHeld, [R!Next]_(R!vars)
    PROVE  /\ FoundIsHeld'
           /\ \A t \in EventTickets : R!FoundDue(t) => R!FoundDue(t)' \/ R!Settled(t)'
<1> DEFINE Goal == /\ FoundIsHeld'
                   /\ \A t \in EventTickets : R!FoundDue(t) => R!FoundDue(t)' \/ R!Settled(t)'
<1>0. ReminderTyped /\ AtMostOne
  BY DEF ReminderInv
<1>1. ASSUME run' = run, reminded \subseteq reminded' PROVE Goal
  BY <1>1 DEF FoundIsHeld, R!FoundDue
<1>2. ASSUME NEW on \in BOOLEAN, R!schedule_notification_job(on) PROVE Goal
  BY <1>2, <1>1 DEF R!schedule_notification_job, R!told
<1>3. ASSUME NEW t \in EventTickets, R!pay(t) \/ R!close(t) PROVE Goal
  BY <1>3, <1>1 DEF R!pay, R!close, R!told
<1>4. CASE R!tick \/ R!send_reminder_again \/ R!restart \/ UNCHANGED R!vars
  BY <1>4, <1>1 DEF R!tick, R!send_reminder_again, R!restart, R!told, R!vars
<1>5. CASE R!send_reminder
  <2>1. ~run.on /\ run' = [on |-> TRUE, due |-> R!Due, left |-> EventTickets, at |-> {}, try |-> 1]
    BY <1>5 DEF R!send_reminder, R!Idle
  <2> QED BY <2>1 DEF FoundIsHeld, R!FoundDue, R!Due
<1>6. ASSUME NEW t \in EventTickets, R!next_ticket(t) PROVE Goal
  <2>1. run.on /\ run.at = {} /\ t \in run.left /\ reminded' = reminded
    BY <1>6 DEF R!next_ticket, R!told
  <2>2. CASE t \in run.due
    <3>1. run' = [run EXCEPT !.left = @ \ {t}, !.at = {t}, !.try = 1]
      BY <1>6, <2>2 DEF R!next_ticket
    <3>2. run'.on = run.on /\ run'.due = run.due /\ run'.at = {t} /\ run'.left = run.left \ {t}
      BY <1>0, <3>1 DEF ReminderTyped
    <3> QED BY <2>1, <3>2 DEF FoundIsHeld, R!FoundDue
  <2>3. CASE t \notin run.due
    <3>1. run' = [run EXCEPT !.left = @ \ {t}]
      BY <1>6, <2>3 DEF R!next_ticket, R!PassOver
    <3>2. run'.on = run.on /\ run'.due = run.due /\ run'.at = {} /\ run'.left = run.left \ {t}
      BY <1>0, <2>1, <3>1 DEF ReminderTyped
    <3> QED BY <2>1, <2>3, <3>2 DEF FoundIsHeld, R!FoundDue
  <2> QED BY <2>2, <2>3
<1>7. ASSUME NEW t \in EventTickets, R!send_remainder_msg(t) PROVE Goal
  <2>1. t \in run.at /\ reminded' = reminded \cup {t} /\ run' = [run EXCEPT !.at = {}]
    BY <1>7 DEF R!send_remainder_msg
  <2>2. run'.on = run.on /\ run'.due = run.due /\ run'.at = {} /\ run'.left = run.left
    BY <1>0, <2>1 DEF ReminderTyped
  <2>3. \A s \in run.at : s = t
    BY <1>0, <2>1 DEF AtMostOne
  <2> QED BY <2>1, <2>2, <2>3 DEF FoundIsHeld, R!FoundDue
<1>8. ASSUME NEW t \in EventTickets, R!send_remainder_msg_fails(t) PROVE Goal
  <2>1. /\ reminded' = reminded /\ (ended' <=> ended \/ run.try = 2)
        /\ run' = IF run.try = 1 THEN [run EXCEPT !.try = 2] ELSE R!Idle
    BY <1>8 DEF R!send_remainder_msg_fails
  <2>2. CASE run.try = 1
    <3>1. run'.on = run.on /\ run'.due = run.due /\ run'.at = run.at /\ run'.left = run.left
      BY <1>0, <2>1, <2>2 DEF ReminderTyped
    <3> QED BY <2>1, <3>1 DEF FoundIsHeld, R!FoundDue
  <2>3. CASE run.try = 2
    <3>1. ~run'.on /\ ended'
      BY <2>1, <2>3 DEF R!Idle
    <3> QED BY <3>1 DEF FoundIsHeld, R!Settled
  <2> QED BY <1>0, <2>2, <2>3 DEF ReminderTyped
<1>9. CASE R!finish
  <2>1. run.on /\ run.at = {} /\ run.left = {} /\ reminded' = reminded /\ ~run'.on
    BY <1>9 DEF R!finish, R!told, R!Idle
  <2> QED BY <2>1 DEF FoundIsHeld, R!FoundDue, R!Settled
<1>10. CASE R!crash
  <2>1. ~run'.on /\ (run.on => ended')
    BY <1>10 DEF R!crash, R!Idle
  <2> QED BY <2>1 DEF FoundIsHeld, R!FoundDue, R!Settled
<1> QED BY <1>2, <1>3, <1>4, <1>5, <1>6, <1>7, <1>8, <1>9, <1>10 DEF R!Next
-----------------------------------------------------------------------------
(* How often something is in a sequence.                                   *)

Spots(q, x) == {i \in 1..Len(q) : q[i] = x}
Copies(q, x) == Cardinality(Spots(q, x))

LEMMA CopiesAreCounted ==
    ASSUME NEW S, NEW q \in Seq(S), NEW x
    PROVE  IsFiniteSet(Spots(q, x)) /\ Copies(q, x) \in Nat
<1>1. Len(q) \in Nat /\ IsFiniteSet(1..Len(q))
  BY FS_Interval
<1>2. Spots(q, x) \in SUBSET (1..Len(q))
  BY DEF Spots
<1>3. IsFiniteSet(Spots(q, x))
  BY <1>1, <1>2, FS_Subset
<1> QED BY <1>3, FS_CardinalityType DEF Copies

LEMMA NoCopies == ASSUME NEW x PROVE Copies(<<>>, x) = 0
BY FS_EmptySet DEF Copies, Spots

LEMMA OneCopy ==
    ASSUME NEW x, NEW y
    PROVE  Copies(<<y>>, x) = IF x = y THEN 1 ELSE 0
<1>1. CASE x = y
  <2>1. Spots(<<y>>, x) = {1}
    BY <1>1 DEF Spots
  <2>2. Cardinality({1}) = 1
    BY FS_Singleton
  <2> QED BY <1>1, <2>1, <2>2 DEF Copies
<1>2. CASE x # y
  <2>1. Spots(<<y>>, x) = {}
    BY <1>2 DEF Spots
  <2> QED BY <1>2, <2>1, FS_EmptySet DEF Copies
<1> QED BY <1>1, <1>2

LEMMA CopiesAppended ==
    ASSUME NEW S, NEW q \in Seq(S), NEW x, NEW y \in S
    PROVE  Copies(Append(q, y), x) = Copies(q, x) + (IF x = y THEN 1 ELSE 0)
<1> DEFINE n == Len(q)  r == Append(q, y)
<1>1. n \in Nat /\ Len(r) = n + 1 /\ r[n + 1] = y /\ \A i \in 1..n : r[i] = q[i]
  OBVIOUS
<1>2. IsFiniteSet(Spots(q, x)) /\ Copies(q, x) \in Nat
  BY CopiesAreCounted
<1>3. n + 1 \notin Spots(q, x)
  BY <1>1 DEF Spots
<1>4. CASE x = y
  <2>1. Spots(r, x) = Spots(q, x) \cup {n + 1}
    BY <1>1, <1>4 DEF Spots
  <2>2. Cardinality(Spots(q, x) \cup {n + 1}) = Cardinality(Spots(q, x)) + 1
    BY <1>2, <1>3, FS_AddElement
  <2> QED BY <1>4, <2>1, <2>2 DEF Copies
<1>5. CASE x # y
  <2>1. Spots(r, x) = Spots(q, x)
    BY <1>1, <1>5 DEF Spots
  <2> QED BY <1>2, <1>5, <2>1 DEF Copies
<1> QED BY <1>4, <1>5

\* What comes after the first is one place nearer.
LEMMA CopiesOfTail ==
    ASSUME NEW S, NEW q \in Seq(S), q # <<>>, NEW x
    PROVE  Copies(q, x) = Copies(Tail(q), x) + (IF x = Head(q) THEN 1 ELSE 0)
<1>1. /\ Len(q) \in Nat \ {0} /\ Head(q) = q[1] /\ Tail(q) \in Seq(S)
      /\ Len(Tail(q)) = Len(q) - 1
      /\ \A i \in 1..Len(Tail(q)) : Tail(q)[i] = q[i + 1]
  BY LongSequence
<1>2. /\ IsFiniteSet(Spots(q, x)) /\ Copies(q, x) \in Nat
      /\ IsFiniteSet(Spots(Tail(q), x)) /\ Copies(Tail(q), x) \in Nat
  BY <1>1, CopiesAreCounted
<1>3. Cardinality(Spots(q, x) \ {1}) = Cardinality(Spots(Tail(q), x))
  <2> DEFINE Later == Spots(q, x) \ {1}
             Now   == Spots(Tail(q), x)
             f     == [i \in Now |-> i + 1]
  <2>1. \A i : i \in Now <=> i \in 1..(Len(q) - 1) /\ q[i + 1] = x
    BY <1>1 DEF Spots
  <2>2. \A i : i \in Later <=> i \in 2..Len(q) /\ q[i] = x
    BY <1>1 DEF Spots
  <2> HIDE DEF Now, Later
  <2>3. f \in [Now -> Later]
    <3> SUFFICES ASSUME NEW i \in Now PROVE i + 1 \in Later
      OBVIOUS
    <3> QED BY <1>1, <2>1, <2>2
  <2>4. \A i, j \in Now : f[i] = f[j] => i = j
    BY <1>1, <2>1
  <2>5. \A k \in Later : \E i \in Now : f[i] = k
    <3> SUFFICES ASSUME NEW k \in Later PROVE k - 1 \in Now /\ k - 1 + 1 = k
      OBVIOUS
    <3> QED BY <1>1, <2>1, <2>2
  <2> HIDE DEF f
  <2>6. f \in Bijection(Now, Later)
    <3>1. DOMAIN f = Now
      BY <2>3
    <3> QED BY <2>3, <2>4, <2>5, <3>1 DEF Bijection, Injection, Surjection, IsInjective
  <2>7. ExistsBijection(Now, Later)
    BY <2>6 DEF ExistsBijection
  <2> QED BY <1>2, <2>7, FS_Bijection DEF Now, Later
<1>4. Cardinality(Spots(q, x) \ {1}) =
        IF 1 \in Spots(q, x) THEN Cardinality(Spots(q, x)) - 1
                              ELSE Cardinality(Spots(q, x))
  BY <1>2, FS_RemoveElement
<1>5. 1 \in Spots(q, x) <=> x = Head(q)
  BY <1>1 DEF Spots
<1> QED BY <1>2, <1>3, <1>4, <1>5 DEF Copies
-----------------------------------------------------------------------------
(* The news of payments.                                                   *)

NewsTyped ==
    /\ posted \in [Payments -> {"not due", "trying", "answered"}]
    /\ stream \in Seq(Payments) /\ unacked \in Seq(Payments) /\ queue \in Seq(Payments)
    /\ inflight = <<>> \/ \E m \in [p : Payments, put : BOOLEAN] : inflight = <<m>>
    /\ handling = <<>> \/ \E p \in Payments : handling = <<p>>
    /\ booked \in [Payments -> Nat]
    /\ lost \in [Payments -> {"no", "crash", "raised", "discarded"}]
    /\ faults \in Nat

InMemory(p) == p \in N!InSeq(queue) \cup N!InSeq(handling)
Given(p)    == inflight # <<>> /\ inflight[1].p = p
OnItsWay(p) == p \in N!InSeq(stream) \cup N!InSeq(unacked) \/ Given(p) \/ InMemory(p)

\* What is on the queue may be acknowledged.
PutIsHeld == (inflight # <<>> /\ inflight[1].put) =>
                N!Settled(inflight[1].p) \/ InMemory(inflight[1].p)
AnsweredIsKept == \A p \in Payments : posted[p] = "answered" => N!Settled(p) \/ OnItsWay(p)

(***************************************************************************)
(* How often a payment may still be booked, with no further failure: once  *)
(* for each copy of its news, counting the one YooKassa has to post.       *)
(***************************************************************************)
ToPost(p) == IF posted[p] = "answered" THEN 0 ELSE 1
ToPut(p)  == IF Given(p) /\ ~inflight[1].put THEN 1 ELSE 0
Chances(p) ==
    ToPost(p) + Copies(stream, p) + Copies(unacked, p) + ToPut(p)
              + Copies(queue, p) + Copies(handling, p)
FewChances == \A p \in Payments : booked[p] + Chances(p) <= 1 + faults

NewsInv == NewsTyped /\ PutIsHeld /\ AnsweredIsKept /\ FewChances
-----------------------------------------------------------------------------
LEMMA NewsInit == N!Init => NewsInv
<1> SUFFICES ASSUME N!Init PROVE NewsInv
  OBVIOUS
<1>1. /\ stream = <<>> /\ unacked = <<>> /\ inflight = <<>> /\ queue = <<>> /\ handling = <<>>
      /\ posted = [p \in Payments |-> "not due"] /\ booked = [p \in Payments |-> 0]
      /\ lost = [p \in Payments |-> "no"] /\ faults = 0
  BY DEF N!Init
<1>4. NewsTyped
  <2>1. stream \in Seq(Payments) /\ unacked \in Seq(Payments) /\ queue \in Seq(Payments)
    <3>1. <<>> \in Seq(Payments)
      OBVIOUS
    <3> QED BY <1>1, <3>1
  <2>2. posted \in [Payments -> {"not due", "trying", "answered"}]
    BY <1>1
  <2>3. booked \in [Payments -> Nat] /\ lost \in [Payments -> {"no", "crash", "raised", "discarded"}]
    BY <1>1
  <2> QED BY <1>1, <2>1, <2>2, <2>3 DEF NewsTyped
<1>5. PutIsHeld
  BY <1>1 DEF PutIsHeld
<1>6. AnsweredIsKept
  BY <1>1 DEF AnsweredIsKept
<1>3. FewChances
  <2> SUFFICES ASSUME NEW p \in Payments PROVE booked[p] + Chances(p) <= 1 + faults
    BY DEF FewChances
  <2>1. /\ Copies(stream, p) = 0 /\ Copies(unacked, p) = 0
        /\ Copies(queue, p) = 0 /\ Copies(handling, p) = 0
    BY <1>1, NoCopies
  <2>2. ToPut(p) = 0 /\ ToPost(p) = 1 /\ booked[p] = 0
    BY <1>1 DEF ToPut, ToPost, Given
  <2>3. Chances(p) = 1
    BY <2>1, <2>2 DEF Chances
  <2>4. faults = 0
    BY <1>1
  <2> QED BY <2>2, <2>3, <2>4
<1> QED BY <1>3, <1>4, <1>5, <1>6 DEF NewsInv

\* The elements of a longer and of a shorter sequence.
LEMMA ElementsAppended ==
    ASSUME NEW S, NEW q \in Seq(S), NEW y \in S
    PROVE  N!InSeq(Append(q, y)) = N!InSeq(q) \cup {y} /\ Append(q, y) \in Seq(S)
<1>1. /\ Len(q) \in Nat /\ Len(Append(q, y)) = Len(q) + 1
      /\ Append(q, y)[Len(q) + 1] = y /\ \A i \in 1..Len(q) : Append(q, y)[i] = q[i]
  OBVIOUS
<1>2. \A x : x \in N!InSeq(Append(q, y)) => x \in N!InSeq(q) \cup {y}
  BY <1>1 DEF N!InSeq
<1>3. \A x : x \in N!InSeq(q) => x \in N!InSeq(Append(q, y))
  BY <1>1 DEF N!InSeq
<1>4. y \in N!InSeq(Append(q, y))
  BY <1>1 DEF N!InSeq
<1> QED BY <1>2, <1>3, <1>4

LEMMA ElementsOfTail ==
    ASSUME NEW S, NEW q \in Seq(S), q # <<>>
    PROVE  /\ N!InSeq(q) = N!InSeq(Tail(q)) \cup {Head(q)}
           /\ Tail(q) \in Seq(S) /\ Head(q) \in S
<1>1. /\ Len(q) \in Nat \ {0} /\ Head(q) = q[1] /\ q[1] \in S /\ Tail(q) \in Seq(S)
      /\ Len(Tail(q)) = Len(q) - 1
      /\ \A i \in 1..Len(Tail(q)) : Tail(q)[i] = q[i + 1]
  BY LongSequence
<1>2. ASSUME NEW i \in 1..Len(q) PROVE q[i] \in N!InSeq(Tail(q)) \cup {Head(q)}
  <2>1. CASE i = 1
    BY <1>1, <2>1
  <2>2. CASE i # 1
    <3>1. i - 1 \in 1..Len(Tail(q)) /\ (i - 1) + 1 = i
      BY <1>1, <2>2
    <3>2. Tail(q)[i - 1] = q[i]
      BY <1>1, <3>1
    <3> QED BY <3>1, <3>2 DEF N!InSeq
  <2> QED BY <2>1, <2>2
<1>3. ASSUME NEW i \in 1..Len(Tail(q)) PROVE Tail(q)[i] \in N!InSeq(q)
  BY <1>1 DEF N!InSeq
<1>4. Head(q) \in N!InSeq(q)
  BY <1>1 DEF N!InSeq
<1>5. N!InSeq(q) \subseteq N!InSeq(Tail(q)) \cup {Head(q)}
  BY <1>2 DEF N!InSeq
<1>6. N!InSeq(Tail(q)) \subseteq N!InSeq(q)
  BY <1>3 DEF N!InSeq
<1> QED BY <1>1, <1>4, <1>5, <1>6

LEMMA ElementsOfShort ==
    /\ N!InSeq(<<>>) = {}
    /\ \A y : N!InSeq(<<y>>) = {y}
BY DEF N!InSeq
-----------------------------------------------------------------------------
\* What counts the copies is a number.
Numbered(p) ==
    /\ Copies(stream, p) \in Nat /\ Copies(unacked, p) \in Nat
    /\ Copies(queue, p) \in Nat /\ Copies(handling, p) \in Nat
    /\ ToPost(p) \in {0, 1} /\ ToPut(p) \in {0, 1}
    /\ booked[p] \in Nat /\ faults \in Nat

LEMMA NumbersOfNews ==
    ASSUME NewsTyped, NEW p \in Payments
    PROVE  Numbered(p)
<1>1. /\ Copies(stream, p) \in Nat /\ Copies(unacked, p) \in Nat
      /\ Copies(queue, p) \in Nat
  BY CopiesAreCounted DEF NewsTyped
<1>2. Copies(handling, p) \in Nat
  <2>1. CASE handling = <<>>
    BY <2>1, NoCopies
  <2>2. ASSUME NEW o \in Payments, handling = <<o>> PROVE Copies(handling, p) \in Nat
    BY <2>2, OneCopy
  <2> QED BY <2>1, <2>2 DEF NewsTyped
<1> QED BY <1>1, <1>2 DEF NewsTyped, ToPost, ToPut, Numbered

LEMMA GivenFacts ==
    ASSUME NewsTyped, inflight # <<>>
    PROVE  \E m \in [p : Payments, put : BOOLEAN] : inflight = <<m>> /\ inflight[1] = m
<1>1. inflight = <<>> \/ \E m \in [p : Payments, put : BOOLEAN] : inflight = <<m>>
  BY DEF NewsTyped
<1> QED BY <1>1

\* YooKassa posts the news; the website stores it.
LEMMA SucceedKeeps ==
    ASSUME NewsInv, NEW o \in Payments, N!payment_succeeds(o)
    PROVE  NewsInv'
<1>1. /\ posted[o] = "not due" /\ posted' = [posted EXCEPT ![o] = "trying"]
      /\ UNCHANGED <<stream, inflight, unacked, queue, handling, booked, lost, faults>>
  BY DEF N!payment_succeeds, N!app
<1>2. NewsTyped /\ NewsTyped'
  BY <1>1 DEF NewsInv, NewsTyped
<1>3. \A p \in Payments : posted'[p] = "answered" <=> posted[p] = "answered"
  BY <1>1, <1>2 DEF NewsTyped
<1>4. PutIsHeld' /\ AnsweredIsKept'
  BY <1>1, <1>3 DEF NewsInv, PutIsHeld, AnsweredIsKept, OnItsWay, Given, InMemory, N!Settled
<1>5. FewChances'
  BY <1>1, <1>3 DEF NewsInv, FewChances, Chances, ToPost, ToPut, Given
<1> QED BY <1>2, <1>4, <1>5 DEF NewsInv

LEMMA PostKeeps ==
    ASSUME NewsInv, NEW o \in Payments, N!post_notification(o) \/ N!answer_lost(o)
    PROVE  NewsInv'
<1>1. /\ posted[o] = "trying" /\ stream' = Append(stream, o)
      /\ UNCHANGED <<inflight, unacked, queue, handling, booked, lost>>
      /\ \/ posted' = [posted EXCEPT ![o] = "answered"] /\ faults' = faults
         \/ posted' = posted /\ faults' = faults + 1
  BY DEF N!post_notification, N!answer_lost, N!Fault, N!app
<1>2. NewsTyped /\ stream \in Seq(Payments)
  BY DEF NewsInv, NewsTyped
<1>3. N!InSeq(stream') = N!InSeq(stream) \cup {o} /\ stream' \in Seq(Payments)
  BY <1>1, <1>2, ElementsAppended
<1>4. NewsTyped'
  <2>1. posted \in [Payments -> {"not due", "trying", "answered"}] /\ faults \in Nat
    BY <1>2 DEF NewsTyped
  <2>2. posted' = posted \/ posted' = [posted EXCEPT ![o] = "answered"]
    BY <1>1
  <2>3. posted' \in [Payments -> {"not due", "trying", "answered"}]
    BY <2>1, <2>2
  <2>5. faults' = faults \/ faults' = faults + 1
    BY <1>1, Zenon
  <2>6. faults \in Nat
    BY <2>1
  <2>4. faults' \in Nat
    BY <2>5, <2>6
  <2> QED BY <1>1, <1>2, <1>3, <2>3, <2>4 DEF NewsTyped
<1>5. PutIsHeld'
  BY <1>1 DEF NewsInv, PutIsHeld, InMemory, N!Settled
<1>6. \A p \in Payments : posted'[p] = "answered" => posted[p] = "answered" \/ p = o
  BY <1>1, <1>2 DEF NewsTyped
<1>7. AnsweredIsKept'
  BY <1>1, <1>3, <1>6 DEF NewsInv, AnsweredIsKept, OnItsWay, Given, InMemory, N!Settled
<1>8. FewChances'
  <2> SUFFICES ASSUME NEW p \in Payments PROVE booked'[p] + Chances(p)' <= 1 + faults'
    BY DEF FewChances
  <2>1. booked[p] + Chances(p) <= 1 + faults
    BY DEF NewsInv, FewChances
  <2>2. Copies(stream', p) = Copies(stream, p) + (IF p = o THEN 1 ELSE 0)
    BY <1>1, <1>2, CopiesAppended
  <2>3. /\ Copies(unacked', p) = Copies(unacked, p) /\ Copies(queue', p) = Copies(queue, p)
        /\ Copies(handling', p) = Copies(handling, p) /\ booked'[p] = booked[p]
        /\ ToPut(p)' = ToPut(p)
    BY <1>1 DEF ToPut, Given
  <2>4. \/ ToPost(p)' = (IF p = o THEN 0 ELSE ToPost(p)) /\ faults' = faults
        \/ ToPost(p)' = ToPost(p) /\ faults' = faults + 1
    BY <1>1, <1>2 DEF NewsTyped, ToPost
  <2>5. p = o => ToPost(p) = 1
    BY <1>1 DEF ToPost
  <2>9. Numbered(p)
    BY <1>2, NumbersOfNews
  <2> QED BY <2>1, <2>2, <2>3, <2>4, <2>5, <2>9 DEF Numbered, Chances
<1> QED BY <1>4, <1>5, <1>7, <1>8 DEF NewsInv

\* The subscriber is given the news ...
LEMMA DeliveredKeeps ==
    ASSUME NewsInv, N!deliver
    PROVE  NewsInv'
<1>1. inflight = <<>> /\ UNCHANGED <<posted, queue, handling, booked, lost, faults>>
  BY DEF N!deliver, N!app
<1>2. NewsTyped /\ stream \in Seq(Payments) /\ unacked \in Seq(Payments)
  BY DEF NewsInv, NewsTyped
<1>3. PICK o \in Payments :
        /\ inflight' = <<[p |-> o, put |-> FALSE]>>
        /\ \/ /\ stream # <<>> /\ o = Head(stream) /\ stream' = Tail(stream)
              /\ unacked' = unacked
           \/ /\ unacked # <<>> /\ o = Head(unacked) /\ unacked' = Tail(unacked)
              /\ stream' = stream
  <2>1. stream # <<>> => Head(stream) \in Payments
    BY <1>2, ElementsOfTail
  <2>2. unacked # <<>> => Head(unacked) \in Payments
    BY <1>2, ElementsOfTail
  <2> QED BY <2>1, <2>2 DEF N!deliver
<1>4. /\ stream' \in Seq(Payments) /\ unacked' \in Seq(Payments)
      /\ N!InSeq(stream) \cup N!InSeq(unacked) \subseteq
            N!InSeq(stream') \cup N!InSeq(unacked') \cup {o}
  BY <1>2, <1>3, ElementsOfTail
<1>10. \E m \in [p : Payments, put : BOOLEAN] : inflight' = <<m>>
  BY <1>3
<1>5. NewsTyped'
  BY <1>1, <1>2, <1>4, <1>10 DEF NewsTyped
<1>6. inflight' # <<>> /\ inflight'[1].p = o /\ inflight'[1].put = FALSE
  BY <1>3
<1>7. PutIsHeld'
  BY <1>6 DEF PutIsHeld
<1>8. AnsweredIsKept'
  BY <1>1, <1>4, <1>6 DEF NewsInv, AnsweredIsKept, OnItsWay, Given, InMemory, N!Settled
<1>9. FewChances'
  <2> SUFFICES ASSUME NEW p \in Payments PROVE booked'[p] + Chances(p)' <= 1 + faults'
    BY DEF FewChances
  <2>1. booked[p] + Chances(p) <= 1 + faults
    BY DEF NewsInv, FewChances
  <2>2. Copies(stream, p) + Copies(unacked, p) =
          Copies(stream', p) + Copies(unacked', p) + (IF p = o THEN 1 ELSE 0)
    <3>1. Copies(stream, p) \in Nat /\ Copies(unacked, p) \in Nat
      BY <1>2, NumbersOfNews DEF Numbered
    <3>2. Copies(stream', p) \in Nat /\ Copies(unacked', p) \in Nat
      BY <1>4, CopiesAreCounted
    <3>3. CASE stream # <<>> /\ o = Head(stream) /\ stream' = Tail(stream) /\ unacked' = unacked
      <4>1. Copies(stream, p) = Copies(Tail(stream), p) + (IF p = Head(stream) THEN 1 ELSE 0)
        BY <1>2, <3>3, CopiesOfTail
      <4> QED BY <3>1, <3>2, <3>3, <4>1
    <3>4. CASE unacked # <<>> /\ o = Head(unacked) /\ unacked' = Tail(unacked) /\ stream' = stream
      <4>1. Copies(unacked, p) = Copies(Tail(unacked), p) + (IF p = Head(unacked) THEN 1 ELSE 0)
        BY <1>2, <3>4, CopiesOfTail
      <4> QED BY <3>1, <3>2, <3>4, <4>1
    <3> QED BY <1>3, <3>3, <3>4
  <2>3. /\ Copies(queue', p) = Copies(queue, p) /\ Copies(handling', p) = Copies(handling, p)
        /\ booked'[p] = booked[p] /\ faults' = faults
        /\ ToPost(p)' = ToPost(p)
    BY <1>1 DEF ToPost
  <2>4. ToPut(p) = 0 /\ ToPut(p)' = IF p = o THEN 1 ELSE 0
    BY <1>1, <1>6 DEF ToPut, Given
  <2>5. Copies(stream', p) \in Nat /\ Copies(unacked', p) \in Nat
    BY <1>4, CopiesAreCounted
  <2>9. Numbered(p)
    BY <1>2, NumbersOfNews
  <2> QED BY <2>1, <2>2, <2>3, <2>4, <2>5, <2>9 DEF Numbered, Chances
<1> QED BY <1>5, <1>7, <1>8, <1>9 DEF NewsInv

\* ... puts it on the queue, and acknowledges it.
LEMMA PutKeepsNews ==
    ASSUME NewsInv, N!yookassa_handler
    PROVE  NewsInv'
<1>2. NewsTyped /\ queue \in Seq(Payments)
  BY DEF NewsInv, NewsTyped
<1>10. /\ inflight # <<>> /\ ~inflight[1].put
       /\ inflight' = <<[inflight[1] EXCEPT !.put = TRUE]>>
       /\ queue' = Append(queue, inflight[1].p)
       /\ UNCHANGED <<posted, stream, unacked, handling, booked, lost, faults>>
  BY DEF N!yookassa_handler
<1>1. PICK m \in [p : Payments, put : BOOLEAN] : inflight = <<m>> /\ inflight[1] = m
  BY <1>2, <1>10, GivenFacts
<1>11. PICK o \in Payments : o = m.p
  OBVIOUS
<1>12. PICK n \in [p : Payments, put : BOOLEAN] : n = [m EXCEPT !.put = TRUE]
  OBVIOUS
<1>13. n.p = o /\ n.put = TRUE
  BY <1>11, <1>12
<1>3. /\ inflight[1].p = o /\ ~inflight[1].put /\ inflight # <<>>
      /\ inflight' = <<n>>
      /\ queue' = Append(queue, o)
      /\ UNCHANGED <<posted, stream, unacked, handling, booked, lost, faults>>
  BY <1>1, <1>10, <1>11, <1>12
<1>4. inflight'[1].p = o /\ inflight'[1].put = TRUE /\ inflight' # <<>>
  BY <1>3, <1>13
<1>5. N!InSeq(queue') = N!InSeq(queue) \cup {o} /\ queue' \in Seq(Payments)
  BY <1>2, <1>3, ElementsAppended
<1>6. NewsTyped'
  BY <1>2, <1>3, <1>5 DEF NewsTyped
<1>7. PutIsHeld'
  BY <1>4, <1>5 DEF PutIsHeld, InMemory
<1>8. AnsweredIsKept'
  BY <1>3, <1>4, <1>5 DEF NewsInv, AnsweredIsKept, OnItsWay, Given, InMemory, N!Settled
<1>9. FewChances'
  <2> SUFFICES ASSUME NEW p \in Payments PROVE booked'[p] + Chances(p)' <= 1 + faults'
    BY DEF FewChances
  <2>1. booked[p] + Chances(p) <= 1 + faults
    BY DEF NewsInv, FewChances
  <2>2. Copies(queue', p) = Copies(queue, p) + (IF p = o THEN 1 ELSE 0)
    BY <1>2, <1>3, CopiesAppended
  <2>3. /\ Copies(stream', p) = Copies(stream, p) /\ Copies(unacked', p) = Copies(unacked, p)
        /\ Copies(handling', p) = Copies(handling, p)
        /\ booked'[p] = booked[p] /\ faults' = faults /\ ToPost(p)' = ToPost(p)
    BY <1>3 DEF ToPost
  <2>4. ToPut(p) = IF p = o THEN 1 ELSE 0
    BY <1>3 DEF ToPut, Given
  <2>5. ToPut(p)' = 0
    BY <1>4 DEF ToPut, Given
  <2>9. Numbered(p)
    BY <1>2, NumbersOfNews
  <2> QED BY <2>1, <2>2, <2>3, <2>4, <2>5, <2>9 DEF Numbered, Chances
<1> QED BY <1>6, <1>7, <1>8, <1>9 DEF NewsInv

LEMMA AcknowledgeKeeps ==
    ASSUME NewsInv, N!acknowledge \/ N!ack_wait_passes
    PROVE  NewsInv'
<1>1. /\ inflight # <<>> /\ inflight[1].put /\ inflight' = <<>>
      /\ UNCHANGED <<posted, stream, queue, handling, booked, lost>>
      /\ \/ unacked' = unacked /\ faults' = faults
         \/ unacked' = Append(unacked, inflight[1].p) /\ faults' = faults + 1
  BY DEF N!acknowledge, N!ack_wait_passes, N!Fault, N!app
<1>2. NewsTyped /\ unacked \in Seq(Payments) /\ faults \in Nat
  BY DEF NewsInv, NewsTyped
<1>3. PICK o \in Payments : inflight[1].p = o /\ inflight[1].put
  BY <1>1, <1>2, GivenFacts
<1>4. \/ unacked' = unacked /\ faults' = faults
      \/ unacked' = Append(unacked, o) /\ faults' = faults + 1
  BY <1>1, <1>3
<1>11. unacked \in Seq(Payments)
  BY <1>2
<1>12. unacked' = unacked \/ unacked' = Append(unacked, o)
  BY <1>4, Zenon
<1>5. N!InSeq(unacked) \subseteq N!InSeq(unacked') /\ unacked' \in Seq(Payments)
  <2>1. CASE unacked' = unacked
    BY <1>11, <2>1
  <2>2. CASE unacked' = Append(unacked, o)
    BY <1>11, <2>2, ElementsAppended
  <2> QED BY <1>12, <2>1, <2>2
<1>10. faults' \in Nat
  <2>1. faults' = faults \/ faults' = faults + 1
    BY <1>4, Zenon
  <2> QED BY <1>2, <2>1
<1>6. NewsTyped'
  BY <1>1, <1>2, <1>5, <1>10 DEF NewsTyped
<1>7. PutIsHeld'
  BY <1>1 DEF PutIsHeld
<1>8. AnsweredIsKept'
  BY <1>1, <1>5 DEF NewsInv, AnsweredIsKept, PutIsHeld, OnItsWay, Given, InMemory, N!Settled
<1>9. FewChances'
  <2> SUFFICES ASSUME NEW p \in Payments PROVE booked'[p] + Chances(p)' <= 1 + faults'
    BY DEF FewChances
  <2>1. booked[p] + Chances(p) <= 1 + faults
    BY DEF NewsInv, FewChances
  <2>2. \/ Copies(unacked', p) = Copies(unacked, p) /\ faults' = faults
        \/ /\ Copies(unacked', p) = Copies(unacked, p) + (IF p = o THEN 1 ELSE 0)
           /\ faults' = faults + 1
    <3>1. Copies(Append(unacked, o), p) = Copies(unacked, p) + (IF p = o THEN 1 ELSE 0)
      BY <1>11, CopiesAppended
    <3>2. CASE unacked' = unacked /\ faults' = faults
      BY <3>2, Zenon
    <3>3. CASE unacked' = Append(unacked, o) /\ faults' = faults + 1
      BY <3>1, <3>3, Zenon
    <3> QED BY <1>4, <3>2, <3>3
  <2>3. /\ Copies(stream', p) = Copies(stream, p) /\ Copies(queue', p) = Copies(queue, p)
        /\ Copies(handling', p) = Copies(handling, p)
        /\ booked'[p] = booked[p] /\ ToPost(p)' = ToPost(p)
    BY <1>1 DEF ToPost
  <2>4. ToPut(p) = 0 /\ ToPut(p)' = 0
    BY <1>1 DEF ToPut, Given
  <2>9. Numbered(p)
    BY <1>2, NumbersOfNews
  <2> QED BY <2>1, <2>2, <2>3, <2>4, <2>9 DEF Numbered, Chances
<1> QED BY <1>6, <1>7, <1>8, <1>9 DEF NewsInv

\* The application takes it up, and books it or fails.
LEMMA TakenKeeps ==
    ASSUME NewsInv, N!process_update
    PROVE  NewsInv'
<1>2. NewsTyped /\ queue \in Seq(Payments)
  BY DEF NewsInv, NewsTyped
<1>1. PICK o : /\ o = Head(queue) /\ queue # <<>> /\ handling = <<>> /\ handling' = <<o>>
               /\ queue' = Tail(queue)
               /\ UNCHANGED <<posted, stream, inflight, unacked, booked, lost, faults>>
  BY DEF N!process_update, N!server
<1>3. /\ N!InSeq(queue) = N!InSeq(queue') \cup {o} /\ queue' \in Seq(Payments)
      /\ o \in Payments
  BY <1>1, <1>2, ElementsOfTail
<1>4. N!InSeq(handling) = {} /\ N!InSeq(handling') = {o}
  BY <1>1, ElementsOfShort
<1>5. NewsTyped'
  BY <1>1, <1>2, <1>3 DEF NewsTyped
<1>6. PutIsHeld'
  BY <1>1, <1>3, <1>4 DEF NewsInv, PutIsHeld, InMemory, N!Settled
<1>7. AnsweredIsKept'
  BY <1>1, <1>3, <1>4 DEF NewsInv, AnsweredIsKept, OnItsWay, Given, InMemory, N!Settled
<1>8. FewChances'
  <2> SUFFICES ASSUME NEW p \in Payments PROVE booked'[p] + Chances(p)' <= 1 + faults'
    BY DEF FewChances
  <2>1. booked[p] + Chances(p) <= 1 + faults
    BY DEF NewsInv, FewChances
  <2>2. Copies(queue, p) = Copies(queue', p) + (IF p = o THEN 1 ELSE 0)
    BY <1>1, <1>2, CopiesOfTail
  <2>3. /\ Copies(stream', p) = Copies(stream, p) /\ Copies(unacked', p) = Copies(unacked, p)
        /\ booked'[p] = booked[p] /\ faults' = faults
        /\ ToPost(p)' = ToPost(p) /\ ToPut(p)' = ToPut(p)
    BY <1>1 DEF ToPost, ToPut, Given
  <2>4. Copies(handling, p) = 0 /\ Copies(handling', p) = IF p = o THEN 1 ELSE 0
    BY <1>1, NoCopies, OneCopy
  <2>5. Copies(queue', p) \in Nat
    BY <1>3, CopiesAreCounted
  <2>9. Numbered(p)
    BY <1>2, NumbersOfNews
  <2> QED BY <2>1, <2>2, <2>3, <2>4, <2>5, <2>9 DEF Numbered, Chances
<1> QED BY <1>5, <1>6, <1>7, <1>8 DEF NewsInv

LEMMA HandledKeeps ==
    ASSUME NewsInv, N!yookassa_hook_update \/ N!yookassa_hook_update_raises
    PROVE  NewsInv'
<1>2. NewsTyped /\ faults \in Nat
  BY DEF NewsInv, NewsTyped
<1>1. PICK o \in Payments : handling = <<o>>
  BY <1>2 DEF NewsTyped, N!yookassa_hook_update, N!yookassa_hook_update_raises
<1>3. /\ handling[1] = o /\ handling' = <<>>
      /\ UNCHANGED <<posted, stream, inflight, unacked, queue>>
      /\ \/ booked' = [booked EXCEPT ![o] = @ + 1] /\ lost' = lost /\ faults' = faults
         \/ lost' = [lost EXCEPT ![o] = "raised"] /\ booked' = booked /\ faults' = faults + 1
  BY <1>1 DEF N!yookassa_hook_update, N!yookassa_hook_update_raises, N!Fault, N!server
<1>4. N!InSeq(handling) = {o} /\ N!InSeq(handling') = {}
  BY <1>1, <1>3, ElementsOfShort
<1>11. /\ booked \in [Payments -> Nat] /\ lost \in [Payments -> {"no", "crash", "raised", "discarded"}]
  BY <1>2 DEF NewsTyped
<1>12. booked' = [booked EXCEPT ![o] = @ + 1] \/ booked' = booked
  BY <1>3, Zenon
<1>13. lost' = [lost EXCEPT ![o] = "raised"] \/ lost' = lost
  BY <1>3, Zenon
<1>14. faults' \in Nat
  <2>1. faults' = faults \/ faults' = faults + 1
    BY <1>3, Zenon
  <2>2. faults \in Nat
    BY <1>2
  <2> QED BY <2>1, <2>2
<1>15. booked' \in [Payments -> Nat]
  <2>1. booked \in [Payments -> Nat]
    BY <1>11
  <2> QED BY <1>12, <2>1
<1>16. lost' \in [Payments -> {"no", "crash", "raised", "discarded"}]
  <2>1. lost \in [Payments -> {"no", "crash", "raised", "discarded"}]
    BY <1>11
  <2> QED BY <1>13, <2>1
<1>5. NewsTyped'
  BY <1>2, <1>3, <1>14, <1>15, <1>16 DEF NewsTyped
<1>17. \A p \in Payments : booked[p] > 0 => booked'[p] > 0
  <2>1. booked \in [Payments -> Nat]
    BY <1>11
  <2> QED BY <1>12, <2>1
<1>18. \A p \in Payments : lost[p] # "no" => lost'[p] # "no"
  <2>1. lost \in [Payments -> {"no", "crash", "raised", "discarded"}]
    BY <1>11
  <2> QED BY <1>13, <2>1
<1>19. booked'[o] > 0 \/ lost'[o] # "no"
  <2>1. booked \in [Payments -> Nat]
    BY <1>11
  <2>2. lost \in [Payments -> {"no", "crash", "raised", "discarded"}]
    BY <1>11
  <2>3. CASE booked' = [booked EXCEPT ![o] = @ + 1]
    BY <2>1, <2>3
  <2>4. CASE lost' = [lost EXCEPT ![o] = "raised"]
    BY <2>2, <2>4
  <2>5. booked' = [booked EXCEPT ![o] = @ + 1] \/ lost' = [lost EXCEPT ![o] = "raised"]
    BY <1>3, Zenon
  <2> QED BY <2>3, <2>4, <2>5
<1>6. /\ N!Settled(o)'
      /\ \A p \in Payments : N!Settled(p) => N!Settled(p)'
  BY <1>17, <1>18, <1>19 DEF N!Settled
<1>7. inflight # <<>> => inflight[1].p \in Payments
  BY <1>2, GivenFacts
<1>8. PutIsHeld'
  BY <1>3, <1>4, <1>6, <1>7 DEF NewsInv, PutIsHeld, InMemory
<1>9. AnsweredIsKept'
  BY <1>3, <1>4, <1>6 DEF NewsInv, AnsweredIsKept, OnItsWay, Given, InMemory
<1>10. FewChances'
  <2> SUFFICES ASSUME NEW p \in Payments PROVE booked'[p] + Chances(p)' <= 1 + faults'
    BY DEF FewChances
  <2>1. booked[p] + Chances(p) <= 1 + faults
    BY DEF NewsInv, FewChances
  <2>2. Copies(handling, p) = (IF p = o THEN 1 ELSE 0) /\ Copies(handling', p) = 0
    BY <1>1, <1>3, NoCopies, OneCopy
  <2>3. /\ Copies(stream', p) = Copies(stream, p) /\ Copies(unacked', p) = Copies(unacked, p)
        /\ Copies(queue', p) = Copies(queue, p)
        /\ ToPost(p)' = ToPost(p) /\ ToPut(p)' = ToPut(p)
    BY <1>3 DEF ToPost, ToPut, Given
  <2>4. \/ booked'[p] = booked[p] + (IF p = o THEN 1 ELSE 0) /\ faults' = faults
        \/ booked'[p] = booked[p] /\ faults' = faults + 1
    <3>1. booked \in [Payments -> Nat]
      BY <1>11
    <3>2. CASE booked' = [booked EXCEPT ![o] = @ + 1] /\ faults' = faults
      BY <3>1, <3>2
    <3>3. \/ booked' = [booked EXCEPT ![o] = @ + 1] /\ faults' = faults
          \/ booked' = booked /\ faults' = faults + 1
      BY <1>3, Zenon
    <3> QED BY <3>2, <3>3, Zenon
  <2>9. Numbered(p)
    BY <1>2, NumbersOfNews
  <2> QED BY <2>1, <2>2, <2>3, <2>4, <2>9 DEF Numbered, Chances
<1> QED BY <1>5, <1>8, <1>9, <1>10 DEF NewsInv

\* The bot stops: what was in memory is lost, what it was given comes again.
LEMMA StopKeeps ==
    ASSUME NewsInv, N!crash
    PROVE  NewsInv'
<1>1. /\ queue' = <<>> /\ handling' = <<>> /\ inflight' = <<>> /\ faults' = faults + 1
      /\ UNCHANGED <<posted, stream, booked>>
      /\ lost' = [p \in Payments |-> IF InMemory(p) THEN "crash" ELSE lost[p]]
      /\ unacked' = IF inflight = <<>> THEN unacked ELSE Append(unacked, inflight[1].p)
  BY DEF N!crash, N!Fault, InMemory
<1>2. NewsTyped /\ unacked \in Seq(Payments) /\ faults \in Nat
  BY DEF NewsInv, NewsTyped
<1>3. inflight # <<>> => inflight[1].p \in Payments
  BY <1>2, GivenFacts
<1>4. /\ unacked' \in Seq(Payments) /\ N!InSeq(unacked) \subseteq N!InSeq(unacked')
      /\ \A p : Given(p) => p \in N!InSeq(unacked')
  BY <1>1, <1>2, <1>3, ElementsAppended DEF Given
<1>5. \A p \in Payments : N!Settled(p) \/ InMemory(p) => N!Settled(p)'
  BY <1>1, <1>2 DEF NewsTyped, N!Settled
<1>6. NewsTyped'
  <2>1. queue' \in Seq(Payments)
    <3>1. <<>> \in Seq(Payments)
      OBVIOUS
    <3> QED BY <1>1, <3>1
  <2>2. lost' \in [Payments -> {"no", "crash", "raised", "discarded"}]
    BY <1>1, <1>2 DEF NewsTyped
  <2>3. faults' \in Nat
    BY <1>1, <1>2
  <2> QED BY <1>1, <1>2, <1>4, <2>1, <2>2, <2>3 DEF NewsTyped
<1>7. PutIsHeld'
  BY <1>1 DEF PutIsHeld
<1>8. AnsweredIsKept'
  BY <1>1, <1>4, <1>5 DEF NewsInv, AnsweredIsKept, OnItsWay
<1>9. FewChances'
  <2> SUFFICES ASSUME NEW p \in Payments PROVE booked'[p] + Chances(p)' <= 1 + faults'
    BY DEF FewChances
  <2>1. booked[p] + Chances(p) <= 1 + faults
    BY DEF NewsInv, FewChances
  <2>2. \/ Copies(unacked', p) = Copies(unacked, p)
        \/ Copies(unacked', p) = Copies(unacked, p) + 1
    BY <1>1, <1>2, <1>3, CopiesAppended, CopiesAreCounted
  <2>3. /\ Copies(stream', p) = Copies(stream, p)
        /\ Copies(queue', p) = 0 /\ Copies(handling', p) = 0
        /\ booked'[p] = booked[p] /\ faults' = faults + 1
    BY <1>1, NoCopies
  <2>4. ToPost(p)' = ToPost(p) /\ ToPut(p)' = 0
    BY <1>1 DEF ToPost, ToPut, Given
  <2>9. Numbered(p)
    BY <1>2, NumbersOfNews
  <2> QED BY <2>1, <2>2, <2>3, <2>4, <2>9 DEF Numbered, Chances
<1> QED BY <1>6, <1>7, <1>8, <1>9 DEF NewsInv

\* The stream throws the oldest message away.
LEMMA DiscardKeeps ==
    ASSUME NewsInv, N!discard
    PROVE  NewsInv'
<1>1. UNCHANGED <<posted, inflight, queue, handling, booked>> /\ faults' = faults + 1
  BY DEF N!discard, N!Fault
<1>2. /\ NewsTyped /\ stream \in Seq(Payments) /\ unacked \in Seq(Payments)
      /\ faults \in Nat /\ lost \in [Payments -> {"no", "crash", "raised", "discarded"}]
  BY DEF NewsInv, NewsTyped
<1>3. PICK o \in Payments :
        /\ lost' = [lost EXCEPT ![o] = "discarded"]
        /\ \/ /\ stream # <<>> /\ o = Head(stream) /\ stream' = Tail(stream)
              /\ unacked' = unacked
           \/ /\ unacked # <<>> /\ o = Head(unacked) /\ unacked' = Tail(unacked)
              /\ stream' = stream
  <2>1. stream # <<>> => Head(stream) \in Payments
    BY <1>2, ElementsOfTail
  <2>2. unacked # <<>> => Head(unacked) \in Payments
    BY <1>2, ElementsOfTail
  <2> QED BY <2>1, <2>2 DEF N!discard
<1>4. /\ stream' \in Seq(Payments) /\ unacked' \in Seq(Payments)
      /\ N!InSeq(stream) \cup N!InSeq(unacked) \subseteq
            N!InSeq(stream') \cup N!InSeq(unacked') \cup {o}
  BY <1>2, <1>3, ElementsOfTail
<1>5. /\ lost' \in [Payments -> {"no", "crash", "raised", "discarded"}]
      /\ lost'[o] # "no" /\ \A p \in Payments : lost[p] # "no" => lost'[p] # "no"
  <2>1. lost \in [Payments -> {"no", "crash", "raised", "discarded"}]
    BY <1>2
  <2>2. lost' = [lost EXCEPT ![o] = "discarded"]
    BY <1>3
  <2> QED BY <2>1, <2>2
<1>6. N!Settled(o)' /\ \A p \in Payments : N!Settled(p) => N!Settled(p)'
  BY <1>1, <1>5 DEF N!Settled
<1>7. NewsTyped'
  <2>1. faults' \in Nat
    BY <1>1, <1>2
  <2> QED BY <1>1, <1>2, <1>4, <1>5, <2>1 DEF NewsTyped
<1>8. PutIsHeld'
  <2>1. inflight # <<>> => inflight[1].p \in Payments
    BY <1>2, GivenFacts
  <2> QED BY <1>1, <1>6, <2>1 DEF NewsInv, PutIsHeld, InMemory
<1>9. AnsweredIsKept'
  BY <1>1, <1>4, <1>6 DEF NewsInv, AnsweredIsKept, OnItsWay, Given, InMemory
<1>10. FewChances'
  <2> SUFFICES ASSUME NEW p \in Payments PROVE booked'[p] + Chances(p)' <= 1 + faults'
    BY DEF FewChances
  <2>1. booked[p] + Chances(p) <= 1 + faults
    BY DEF NewsInv, FewChances
  <2>2. Copies(stream', p) <= Copies(stream, p) /\ Copies(unacked', p) <= Copies(unacked, p)
    <3>1. Copies(stream, p) \in Nat /\ Copies(unacked, p) \in Nat
      BY <1>2, NumbersOfNews DEF Numbered
    <3>2. Copies(stream', p) \in Nat /\ Copies(unacked', p) \in Nat
      BY <1>4, CopiesAreCounted
    <3>3. CASE stream # <<>> /\ o = Head(stream) /\ stream' = Tail(stream) /\ unacked' = unacked
      <4>1. Copies(stream, p) = Copies(Tail(stream), p) + (IF p = Head(stream) THEN 1 ELSE 0)
        BY <1>2, <3>3, CopiesOfTail
      <4> QED BY <3>1, <3>2, <3>3, <4>1
    <3>4. CASE unacked # <<>> /\ o = Head(unacked) /\ unacked' = Tail(unacked) /\ stream' = stream
      <4>1. Copies(unacked, p) = Copies(Tail(unacked), p) + (IF p = Head(unacked) THEN 1 ELSE 0)
        BY <1>2, <3>4, CopiesOfTail
      <4> QED BY <3>1, <3>2, <3>4, <4>1
    <3> QED BY <1>3, <3>3, <3>4
  <2>3. /\ Copies(queue', p) = Copies(queue, p) /\ Copies(handling', p) = Copies(handling, p)
        /\ booked'[p] = booked[p] /\ ToPost(p)' = ToPost(p) /\ ToPut(p)' = ToPut(p)
    BY <1>1 DEF ToPost, ToPut, Given
  <2>5. Copies(stream', p) \in Nat /\ Copies(unacked', p) \in Nat
    BY <1>4, CopiesAreCounted
  <2>9. Numbered(p)
    BY <1>2, NumbersOfNews
  <2> QED BY <1>1, <2>1, <2>2, <2>3, <2>5, <2>9 DEF Numbered, Chances
<1> QED BY <1>7, <1>8, <1>9, <1>10 DEF NewsInv

LEMMA NewsStep ==
    ASSUME NewsInv, [N!Next]_(N!vars)
    PROVE  NewsInv'
<1>1. ASSUME NEW p \in Payments, N!payment_succeeds(p) PROVE NewsInv'
  BY <1>1, SucceedKeeps
<1>2. ASSUME NEW p \in Payments, N!post_notification(p) \/ N!answer_lost(p) PROVE NewsInv'
  BY <1>2, PostKeeps
<1>3. CASE N!deliver
  BY <1>3, DeliveredKeeps
<1>4. CASE N!yookassa_handler
  BY <1>4, PutKeepsNews
<1>5. CASE N!acknowledge \/ N!ack_wait_passes
  BY <1>5, AcknowledgeKeeps
<1>6. CASE N!process_update
  BY <1>6, TakenKeeps
<1>7. CASE N!yookassa_hook_update \/ N!yookassa_hook_update_raises
  BY <1>7, HandledKeeps
<1>8. CASE N!crash
  BY <1>8, StopKeeps
<1>9. CASE N!restart \/ UNCHANGED N!vars
  <2>1. UNCHANGED <<posted, stream, inflight, unacked, queue, handling, booked, lost, faults>>
    BY <1>9 DEF N!restart, N!vars, N!server, N!app
  <2> QED BY <2>1 DEF NewsInv, NewsTyped, PutIsHeld, AnsweredIsKept, FewChances, Chances, ToPost,
                      ToPut, OnItsWay, Given, InMemory, N!Settled
<1>10. CASE N!discard
  BY <1>10, DiscardKeeps
<1> QED BY <1>1, <1>2, <1>3, <1>4, <1>5, <1>6, <1>7, <1>8, <1>9, <1>10 DEF N!Next
-----------------------------------------------------------------------------
(* The parts together.                                                     *)

BackgroundInv ==
    /\ part = "sheet" => SheetInv
    /\ part = "notices" => NewsInv
    /\ part = "reminders" => ReminderInv /\ FoundIsHeld

LEMMA BackgroundInit == PartsInit => BackgroundInv
<1>1. R!Init => FoundIsHeld
  BY DEF R!Init, R!Idle, FoundIsHeld
<1> QED BY <1>1, SheetInit, NewsInit, ReminderInit DEF PartsInit, BackgroundInv

LEMMA RemindersStep ==
    ASSUME part = "reminders", [PartsNext]_partsVars
    PROVE  [R!Next]_(R!vars)
BY DEF PartsNext, Ledger, Sheet, Notice, Reminder, partsVars, reminderVars, R!vars

LEMMA BackgroundStep ==
    ASSUME BackgroundInv, [PartsNext]_partsVars
    PROVE  BackgroundInv'
<1>1. part' = part
  BY DEF PartsNext, Ledger, Sheet, Notice, Reminder, partsVars
<1>2. ASSUME part = "sheet" PROVE SheetInv'
  <2>1. [G!Next]_(G!vars)
    BY <1>2 DEF PartsNext, Ledger, Sheet, Notice, Reminder, partsVars, sheetVars,
                broker, G!vars
  <2> QED BY <1>2, <2>1, SheetStep DEF BackgroundInv
<1>3. ASSUME part = "notices" PROVE NewsInv'
  <2>1. [N!Next]_(N!vars)
    BY <1>3 DEF PartsNext, Ledger, Sheet, Notice, Reminder, partsVars, noticeVars,
                broker, N!vars
  <2> QED BY <1>3, <2>1, NewsStep DEF BackgroundInv
<1>4. ASSUME part = "reminders" PROVE ReminderInv' /\ FoundIsHeld'
  <2>1. [R!Next]_(R!vars)
    BY <1>4, RemindersStep
  <2> QED BY <1>4, <2>1, ReminderStep, FoundStep DEF BackgroundInv
<1> QED BY <1>1, <1>2, <1>3, <1>4 DEF BackgroundInv

LEMMA BackgroundAlways == PartsSpec => []BackgroundInv
<1>1. BackgroundInv /\ [PartsNext]_partsVars => BackgroundInv'
  BY BackgroundStep
<1> QED BY BackgroundInit, <1>1, PTL DEF PartsSpec

\* Once everything is still, the sheet shows the counters of the database,
\* unless one of the things recorded in "cause" happened: for any number of
\* operations, reloads and failures, and any length of the stream
\* (db/db_googlesheets.py, api/gspread_worker.py).
THEOREM SheetIsTrue == PartsSpec => []SheetTellsTruth
<1>1. BackgroundInv => SheetTellsTruth
  BY ClearTruth DEF BackgroundInv, SheetTellsTruth
<1> QED BY <1>1, BackgroundAlways, PTL

\* Loading the schedule from the sheet leaves the counters as they are, unless
\* one of those things happened (handlers/sub_hl.py 216-247).
THEOREM ReloadIsHarmless == PartsSpec => ReloadKeepsCounters
<1>1. BackgroundInv /\ [PartsNext]_partsVars =>
        [part = "sheet" => G!Loads]_sheetVars
  <2>1. ASSUME SheetInv, G!update_schedule_events_from_googlesheets, cause = {}
        PROVE  db' = db
    <3>1. pc["bot"] = "loaded" /\ db' = numbers["bot"]
      BY <2>1 DEF G!update_schedule_events_from_googlesheets, G!Step
    <3> QED BY <2>1, <3>1 DEF SheetInv, Clear, WillShow
  <2> QED BY <2>1 DEF G!Loads, BackgroundInv
<1> QED BY <1>1, BackgroundAlways, PTL DEF PartsSpec, ReloadKeepsCounters

\* Nobody is reminded twice of a ticket without a message that went out
\* unmarked, however often the schedule is loaded, the job fails or the bot
\* stops (schedule/worker_jobs.py 35-71).
THEOREM RemindedOnce == PartsSpec => []TwiceOnlyUnmarked
<1>1. BackgroundInv => TwiceOnlyUnmarked
  BY DEF BackgroundInv, ReminderInv, Counted, ReminderTyped, TwiceOnlyUnmarked,
         R!TwiceOnlyUnmarked
<1> QED BY <1>1, BackgroundAlways, PTL

\* Whom a run of the job found due it has in hand until he is reminded or the
\* run is brought down: no step of the loop, of the schedule, of an admin or of
\* the clock drops anybody on the way (schedule/worker_jobs.py 35-71).  That
\* the run goes on is fairness, and stays with TLC (DueIsReminded).
THEOREM NobodyDueIsDropped ==
    PartsSpec => [][part = "reminders" =>
                      \A t \in EventTickets :
                         R!FoundDue(t) => R!FoundDue(t)' \/ R!Settled(t)']_partsVars
<1>1. BackgroundInv /\ [PartsNext]_partsVars =>
        [part = "reminders" =>
            \A t \in EventTickets :
               R!FoundDue(t) => R!FoundDue(t)' \/ R!Settled(t)']_partsVars
  BY RemindersStep, FoundStep DEF BackgroundInv
<1> QED BY <1>1, BackgroundAlways, PTL DEF PartsSpec

\* A payment YooKassa has been answered about is booked, or its news is still
\* on the stream, waiting to come again, with the subscriber, on the queue or
\* being handled; or one of three things ended it: the bot stopped with it in
\* memory, its handler raised, or the stream threw it away for its length or
\* its age.  Acknowledging it before it is handled loses it in no fourth way,
\* though what is acknowledged is in memory alone (api/routes/api.py,
\* api/broker_nats.py 23-43, handlers/hooks/yookassa_hl.py).
THEOREM NewsEndsInThreeWays ==
    PartsSpec => [](part = "notices" =>
                      \A p \in Payments :
                         posted[p] = "answered" =>
                            \/ booked[p] > 0
                            \/ OnItsWay(p)
                            \/ lost[p] \in {"crash", "raised", "discarded"})
<1>1. BackgroundInv => (part = "notices" =>
                          \A p \in Payments :
                             posted[p] = "answered" =>
                                \/ booked[p] > 0
                                \/ OnItsWay(p)
                                \/ lost[p] \in {"crash", "raised", "discarded"})
  BY DEF BackgroundInv, NewsInv, NewsTyped, AnsweredIsKept, N!Settled
<1> QED BY <1>1, BackgroundAlways, PTL

\* A payment is booked at most once more than there were failures: a lost
\* answer, a late acknowledgement or a stop of the bot makes one copy of its
\* news at most, and nothing else makes any.  Without failures no payment is
\* booked twice.
THEOREM TwiceOnlyAfterFaults ==
    PartsSpec => [](part = "notices" => \A p \in Payments : booked[p] <= 1 + faults)
<1>1. BackgroundInv => (part = "notices" => \A p \in Payments : booked[p] <= 1 + faults)
  <2> SUFFICES ASSUME NewsInv, NEW p \in Payments PROVE booked[p] <= 1 + faults
    BY DEF BackgroundInv
  <2>1. booked[p] + Chances(p) <= 1 + faults
    BY DEF NewsInv, FewChances
  <2>2. NewsTyped
    BY DEF NewsInv
  <2>4. Numbered(p)
    BY <2>2, NumbersOfNews
  <2>3. Chances(p) \in Nat /\ booked[p] \in Nat /\ faults \in Nat
    BY <2>4 DEF Numbered, Chances
  <2> QED BY <2>1, <2>3
<1> QED BY <1>1, BackgroundAlways, PTL
=============================================================================
