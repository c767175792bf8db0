------------------------ MODULE FtpTransaction_proofs ------------------------
(***************************************************************************)
(* The records of GridFTP operations, for any number of operations, files  *)
(* and blocks: none is used after it was freed, none is forgotten but the  *)
(* ones that the code gives up, a transfer keeps what the interface of a   *)
(* storage element promises, and what has its own name is whole.           *)
(***************************************************************************)
EXTENDS FtpTransaction, TLAPS

(* What ownership of a record depends on. *)
Same(x, y) == /\ x.op = y.op /\ x.path = y.path /\ x.mem = y.mem
              /\ x.done = y.done /\ x.waiting = y.waiting /\ x.running = y.running

(* Of the first k records ts, with the transfers hs in the hands of callers *)
(* and the main thread waiting for op: a record is in the list from its     *)
(* start until it is freed, the library has it until the callback, and      *)
(* somebody is to free it, unless it is one of the l given up.              *)
Owned(ts, hs, op, l, k) ==
  \A t \in Id :
    /\ ts[t].mem = "none" <=> k <= t
    /\ ts[t].mem = "none" => ts[t].op = "none"
    /\ ts[t].mem \in {"none", "freed"} => ~ts[t].running
    /\ ts[t].running => ~ts[t].done
    /\ ts[t].mem = "live" /\ ~ts[t].done => ts[t].running
    /\ ts[t].mem = "leaked" => ts[t].waiting /\ t \in l
    /\ t \in hs => ts[t].mem = "live" /\ ts[t].waiting /\ ts[t].op \in {"put", "get"}
    /\ t = op => ts[t].mem = "live" /\ ts[t].waiting /\ ts[t].op \in Waits
    /\ ts[t].mem \in {"live", "leaked"} /\ ts[t].op # "call" => ts[t].path \in Path
    /\ ts[t].mem = "live" => \/ t \in hs \/ t = op \/ t \in l
                             \/ ts[t].running /\ ~ts[t].waiting

(* A transfer that has a file open has the file that is there. *)
Open(ts, lo, fi) ==
  \A t \in Id :
    /\ ts[t].at \in {"locked", "final"} => ts[t].path \in Path
    /\ ts[t].at = "locked" => lo[ts[t].path] # none
    /\ ts[t].at = "final" => fi[ts[t].path] # none
    /\ ts[t].running /\ ts[t].op \in {"put", "get"} =>
         ts[t].path \in Path /\ (ts[t].sent > 0 => ts[t].at # "unopened")

(* The main thread waits for one operation at most, on its own account or   *)
(* for a transfer whose caller waits for the end of it.                     *)
MainOK ==
  /\ main.at = "idle" <=> main.op = none
  /\ main.at \in {"checksum", "mv", "rm"} <=> main.t # none
  /\ main.t # none => main.t \in handles
  /\ main.op # none => trans[main.op].op = main.at

IInv == /\ TypeOK /\ MainOK
        /\ Owned(trans, handles, main.op, lost, next)
        /\ Open(trans, locked, final)

-----------------------------------------------------------------------------
(* Records *)

Records == [Id -> Transaction]

LEMMA IdFacts == Id \subseteq Nat /\ none \notin Id /\ none \notin Path /\ \A t \in Id : t < MaxId
BY noneAssumption, MaxAssumption DEF Id

LEMMA NextId == ASSUME next \in 0..MaxId, next < MaxId
                PROVE  next \in Id /\ next + 1 \in 0..MaxId /\ \A t \in Id : next + 1 <= t <=> next <= t /\ t # next
BY MaxAssumption DEF Id

LEMMA BlankFacts == blank \in Transaction /\ 0 \in 0..Blocks
BY MaxAssumption DEF blank, Transaction, Content, Data

LEMMA NewFacts ==
  ASSUME NEW op \in Waits \cup {"put", "get"}, NEW p \in Path \cup {none}
  PROVE  LET x == newFtpTransaction(op, p)
         IN  /\ x \in Transaction
             /\ x.op = op /\ x.path = p /\ x.mem = "live" /\ ~x.done /\ x.waiting /\ x.running
             /\ x.sent = 0 /\ x.at = "unopened"
<1> DEFINE s == op \in {"put", "get"}
           x == [blank EXCEPT !.op = op, !.path = p, !.mem = "live", !.succeeded = s,
                              !.waiting = TRUE, !.running = TRUE]
<1>1. s \in BOOLEAN /\ newFtpTransaction(op, p) = x
  BY DEF newFtpTransaction
<1> HIDE DEF s
<1>2. x \in Transaction
  BY <1>1, BlankFacts DEF Transaction
<1>3. x.op = op /\ x.path = p /\ x.mem = "live" /\ x.waiting /\ x.running
  BY BlankFacts DEF Transaction
<1>4. ~x.done /\ x.sent = 0 /\ x.at = "unopened"
  BY DEF blank
<1>5. QED
  BY <1>1, <1>2, <1>3, <1>4

LEMMA FreedFacts ==
  ASSUME NEW x \in Transaction
  PROVE  /\ freed(x) \in Transaction
         /\ freed(x).mem = "freed" /\ ~freed(x).running /\ ~freed(x).waiting
         /\ freed(x).at = "unopened"
         /\ freed(x).op \in {"put", "get"} <=> x.op \in {"put", "get"}
<1> DEFINE o == IF x.op \in {"put", "get"} THEN x.op ELSE "none"
           y == [blank EXCEPT !.op = o, !.mem = "freed"]
<1>1. /\ o \in Waits \cup {"put", "get", "none"} /\ freed(x) = y
      /\ o \in {"put", "get"} <=> x.op \in {"put", "get"}
  BY DEF freed
<1> HIDE DEF o
<1>2. y \in Transaction /\ y.op = o /\ y.mem = "freed"
  BY <1>1, BlankFacts DEF Transaction
<1>3. ~y.running /\ ~y.waiting /\ y.at = "unopened"
  BY DEF blank
<1>4. QED
  BY <1>1, <1>2, <1>3

(* Destroying a record concerns that one only. *)
LEMMA DestroyFacts ==
  ASSUME NEW ts \in Records, NEW t \in Id
  PROVE  LET d == destroyFtpTransaction(ts, t)
         IN  /\ d \in Records
             /\ \A u \in Id : u # t => d[u] = ts[u]
             /\ ts[t].running => d[t] = [ts[t] EXCEPT !.mem = "leaked"]
             /\ ~ts[t].running => d[t] = freed(ts[t])
<1>1. ts[t] \in Transaction /\ [ts[t] EXCEPT !.mem = "leaked"] \in Transaction
  BY DEF Records, Transaction
<1>2. freed(ts[t]) \in Transaction
  BY <1>1, FreedFacts
<1>3. QED
  BY <1>1, <1>2 DEF destroyFtpTransaction, Records

(* A wait changes the record waited for only: it is freed, or left to the   *)
(* callback.                                                                *)
LEMMA WaitFacts ==
  ASSUME trans \in Records, NEW t \in Id, ~(trans[t].done /\ trans[t].running)
  PROVE  LET ts == waitOnFtp(t).ts
         IN  /\ ts \in Records
             /\ \A u \in Id : u # t => ts[u] = trans[u]
             /\ trans[t].done => ts[t] = freed(trans[t])
             /\ ~trans[t].done => ts[t] = [trans[t] EXCEPT !.waiting = FALSE]
             /\ waitOnFtp(t).ok => trans[t].done
<1>1. CASE trans[t].done
  <2>1. waitOnFtp(t).ts = destroyFtpTransaction(trans, t)
    BY <1>1 DEF waitOnFtp
  <2>2. ~trans[t].running
    BY <1>1
  <2>3. /\ destroyFtpTransaction(trans, t) \in Records
        /\ \A u \in Id : u # t => destroyFtpTransaction(trans, t)[u] = trans[u]
        /\ destroyFtpTransaction(trans, t)[t] = freed(trans[t])
    BY <2>2, DestroyFacts
  <2>4. QED
    BY <1>1, <2>1, <2>3
<1>2. CASE ~trans[t].done
  <2>1. waitOnFtp(t).ts = [trans EXCEPT ![t].waiting = FALSE] /\ waitOnFtp(t).ok = FALSE
    BY <1>2 DEF waitOnFtp
  <2>2. [trans[t] EXCEPT !.waiting = FALSE] \in Transaction
    BY DEF Records, Transaction
  <2>3. QED
    BY <1>2, <2>1, <2>2 DEF Records
<1>3. QED BY <1>1, <1>2

(* The callback changes its own record only. *)
LEMMA CallbackFacts ==
  ASSUME NEW ts \in Records, NEW t \in Id, NEW ok \in BOOLEAN
  PROVE  LET c == callback(ts, t, ok)
         IN  /\ c \in Records
             /\ \A u \in Id : u # t => c[u] = ts[u]
             /\ ts[t].waiting => /\ c[t].op = ts[t].op /\ c[t].path = ts[t].path
                                 /\ c[t].mem = ts[t].mem /\ c[t].waiting /\ c[t].done
                                 /\ ~c[t].running /\ c[t].at = "unopened"
             /\ ~ts[t].waiting => /\ c[t].mem = "freed" /\ ~c[t].running /\ c[t].at = "unopened"
                                  /\ c[t].op \in {"put", "get"} <=> ts[t].op \in {"put", "get"}
<1> DEFINE x == [ts[t] EXCEPT !.running = FALSE, !.done = TRUE,
                              !.succeeded = ok, !.sent = 0, !.at = "unopened"]
           over == [ts EXCEPT ![t] = x]
<1>1. /\ x \in Transaction /\ x.op = ts[t].op /\ x.path = ts[t].path /\ x.mem = ts[t].mem
      /\ x.waiting = ts[t].waiting /\ x.done /\ ~x.running /\ x.at = "unopened"
  <2>1. ts[t] \in Transaction
    BY DEF Records
  <2>2. x \in Transaction
    BY <2>1, BlankFacts DEF Transaction
  <2>3. x.op = ts[t].op /\ x.path = ts[t].path /\ x.mem = ts[t].mem /\ x.waiting = ts[t].waiting
    BY <2>1 DEF Transaction
  <2>4. x.done
    BY <2>1 DEF Transaction
  <2>5. ~x.running
    BY <2>1 DEF Transaction
  <2>6. x.at = "unopened"
    BY <2>1 DEF Transaction
  <2>7. QED
    BY <2>2, <2>3, <2>4, <2>5, <2>6
<1>2. over \in Records /\ over[t] = x /\ \A u \in Id : u # t => over[u] = ts[u]
  BY <1>1 DEF Records
<1>3. callback(ts, t, ok) = IF ts[t].waiting THEN over ELSE destroyFtpTransaction(over, t)
  BY DEF callback
<1> HIDE DEF over, x
<1>4. CASE ts[t].waiting
  BY <1>1, <1>2, <1>3, <1>4
<1>5. CASE ~ts[t].waiting
  <2>1. callback(ts, t, ok) = destroyFtpTransaction(over, t)
    BY <1>3, <1>5
  <2>2. /\ destroyFtpTransaction(over, t) \in Records
        /\ \A u \in Id : u # t => destroyFtpTransaction(over, t)[u] = ts[u]
        /\ destroyFtpTransaction(over, t)[t] = freed(x)
    <3>1. over \in Records /\ ~over[t].running
      BY <1>1, <1>2
    <3>2. /\ destroyFtpTransaction(over, t) \in Records
          /\ \A u \in Id : u # t => destroyFtpTransaction(over, t)[u] = over[u]
          /\ destroyFtpTransaction(over, t)[t] = freed(over[t])
      BY <3>1, DestroyFacts
    <3>3. QED BY <1>2, <3>2
  <2>3. QED
    BY <1>1, <1>5, <2>1, <2>2, FreedFacts
<1>6. QED BY <1>4, <1>5

(* Moving a file concerns what the records that have it open make of it.    *)
LEMMA MovedFacts ==
  ASSUME NEW ts \in Records, NEW p \in Path, NEW from,
         NEW to \in {"locked", "final", "gone"}
  PROVE  LET m == moved(ts, p, from, to)
         IN  /\ m \in Records
             /\ \A u \in Id : /\ Same(m[u], ts[u]) /\ m[u].sent = ts[u].sent
                              /\ m[u].succeeded = ts[u].succeeded
                              /\ m[u].at = IF ts[u].path = p /\ ts[u].at = from THEN to ELSE ts[u].at
BY DEF moved, Records, Transaction, Same

LEMMA RenamedFacts ==
  ASSUME NEW ts \in Records, NEW p \in Path
  PROVE  LET m == renamed(ts, p)
         IN  /\ m \in Records
             /\ \A u \in Id : /\ Same(m[u], ts[u]) /\ m[u].sent = ts[u].sent
                              /\ m[u].succeeded = ts[u].succeeded
                              /\ m[u].at = IF ts[u].path # p THEN ts[u].at
                                           ELSE IF ts[u].at = "final" THEN "gone"
                                           ELSE IF ts[u].at = "locked" THEN "final" ELSE ts[u].at
<1> DEFINE m1 == moved(ts, p, "final", "gone")
<1>1. /\ m1 \in Records
      /\ \A u \in Id : /\ Same(m1[u], ts[u]) /\ m1[u].sent = ts[u].sent
                       /\ m1[u].succeeded = ts[u].succeeded
                       /\ m1[u].at = IF ts[u].path = p /\ ts[u].at = "final" THEN "gone" ELSE ts[u].at
  BY MovedFacts
<1> HIDE DEF m1
<1>2. /\ moved(m1, p, "locked", "final") \in Records
      /\ \A u \in Id : /\ Same(moved(m1, p, "locked", "final")[u], m1[u])
                       /\ moved(m1, p, "locked", "final")[u].sent = m1[u].sent
                       /\ moved(m1, p, "locked", "final")[u].succeeded = m1[u].succeeded
                       /\ moved(m1, p, "locked", "final")[u].at =
                            IF m1[u].path = p /\ m1[u].at = "locked" THEN "final" ELSE m1[u].at
  BY <1>1, MovedFacts
<1>3. renamed(ts, p) = moved(m1, p, "locked", "final")
  BY DEF renamed, m1
<1>4. QED
  BY <1>1, <1>2, <1>3 DEF Same

-----------------------------------------------------------------------------
(* What these do to the ownership of records and to open files *)

LEMMA SameOwned ==
  ASSUME NEW ts, NEW us, NEW hs, NEW op, NEW l, NEW k,
         Owned(ts, hs, op, l, k), \A u \in Id : Same(us[u], ts[u])
  PROVE  Owned(us, hs, op, l, k)
BY DEF Owned, Same

(* A new record in the list, that the main thread waits for. *)
LEMMA BeginOwned ==
  ASSUME NEW ts \in Records, NEW hs, NEW l, next \in 0..MaxId, next < MaxId,
         Owned(ts, hs, none, l, next),
         NEW x \in Transaction, x.op \in Waits, x.mem = "live", ~x.done, x.waiting, x.running,
         x.op # "call" => x.path \in Path
  PROVE  Owned([ts EXCEPT ![next] = x], hs, next, l, next + 1)
<1>1. /\ [ts EXCEPT ![next] = x][next] = x
      /\ \A u \in Id : u # next => [ts EXCEPT ![next] = x][u] = ts[u]
  BY NextId DEF Records
<1> DEFINE us == [ts EXCEPT ![next] = x]
<1> HIDE DEF us
<1>2. SUFFICES Owned(us, hs, next, l, next + 1)
  BY DEF us
<1>3. next \notin hs
  BY NextId, IdFacts DEF Owned
<1>4. us[next] = x /\ \A u \in Id : u # next => us[u] = ts[u]
  BY <1>1 DEF us
<1>5. \A u \in Id : u # none
  BY IdFacts
<1>6. QED
  BY <1>3, <1>4, <1>5, NextId, IdFacts DEF Owned, Waits

(* A new record that is a caller's (g the set of it), or nobody's. *)
LEMMA StartOwned ==
  ASSUME NEW ts \in Records, NEW hs, NEW l, next \in 0..MaxId, next < MaxId,
         Owned(ts, hs, none, l, next),
         NEW x \in Transaction, NEW g \in {{}, {next}}, NEW m \in SUBSET Id, l \subseteq m,
         x.mem \in {"live", "freed", "leaked"}, x.running => ~x.done,
         x.mem = "freed" => ~x.running,
         x.mem # "freed" => x.waiting /\ x.running /\ x.path \in Path,
         g # {} => x.mem = "live" /\ x.op \in {"put", "get"},
         g = {} /\ x.mem # "freed" => next \in m
  PROVE  Owned([ts EXCEPT ![next] = x], hs \cup g, none, m, next + 1)
<1>1. /\ [ts EXCEPT ![next] = x][next] = x
      /\ \A u \in Id : u # next => [ts EXCEPT ![next] = x][u] = ts[u]
  BY NextId DEF Records
<1> DEFINE us == [ts EXCEPT ![next] = x]
<1> HIDE DEF us
<1>2. SUFFICES Owned(us, hs \cup g, none, m, next + 1)
  BY DEF us
<1>3. next \notin hs
  BY NextId, IdFacts DEF Owned
<1>4. us[next] = x /\ \A u \in Id : u # next => us[u] = ts[u]
  BY <1>1 DEF us
<1>5. \A u \in Id : u # none
  BY IdFacts
<1>6. \A u \in Id : u # next => (u \in hs \cup g <=> u \in hs)
  OBVIOUS
<1>7. QED
  BY <1>3, <1>4, <1>5, <1>6, NextId, IdFacts DEF Owned

LEMMA WaitOwned ==
  ASSUME trans \in Records, NEW hs, NEW l, NEW k, NEW op \in Id,
         Owned(trans, hs, op, l, k)
  PROVE  /\ waitOnFtp(op).ts \in Records
         /\ \A u \in Id : u # op => waitOnFtp(op).ts[u] = trans[u]
         /\ Owned(waitOnFtp(op).ts, hs, none, l, k)
<1>1. ~(trans[op].done /\ trans[op].running)
  BY DEF Owned
<1>2. /\ waitOnFtp(op).ts \in Records
      /\ \A u \in Id : u # op => waitOnFtp(op).ts[u] = trans[u]
      /\ trans[op].done => waitOnFtp(op).ts[op] = freed(trans[op])
      /\ ~trans[op].done => waitOnFtp(op).ts[op] = [trans[op] EXCEPT !.waiting = FALSE]
  BY <1>1, WaitFacts
<1> DEFINE us == waitOnFtp(op).ts
<1> HIDE DEF us
<1>3. op \notin hs
  BY DEF Owned, Waits
<1>4. \A u \in Id : u # none
  BY IdFacts
<1>5. CASE trans[op].done
  <2>1. trans[op] \in Transaction /\ us[op] = freed(trans[op])
    BY <1>2, <1>5 DEF us, Records
  <2>2. us[op].mem = "freed" /\ ~us[op].running
    BY <2>1, FreedFacts
  <2>3. Owned(us, hs, none, l, k)
    BY <1>2, <1>3, <1>4, <2>2 DEF Owned, us
  <2>4. QED BY <1>2, <2>3 DEF us
<1>6. CASE ~trans[op].done
  <2>1. /\ us[op].op = trans[op].op /\ us[op].path = trans[op].path
        /\ us[op].mem = "live" /\ ~us[op].done
        /\ ~us[op].waiting /\ us[op].running
    BY <1>2, <1>6 DEF us, Owned, Records, Transaction
  <2>2. Owned(us, hs, none, l, k)
    BY <1>2, <1>3, <1>4, <2>1 DEF Owned, us
  <2>3. QED BY <1>2, <2>2 DEF us
<1>7. QED BY <1>5, <1>6

LEMMA EndOwned ==
  ASSUME NEW ts \in Records, NEW hs, NEW l \in SUBSET Id, NEW k, NEW t \in Id, t \in hs,
         Owned(ts, hs, none, l, k)
  PROVE  Owned(destroyFtpTransaction(ts, t), hs \ {t}, none,
               IF ts[t].running THEN l \cup {t} ELSE l, k)
<1> DEFINE us == destroyFtpTransaction(ts, t)
           m == IF ts[t].running THEN l \cup {t} ELSE l
<1>1. /\ \A u \in Id : u # t => us[u] = ts[u]
      /\ ts[t].running => us[t] = [ts[t] EXCEPT !.mem = "leaked"]
      /\ ~ts[t].running => us[t] = freed(ts[t])
  BY DestroyFacts
<1>2. ts[t] \in Transaction /\ ts[t].mem = "live" /\ ts[t].waiting /\ (ts[t].running => ~ts[t].done)
  BY DEF Records, Owned
<1> HIDE DEF us
<1>3. /\ ts[t].running => /\ us[t].mem = "leaked" /\ us[t].running /\ us[t].waiting
                          /\ ~us[t].done /\ us[t].op = ts[t].op /\ us[t].path = ts[t].path
      /\ ~ts[t].running => us[t].mem = "freed" /\ ~us[t].running
  BY <1>1, <1>2, FreedFacts DEF Transaction
<1>4. \A u \in Id : u # none
  BY IdFacts
<1>5. l \subseteq m /\ (ts[t].running => t \in m)
  OBVIOUS
<1>6. ~(k <= t)
  BY <1>2 DEF Owned
<1> HIDE DEF m
<1>7. Owned(us, hs \ {t}, none, m, k)
  BY <1>1, <1>3, <1>4, <1>5, <1>6 DEF Owned
<1>8. QED BY <1>7 DEF us, m

LEMMA CallbackOwned ==
  ASSUME NEW ts \in Records, NEW hs, NEW op, NEW l, NEW k, NEW t \in Id, NEW ok \in BOOLEAN,
         Owned(ts, hs, op, l, k), ts[t].running
  PROVE  Owned(callback(ts, t, ok), hs, op, l, k)
<1> DEFINE us == callback(ts, t, ok)
<1>1. /\ \A u \in Id : u # t => us[u] = ts[u]
      /\ ts[t].waiting => /\ us[t].op = ts[t].op /\ us[t].path = ts[t].path /\ us[t].mem = ts[t].mem
                          /\ us[t].waiting /\ us[t].done /\ ~us[t].running
      /\ ~ts[t].waiting => us[t].mem = "freed" /\ ~us[t].running
  BY CallbackFacts
<1> HIDE DEF us
<1>2. ts[t] \in Transaction /\ ts[t].mem \in {"live", "leaked"}
  BY DEF Records, Owned, Transaction
<1>3. CASE ts[t].waiting
  <2>1. Owned(us, hs, op, l, k)
    BY <1>1, <1>2, <1>3 DEF Owned
  <2>2. QED BY <2>1 DEF us
<1>4. CASE ~ts[t].waiting
  <2>1. ~(k <= t) /\ t \notin hs /\ t # op /\ us[t].mem = "freed" /\ ~us[t].running
    BY <1>1, <1>2, <1>4 DEF Owned
  <2>2. Owned(us, hs, op, l, k)
    BY <1>1, <2>1 DEF Owned
  <2>3. QED BY <2>2 DEF us
<1>5. QED BY <1>3, <1>4

(* A record that has not come to have a file open. *)
LEMMA KeptOpen ==
  ASSUME NEW ts, NEW us, NEW lo, NEW fi, Open(ts, lo, fi),
         \A u \in Id :
            \/ /\ us[u].at = "unopened"
               /\ us[u].running /\ us[u].op \in {"put", "get"} =>
                    us[u].path \in Path /\ us[u].sent = 0
            \/ /\ us[u].at = ts[u].at /\ us[u].path = ts[u].path /\ us[u].sent = ts[u].sent
               /\ us[u].op = ts[u].op /\ (us[u].running => ts[u].running)
  PROVE  Open(us, lo, fi)
BY DEF Open

LEMMA WaitOpen ==
  ASSUME trans \in Records, NEW op \in Id, ~(trans[op].done /\ trans[op].running),
         NEW lo, NEW fi, Open(trans, lo, fi)
  PROVE  Open(waitOnFtp(op).ts, lo, fi)
<1> DEFINE us == waitOnFtp(op).ts
<1>1. /\ \A u \in Id : u # op => us[u] = trans[u]
      /\ trans[op].done => us[op] = freed(trans[op])
      /\ ~trans[op].done => us[op] = [trans[op] EXCEPT !.waiting = FALSE]
  BY WaitFacts
<1>2. trans[op] \in Transaction
  BY DEF Records
<1> HIDE DEF us
<1>3. \/ us[op].at = "unopened" /\ ~us[op].running
      \/ /\ us[op].at = trans[op].at /\ us[op].path = trans[op].path /\ us[op].sent = trans[op].sent
         /\ us[op].op = trans[op].op /\ us[op].running = trans[op].running
  BY <1>1, <1>2, FreedFacts DEF Transaction
<1>4. Open(us, lo, fi)
  BY <1>1, <1>3, KeptOpen
<1>5. QED BY <1>4 DEF us

LEMMA DestroyOpen ==
  ASSUME NEW ts \in Records, NEW t \in Id, NEW lo, NEW fi, Open(ts, lo, fi)
  PROVE  Open(destroyFtpTransaction(ts, t), lo, fi)
<1> DEFINE us == destroyFtpTransaction(ts, t)
<1>1. /\ \A u \in Id : u # t => us[u] = ts[u]
      /\ ts[t].running => us[t] = [ts[t] EXCEPT !.mem = "leaked"]
      /\ ~ts[t].running => us[t] = freed(ts[t])
  BY DestroyFacts
<1>2. ts[t] \in Transaction
  BY DEF Records
<1> HIDE DEF us
<1>3. \/ us[t].at = "unopened" /\ ~us[t].running
      \/ /\ us[t].at = ts[t].at /\ us[t].path = ts[t].path /\ us[t].sent = ts[t].sent
         /\ us[t].op = ts[t].op /\ us[t].running = ts[t].running
  BY <1>1, <1>2, FreedFacts DEF Transaction
<1>4. Open(us, lo, fi)
  BY <1>1, <1>3, KeptOpen
<1>5. QED BY <1>4 DEF us

LEMMA CallbackOpen ==
  ASSUME NEW ts \in Records, NEW t \in Id, NEW ok \in BOOLEAN, NEW lo, NEW fi, Open(ts, lo, fi)
  PROVE  Open(callback(ts, t, ok), lo, fi)
<1> DEFINE us == callback(ts, t, ok)
<1>1. /\ \A u \in Id : u # t => us[u] = ts[u]
      /\ us[t].at = "unopened" /\ ~us[t].running
  <2>1. /\ \A u \in Id : u # t => us[u] = ts[u]
        /\ ts[t].waiting => us[t].at = "unopened" /\ ~us[t].running
        /\ ~ts[t].waiting => us[t].at = "unopened" /\ ~us[t].running
    BY CallbackFacts
  <2>2. QED BY <2>1
<1> HIDE DEF us
<1>2. Open(us, lo, fi)
  BY <1>1, KeptOpen
<1>3. QED BY <1>2 DEF us

(* <path>-LOCKED, or the file itself, is no longer there. *)
LEMMA RemovedOpen ==
  ASSUME NEW ts \in Records, NEW p \in Path, NEW lo \in [Path -> Content],
         NEW fi \in [Path -> Content], Open(ts, lo, fi)
  PROVE  /\ Open(moved(ts, p, "locked", "gone"), [lo EXCEPT ![p] = none], fi)
         /\ Open(moved(ts, p, "final", "gone"), lo, [fi EXCEPT ![p] = none])
<1>1. ASSUME NEW from \in {"locked", "final"}, NEW us, us = moved(ts, p, from, "gone"), NEW u \in Id
      PROVE  /\ us[u].op = ts[u].op /\ us[u].path = ts[u].path /\ us[u].running = ts[u].running
             /\ us[u].sent = ts[u].sent
             /\ us[u].at = IF ts[u].path = p /\ ts[u].at = from THEN "gone" ELSE ts[u].at
  BY <1>1, MovedFacts DEF Same
<1>2. Open(moved(ts, p, "locked", "gone"), [lo EXCEPT ![p] = none], fi)
  <2> DEFINE us == moved(ts, p, "locked", "gone")
  <2>1. \A u \in Id :
             /\ us[u].op = ts[u].op /\ us[u].path = ts[u].path /\ us[u].running = ts[u].running
             /\ us[u].sent = ts[u].sent
             /\ us[u].at = IF ts[u].path = p /\ ts[u].at = "locked" THEN "gone" ELSE ts[u].at
    BY <1>1
  <2> HIDE DEF us
  <2>2. Open(us, [lo EXCEPT ![p] = none], fi)
    BY <2>1 DEF Open
  <2>3. QED BY <2>2 DEF us
<1>3. Open(moved(ts, p, "final", "gone"), lo, [fi EXCEPT ![p] = none])
  <2> DEFINE us == moved(ts, p, "final", "gone")
  <2>1. \A u \in Id :
             /\ us[u].op = ts[u].op /\ us[u].path = ts[u].path /\ us[u].running = ts[u].running
             /\ us[u].sent = ts[u].sent
             /\ us[u].at = IF ts[u].path = p /\ ts[u].at = "final" THEN "gone" ELSE ts[u].at
    BY <1>1
  <2> HIDE DEF us
  <2>2. Open(us, lo, [fi EXCEPT ![p] = none])
    BY <2>1 DEF Open
  <2>3. QED BY <2>2 DEF us
<1>4. QED BY <1>2, <1>3

(* <path>-LOCKED has become the file. *)
LEMMA RenamedOpen ==
  ASSUME NEW ts \in Records, NEW p \in Path, NEW lo \in [Path -> Content],
         NEW fi \in [Path -> Content], lo[p] # none, Open(ts, lo, fi)
  PROVE  Open(renamed(ts, p), [lo EXCEPT ![p] = none], [fi EXCEPT ![p] = lo[p]])
<1> DEFINE us == renamed(ts, p)
           li == [lo EXCEPT ![p] = none]
           fl == [fi EXCEPT ![p] = lo[p]]
<1>1. \A u \in Id :
        /\ us[u].op = ts[u].op /\ us[u].path = ts[u].path /\ us[u].running = ts[u].running
        /\ us[u].sent = ts[u].sent
        /\ us[u].at = IF ts[u].path # p THEN ts[u].at
                      ELSE IF ts[u].at = "final" THEN "gone"
                      ELSE IF ts[u].at = "locked" THEN "final" ELSE ts[u].at
  BY RenamedFacts DEF Same
<1>2. /\ \A q \in Path : q # p => li[q] = lo[q] /\ fl[q] = fi[q]
      /\ fl[p] = lo[p]
  OBVIOUS
<1> HIDE DEF us, li, fl
<1>3. Open(us, li, fl)
  BY <1>1, <1>2 DEF Open
<1>4. QED BY <1>3 DEF us, li, fl

-----------------------------------------------------------------------------
(* Steps of the main thread that begin an operation, and that end a transfer *)

LEMMA BeginStep ==
  ASSUME NEW ts \in Records, NEW op \in Waits, NEW p \in Path \cup {none},
         NEW t \in Id \cup {none}, NEW hs, NEW l, NEW lo, NEW fi, next \in 0..MaxId,
         Owned(ts, hs, none, l, next), Open(ts, lo, fi), begin(ts, op, p, t),
         op # "call" => p \in Path
  PROVE  /\ trans' \in Records /\ next' \in 0..MaxId /\ next \in Id
         /\ main' \in Main /\ main' = [at |-> op, op |-> next, t |-> t]
         /\ Owned(trans', hs, main'.op, l, next') /\ Open(trans', lo, fi)
         /\ trans'[next].op = op /\ ts[next].op = "none"
         /\ \A u \in Id : u # next => trans'[u] = ts[u]
<1> DEFINE x == newFtpTransaction(op, p)
<1>1. /\ x \in Transaction /\ x.op = op /\ x.mem = "live" /\ ~x.done /\ x.waiting /\ x.running
      /\ x.at = "unopened" /\ x.path = p
  BY NewFacts
<1>2. /\ next < MaxId /\ next' = next + 1 /\ trans' = [ts EXCEPT ![next] = x]
      /\ main' = [at |-> op, op |-> next, t |-> t]
  BY DEF begin
<1> HIDE DEF x
<1>3. next \in Id /\ next' \in 0..MaxId
  BY <1>2, NextId
<1>4. trans' \in Records /\ trans'[next] = x /\ \A u \in Id : u # next => trans'[u] = ts[u]
  BY <1>1, <1>2, <1>3 DEF Records
<1>5. main' \in Main /\ main'.op = next
  BY <1>2, <1>3 DEF Main
<1>6. Owned(trans', hs, next, l, next + 1)
  BY <1>1, <1>2, BeginOwned
<1>7. Open(trans', lo, fi)
  BY <1>1, <1>3, <1>4, KeptOpen DEF Waits
<1>8. ts[next].op = "none"
  BY <1>3, IdFacts DEF Owned
<1>9. QED
  BY <1>1, <1>2, <1>3, <1>4, <1>5, <1>6, <1>7, <1>8

LEMMA EndStep ==
  ASSUME NEW ts \in Records, NEW t \in Id, t \in handles, NEW lo, NEW fi, lost \in SUBSET Id,
         Owned(ts, handles, none, lost, next), Open(ts, lo, fi),
         ts[t].running = trans[t].running, ended(ts, t)
  PROVE  /\ trans' \in Records /\ handles' = handles \ {t} /\ lost' \in SUBSET Id /\ main' = idle
         /\ Owned(trans', handles', none, lost', next) /\ Open(trans', lo, fi)
         /\ trans'[t].op \in {"put", "get"}
         /\ \A u \in Id : u # t => trans'[u] = ts[u]
<1>1. /\ trans' = destroyFtpTransaction(ts, t) /\ handles' = handles \ {t} /\ main' = idle
      /\ lost' = IF ts[t].running THEN lost \cup {t} ELSE lost
  BY DEF ended, running
<1>2. Owned(trans', handles', none, lost', next)
  BY <1>1, EndOwned
<1>3. Open(trans', lo, fi)
  BY <1>1, DestroyOpen
<1>4. /\ trans' \in Records /\ \A u \in Id : u # t => trans'[u] = ts[u]
      /\ ts[t].running => trans'[t] = [ts[t] EXCEPT !.mem = "leaked"]
      /\ ~ts[t].running => trans'[t] = freed(ts[t])
  BY <1>1, DestroyFacts
<1>5. ts[t] \in Transaction /\ ts[t].op \in {"put", "get"}
  BY DEF Records, Owned
<1>6. trans'[t].op \in {"put", "get"}
  BY <1>4, <1>5, FreedFacts DEF Transaction
<1>7. QED
  BY <1>1, <1>2, <1>3, <1>4, <1>6

(* What idle says of the main thread. *)
LEMMA IdleMain == /\ idle \in Main /\ idle.at = "idle" /\ idle.op = none /\ idle.t = none
BY DEF idle, Main

(* A step that leaves files and history alone. *)
FilesTypes == /\ locked \in [Path -> Content] /\ final \in [Path -> Content]
              /\ told \in [Path -> Id \cup {none}] /\ overlapped \in SUBSET Path
              /\ unmoved \in SUBSET Path

LEMMA Types == TypeOK <=> /\ FilesTypes /\ trans \in Records /\ next \in 0..MaxId
                          /\ handles \in SUBSET Id /\ main \in Main /\ lost \in SUBSET Id
BY DEF TypeOK, FilesTypes, Records

LEMMA TypesNext == TypeOK' <=> /\ FilesTypes' /\ trans' \in Records /\ next' \in 0..MaxId
                               /\ handles' \in SUBSET Id /\ main' \in Main /\ lost' \in SUBSET Id
BY DEF TypeOK, FilesTypes, Records

LEMMA InitInv == Init => IInv
<1> SUFFICES ASSUME Init PROVE IInv
  OBVIOUS
<1>1. trans \in Records /\ \A t \in Id : trans[t] = blank
  BY BlankFacts DEF Init, Records
<1>2. main = idle /\ handles = {} /\ lost = {} /\ next = 0
  BY DEF Init
<1>3. FilesTypes
  BY DEF Init, FilesTypes, Content
<1>4. TypeOK
  BY <1>1, <1>2, <1>3, Types, IdleMain, MaxAssumption
<1>5. MainOK
  BY <1>2, IdleMain DEF MainOK
<1>6. Owned(trans, handles, main.op, lost, next)
  BY <1>1, <1>2, IdleMain, IdFacts DEF Owned, blank
<1>7. Open(trans, locked, final)
  BY <1>1 DEF Open, blank
<1>8. QED BY <1>4, <1>5, <1>6, <1>7 DEF IInv

(* The main thread is back from a wait, or waits for the next operation. *)
LEMMA IdleNow ==
  ASSUME main' = idle, trans' \in Records, handles' \in SUBSET Id, lost' \in SUBSET Id,
         next' \in 0..MaxId, FilesTypes',
         Owned(trans', handles', none, lost', next'), Open(trans', locked', final')
  PROVE  IInv'
<1>1. TypeOK'
  BY TypesNext, IdleMain
<1>2. MainOK'
  BY IdleMain DEF MainOK
<1>3. QED BY <1>1, <1>2, IdleMain DEF IInv

LEMMA WaitsNow ==
  ASSUME NEW ts \in Records, NEW op \in Waits, NEW p \in Path \cup {none},
         NEW t \in Id \cup {none}, next \in 0..MaxId,
         Owned(ts, handles', none, lost', next), Open(ts, locked', final'), begin(ts, op, p, t),
         handles' \in SUBSET Id, lost' \in SUBSET Id, FilesTypes',
         op \in {"checksum", "mv", "rm"} <=> t # none, t # none => t \in handles',
         op # "call" => p \in Path
  PROVE  IInv'
<1>1. /\ trans' \in Records /\ next' \in 0..MaxId /\ next \in Id
      /\ main' \in Main /\ main' = [at |-> op, op |-> next, t |-> t]
      /\ Owned(trans', handles', main'.op, lost', next') /\ Open(trans', locked', final')
      /\ trans'[next].op = op
  BY BeginStep
<1>2. TypeOK'
  BY <1>1, TypesNext
<1>3. main'.at = op /\ main'.op = next /\ main'.t = t
  BY <1>1
<1>4. MainOK'
  BY <1>1, <1>3, IdFacts DEF MainOK, Waits
<1>5. QED BY <1>1, <1>2, <1>4 DEF IInv

LEMMA EndedNow ==
  ASSUME NEW ts \in Records, NEW t \in Id, t \in handles, lost \in SUBSET Id,
         handles \in SUBSET Id, next' \in 0..MaxId, next' = next, FilesTypes',
         Owned(ts, handles, none, lost, next), Open(ts, locked', final'),
         ts[t].running = trans[t].running, ended(ts, t)
  PROVE  IInv'
<1>1. /\ trans' \in Records /\ handles' = handles \ {t} /\ lost' \in SUBSET Id /\ main' = idle
      /\ Owned(trans', handles', none, lost', next) /\ Open(trans', locked', final')
  BY EndStep
<1>2. QED BY <1>1, IdleNow

-----------------------------------------------------------------------------
(* Every action keeps the invariant *)

LEMMA Invariants ==
  ASSUME IInv
  PROVE  /\ FilesTypes /\ trans \in Records /\ next \in 0..MaxId /\ handles \in SUBSET Id
         /\ main \in Main /\ lost \in SUBSET Id /\ MainOK
         /\ Owned(trans, handles, main.op, lost, next) /\ Open(trans, locked, final)
         /\ main = idle => main.op = none
         /\ main.at # "idle" => main.op \in Id
BY Types, IdleMain DEF IInv, MainOK, Main

LEMMA PathOf ==
  ASSUME trans \in Records, NEW t \in Id
  PROVE  trans[t] \in Transaction /\ trans[t].path \in Path \cup {none}
BY DEF Records, Transaction

(* A transfer in the hands of a caller has a path. *)
LEMMA WaitInv ==
  ASSUME IInv, callReturns \/ checksumReturns \/ moveReturns \/ removalReturns
  PROVE  IInv'
<1>0. /\ FilesTypes /\ trans \in Records /\ next \in 0..MaxId /\ handles \in SUBSET Id
      /\ main \in Main /\ lost \in SUBSET Id /\ MainOK
      /\ Owned(trans, handles, main.op, lost, next) /\ Open(trans, locked, final)
      /\ main.at # "idle" => main.op \in Id
  BY Invariants
<1>1. main.at # "idle"
  BY DEF callReturns, checksumReturns, moveReturns, removalReturns
<1>2. main.op \in Id
  BY <1>0, <1>1
<1> DEFINE ts == waitOnFtp(main.op).ts
<1>3. /\ ts \in Records /\ Owned(ts, handles, none, lost, next)
      /\ \A u \in Id : u # main.op => ts[u] = trans[u]
  BY <1>0, <1>2, WaitOwned
<1>4. Open(ts, locked, final)
  <2>1. ~(trans[main.op].done /\ trans[main.op].running)
    BY <1>0, <1>2 DEF Owned
  <2>2. QED BY <1>0, <1>2, <2>1, WaitOpen
<1>5. CASE callReturns
  <2>1. /\ trans' = ts /\ main' = idle /\ UNCHANGED <<next, handles, lost>>
        /\ FilesTypes'
    BY <1>0, <1>5 DEF callReturns, files, history, FilesTypes
  <2>2. QED
    <3> HIDE DEF ts
    <3>1. Open(trans', locked', final')
      BY <1>4, <1>5, <2>1 DEF callReturns, files
    <3>2. QED BY <1>0, <1>3, <2>1, <3>1, IdleNow
<1>6. CASE checksumReturns
  <2>1. /\ main.t \in handles /\ main.t \in Id /\ main.t # main.op
        /\ UNCHANGED <<locked, final>> /\ FilesTypes'
    BY <1>0, <1>2, <1>6, IdFacts DEF checksumReturns, MainOK, Owned, Waits, files, FilesTypes
  <2>2. CASE begin(ts, IF sameChecksum(trans[main.op].seen, main.t) THEN "mv" ELSE "rm",
                   trans[main.t].path, main.t) /\ UNCHANGED <<handles, lost>>
    <3> DEFINE op == IF sameChecksum(trans[main.op].seen, main.t) THEN "mv" ELSE "rm"
    <3>1. op \in Waits /\ op \in {"checksum", "mv", "rm"} /\ main.t # none
      BY <2>1, IdFacts DEF Waits
    <3>2. begin(ts, op, trans[main.t].path, main.t)
      BY <2>2
    <3> HIDE DEF op, ts
    <3>3. trans[main.t].path \in Path
      BY <1>0, <2>1 DEF Owned
    <3>4. QED BY <1>0, <1>3, <1>4, <2>1, <2>2, <3>1, <3>2, <3>3, WaitsNow
  <2>3. CASE ended(ts, main.t) /\ UNCHANGED next
    <3>1. ts[main.t].running = trans[main.t].running
      BY <1>3, <2>1
    <3> HIDE DEF ts
    <3>2. QED BY <1>0, <1>3, <1>4, <2>1, <2>3, <3>1, EndedNow
  <2>4. QED BY <1>6, <2>2, <2>3 DEF checksumReturns
<1>7. CASE moveReturns
  <2>1. /\ main.t \in handles /\ main.t \in Id /\ main.t # main.op
        /\ UNCHANGED <<locked, final>> /\ UNCHANGED next
    BY <1>0, <1>2, <1>7, IdFacts DEF moveReturns, MainOK, Owned, Waits, files
  <2>2. FilesTypes'
    <3>1. /\ trans[main.t].path \in Path => told' \in [Path -> Id \cup {none}]
          /\ trans[main.t].path \notin Path => told' = told
          /\ UNCHANGED <<overlapped, unmoved>>
      BY <1>0, <1>7, <2>1 DEF moveReturns, FilesTypes
    <3>2. QED BY <1>0, <2>1, <3>1 DEF FilesTypes
  <2>3. ended(ts, main.t) /\ ts[main.t].running = trans[main.t].running
    BY <1>3, <1>7, <2>1 DEF moveReturns
  <2> HIDE DEF ts
  <2>4. QED BY <1>0, <1>3, <1>4, <2>1, <2>2, <2>3, EndedNow
<1>8. CASE removalReturns
  <2>1. UNCHANGED <<handles, locked, final, lost>> /\ FilesTypes'
    BY <1>0, <1>8 DEF removalReturns, files, history, FilesTypes
  <2>2. CASE begin(ts, "rmFinal", trans[main.op].path, none)
    <3> HIDE DEF ts
    <3>1. trans[main.op].path \in Path
      BY <1>0, <1>2, <1>8, IdFacts DEF Owned, MainOK, removalReturns
    <3>2. "rmFinal" \in Waits
      BY DEF Waits
    <3>3. QED BY <1>0, <1>3, <1>4, <2>1, <2>2, <3>1, <3>2, WaitsNow
  <2>3. CASE trans' = ts /\ main' = idle /\ UNCHANGED next
    <3> HIDE DEF ts
    <3>1. QED BY <1>0, <1>3, <1>4, <2>1, <2>3, IdleNow
  <2>4. QED BY <1>8, <2>2, <2>3 DEF removalReturns
<1>9. QED BY <1>5, <1>6, <1>7, <1>8

LEMMA CallInv ==
  ASSUME IInv, call
  PROVE  IInv'
<1>0. /\ FilesTypes /\ trans \in Records /\ next \in 0..MaxId /\ handles \in SUBSET Id
      /\ lost \in SUBSET Id
      /\ Owned(trans, handles, main.op, lost, next) /\ Open(trans, locked, final)
      /\ main = idle => main.op = none
  BY Invariants
<1>1. /\ main.op = none /\ begin(trans, "call", none, none)
      /\ UNCHANGED <<handles, locked, final, lost>> /\ FilesTypes' /\ "call" \in Waits
  BY <1>0 DEF call, files, history, FilesTypes, Waits
<1>2. QED BY <1>0, <1>1, WaitsNow

(* The five ways in which a transfer starts. *)
LEMMA StartInv ==
  ASSUME IInv,
         NEW op \in {"put", "get"}, NEW p \in Path, mayStart(p),
         NEW x \in Transaction, NEW g \in {{}, {next}}, NEW m \in SUBSET Id, lost \subseteq m,
         x.mem \in {"live", "freed", "leaked"}, x.running => ~x.done, x.at = "unopened",
         x.mem = "freed" => ~x.running,
         x.mem # "freed" => x.waiting /\ x.running /\ x.path \in Path /\ x.sent = 0,
         g # {} => x.mem = "live" /\ x.op \in {"put", "get"},
         g = {} /\ x.mem # "freed" => next \in m,
         trans' = [trans EXCEPT ![next] = x], next' = next + 1,
         handles' = handles \cup g, lost' = m, FilesTypes', UNCHANGED <<main, locked, final>>
  PROVE  IInv'
<1>0. /\ FilesTypes /\ trans \in Records /\ next \in 0..MaxId /\ handles \in SUBSET Id
      /\ lost \in SUBSET Id
      /\ Owned(trans, handles, main.op, lost, next) /\ Open(trans, locked, final)
      /\ main = idle => main.op = none
  BY Invariants
<1>1. main = idle /\ next < MaxId /\ main.op = none
  BY <1>0 DEF mayStart
<1>2. next \in Id /\ next' \in 0..MaxId
  BY <1>0, <1>1, NextId
<1>3. trans' \in Records /\ trans'[next] = x /\ \A u \in Id : u # next => trans'[u] = trans[u]
  BY <1>0, <1>2 DEF Records
<1>4. Owned(trans', handles', none, m, next')
  <2>1. Owned(trans, handles, none, lost, next)
    BY <1>0, <1>1
  <2>2. Owned([trans EXCEPT ![next] = x], handles \cup g, none, m, next + 1)
    BY <1>0, <1>1, <2>1, StartOwned
  <2>3. QED BY <2>2
<1>5. Open(trans', locked', final')
  <2>1. /\ x.at = "unopened"
        /\ x.running /\ x.op \in {"put", "get"} => x.path \in Path /\ x.sent = 0
    OBVIOUS
  <2>2. Open(trans', locked, final)
    BY <1>0, <1>3, <2>1 DEF Open
  <2>3. QED BY <2>2
<1>6. handles' \in SUBSET Id /\ main' = idle
  BY <1>0, <1>1, <1>2
<1>7. QED BY <1>2, <1>3, <1>4, <1>5, <1>6, IdleNow

(* A record whose transfer has failed at once. *)
LEMMA BrokenFacts ==
  ASSUME NEW op \in {"put", "get"}, NEW p \in Path
  PROVE  LET x == [newFtpTransaction(op, p) EXCEPT !.succeeded = FALSE]
         IN  /\ x \in Transaction
             /\ x.op = op /\ x.path = p /\ x.mem = "live" /\ ~x.done /\ x.waiting /\ x.running
             /\ x.sent = 0 /\ x.at = "unopened"
<1> DEFINE y == newFtpTransaction(op, p)
<1>1. /\ y \in Transaction
      /\ y.op = op /\ y.path = p /\ y.mem = "live" /\ ~y.done /\ y.waiting /\ y.running
      /\ y.sent = 0 /\ y.at = "unopened"
  BY NewFacts
<1> HIDE DEF y
<1>2. [y EXCEPT !.succeeded = FALSE] \in Transaction
  BY <1>1 DEF Transaction
<1>3. /\ [y EXCEPT !.succeeded = FALSE].op = y.op /\ [y EXCEPT !.succeeded = FALSE].path = y.path
      /\ [y EXCEPT !.succeeded = FALSE].mem = y.mem /\ [y EXCEPT !.succeeded = FALSE].done = y.done
      /\ [y EXCEPT !.succeeded = FALSE].waiting = y.waiting
      /\ [y EXCEPT !.succeeded = FALSE].running = y.running
      /\ [y EXCEPT !.succeeded = FALSE].sent = y.sent /\ [y EXCEPT !.succeeded = FALSE].at = y.at
  BY <1>1 DEF Transaction
<1>4. QED BY <1>1, <1>2, <1>3 DEF y

(* What a start does to the records. *)
Started(x, g, m) == /\ trans' = [trans EXCEPT ![next] = x] /\ next' = next + 1
                    /\ handles' = handles \cup g /\ lost' = m
                    /\ FilesTypes' /\ UNCHANGED <<main, locked, final>>

LEMMA StartsInv ==
  ASSUME IInv, NEW op \in {"put", "get"}, NEW p \in Path,
         \/ startFails(op, p) \/ startTransfer(op, p)
         \/ startFtpWriteFails(p) \/ startFtpReadFails(p)
  PROVE  IInv'
<1>0. FilesTypes /\ trans \in Records /\ next \in 0..MaxId /\ lost \in SUBSET Id
  BY Invariants
<1>1. mayStart(p) /\ next \in Id
  <2>1. mayStart(p)
    BY DEF startFails, startTransfer, startFtpWriteFails, startFtpReadFails
  <2>2. QED BY <1>0, <2>1, NextId DEF mayStart
<1>2. FilesTypes'
  BY <1>0 DEF startFails, startTransfer, startFtpWriteFails, startFtpReadFails,
     overlaps, files, history, FilesTypes
<1>3. CASE startFails(op, p)
  <2> DEFINE y == newFtpTransaction(op, p)
  <2>1. y \in Transaction
    BY NewFacts
  <2>2. Started(freed(y), {}, lost)
    BY <1>2, <1>3 DEF startFails, files, history, Started
  <2> HIDE DEF y
  <2>3. /\ freed(y) \in Transaction /\ freed(y).mem = "freed" /\ ~freed(y).running
        /\ freed(y).at = "unopened"
    BY <2>1, FreedFacts
  <2>4. QED BY <1>0, <1>1, <2>2, <2>3, StartInv DEF Started
<1>4. CASE startTransfer(op, p)
  <2> DEFINE y == newFtpTransaction(op, p)
  <2>1. /\ y \in Transaction
        /\ y.op = op /\ y.path = p /\ y.mem = "live" /\ ~y.done /\ y.waiting /\ y.running
        /\ y.sent = 0 /\ y.at = "unopened"
    BY NewFacts
  <2>2. Started(y, {next}, lost)
    BY <1>2, <1>4 DEF startTransfer, files, Started
  <2> HIDE DEF y
  <2>3. QED BY <1>0, <1>1, <2>1, <2>2, StartInv DEF Started
<1>5. CASE startFtpWriteFails(p)
  <2> DEFINE y == [newFtpTransaction("put", p) EXCEPT !.succeeded = FALSE]
  <2>1. /\ y \in Transaction
        /\ y.op = "put" /\ y.path = p /\ y.mem = "live" /\ ~y.done /\ y.waiting /\ y.running
        /\ y.sent = 0 /\ y.at = "unopened"
    BY BrokenFacts
  <2>2. Started(y, {}, lost \cup {next})
    BY <1>2, <1>5 DEF startFtpWriteFails, files, Started
  <2> HIDE DEF y
  <2>3. QED BY <1>0, <1>1, <2>1, <2>2, StartInv DEF Started
<1>6. CASE startFtpReadFails(p)
  <2> DEFINE y == [newFtpTransaction("get", p) EXCEPT !.succeeded = FALSE]
             z == [y EXCEPT !.mem = "leaked"]
  <2>1. /\ y \in Transaction
        /\ y.op = "get" /\ y.path = p /\ y.mem = "live" /\ ~y.done /\ y.waiting /\ y.running
        /\ y.sent = 0 /\ y.at = "unopened"
    BY BrokenFacts
  <2>2. /\ trans' = destroyFtpTransaction([trans EXCEPT ![next] = y], next)
        /\ next' = next + 1 /\ lost' = lost \cup {next} /\ UNCHANGED <<handles, main, locked, final>>
    BY <1>6 DEF startFtpReadFails, files
  <2> HIDE DEF y
  <2>3. destroyFtpTransaction([trans EXCEPT ![next] = y], next) = [trans EXCEPT ![next] = z]
    BY <1>0, <1>1, <2>1 DEF destroyFtpTransaction, Records
  <2>4. /\ z \in Transaction
        /\ z.op = "get" /\ z.path = p /\ z.mem = "leaked" /\ ~z.done /\ z.waiting /\ z.running
        /\ z.sent = 0 /\ z.at = "unopened"
    BY <2>1 DEF Transaction
  <2> HIDE DEF z
  <2>5. Started(z, {}, lost \cup {next})
    BY <1>2, <2>2, <2>3 DEF Started
  <2>6. lost \cup {next} \in SUBSET Id
    BY <1>0, <1>1
  <2>7. /\ trans' = [trans EXCEPT ![next] = z] /\ next' = next + 1
        /\ handles' = handles \cup {} /\ lost' = lost \cup {next}
        /\ FilesTypes' /\ UNCHANGED <<main, locked, final>>
    BY <2>5 DEF Started
  <2>8. QED BY <1>1, <2>4, <2>6, <2>7, StartInv
<1>7. QED BY <1>3, <1>4, <1>5, <1>6

-----------------------------------------------------------------------------

(* What a callback to the main thread's or a caller's record leaves alone. *)
LEMMA CallbackInv ==
  ASSUME IInv, NEW us \in Records, trans' = us, UNCHANGED <<next, handles, main, lost>>,
         Owned(us, handles, main.op, lost, next), Open(us, locked', final'), FilesTypes',
         main.op # none => us[main.op].op = trans[main.op].op
  PROVE  IInv'
<1>1. TypeOK' /\ MainOK'
  <2>1. TypeOK'
    BY Invariants, TypesNext
  <2>2. MainOK'
    BY Invariants DEF MainOK
  <2>3. QED BY <2>1, <2>2
<1>2. QED BY <1>1 DEF IInv

(* A block: who has the file open, and what is in it, change together.     *)
LEMMA WrittenType ==
  ASSUME trans \in Records, NEW t \in Id, NEW c \in Content, NEW good \in BOOLEAN,
         trans[t].sent < Blocks, c # none \/ trans[t].sent = 0
  PROVE  written(c, t, good) \in Content \ {none}
<1>1. trans[t].sent \in 0..Blocks
  BY PathOf DEF Transaction
<1>2. CASE trans[t].sent = 0
  <2>1. written(c, t, good) = [by |-> t, n |-> 1, ok |-> good] /\ 1 \in 1..Blocks
    BY <1>2, MaxAssumption DEF written
  <2>2. written(c, t, good) \in Data
    BY <2>1 DEF Data
  <2>3. QED BY <2>2, noneAssumption DEF Content
<1>3. CASE trans[t].sent # 0
  <2>1. c \in Data /\ trans[t].sent + 1 \in 1..Blocks
    BY <1>1, <1>3, MaxAssumption DEF Content
  <2> DEFINE m == IF c.by = t THEN trans[t].sent + 1 ELSE c.n
             o == c.ok /\ c.by = t /\ good
  <2>2. m \in 1..Blocks /\ o \in BOOLEAN
    BY <2>1 DEF Data
  <2>3. written(c, t, good) = [c EXCEPT !.n = m, !.ok = o]
    BY <1>3 DEF written
  <2> HIDE DEF m, o
  <2>4. [c EXCEPT !.n = m, !.ok = o] \in Data
    BY <2>1, <2>2 DEF Data
  <2>5. QED BY <2>3, <2>4, noneAssumption DEF Content
<1>4. QED BY <1>2, <1>3

LEMMA WrittenOpen ==
  ASSUME NEW ts, NEW us, NEW lo, NEW fi, NEW li, NEW fl, Open(ts, lo, fi), NEW t \in Id,
         \A u \in Id : u # t => us[u] = ts[u],
         us[t].at \in {"locked", "final", "gone"}, us[t].path \in Path,
         us[t].at = "locked" => li[us[t].path] # none,
         us[t].at = "final" => fl[us[t].path] # none,
         \A q \in Path : /\ lo[q] # none => li[q] # none
                         /\ fi[q] # none => fl[q] # none
  PROVE  Open(us, li, fl)
BY DEF Open

LEMMA DataInv ==
  ASSUME IInv, NEW t \in Id, dataCallback(t)
  PROVE  IInv'
<1>0. /\ FilesTypes /\ trans \in Records /\ Owned(trans, handles, main.op, lost, next)
      /\ Open(trans, locked, final)
  BY Invariants
<1>1. /\ trans[t] \in Transaction /\ trans[t].running /\ trans[t].op \in {"put", "get"}
      /\ UNCHANGED <<next, handles, main, told, lost, overlapped, unmoved>>
  BY <1>0, PathOf DEF dataCallback, running, isTransfer, history
<1>2. trans[t].path \in Path /\ (trans[t].sent > 0 => trans[t].at # "unopened")
  BY <1>0, <1>1 DEF Open
<1>3. CASE trans' = [trans EXCEPT ![t].succeeded = FALSE] /\ UNCHANGED files
  <2>1. [trans[t] EXCEPT !.succeeded = FALSE] \in Transaction
    BY <1>1 DEF Transaction
  <2>2. trans' \in Records
    BY <1>0, <1>3, <2>1 DEF Records
  <2>3. \A u \in Id : /\ Same(trans'[u], trans[u])
                       /\ trans'[u].at = trans[u].at /\ trans'[u].sent = trans[u].sent
    BY <1>0, <1>3 DEF Records, Transaction, Same
  <2>4. Owned(trans', handles, main.op, lost, next)
    BY <1>0, <2>3, SameOwned
  <2>5. UNCHANGED <<locked, final>>
    BY <1>3 DEF files
  <2>6. Open(trans', locked', final')
    BY <1>0, <2>3, <2>5 DEF Open, Same
  <2>7. FilesTypes'
    BY <1>0, <1>1, <2>5 DEF FilesTypes
  <2>8. main.op # none => main.op \in Id
    BY Invariants DEF MainOK
  <2>9. QED BY <1>1, <2>2, <2>3, <2>4, <2>6, <2>7, <2>8, CallbackInv DEF Same
<1>4. ASSUME NEW good \in BOOLEAN, blockDone(t, good) PROVE IInv'
  <2> DEFINE here == IF trans[t].sent = 0 THEN "locked" ELSE trans[t].at
             p    == trans[t].path
             x    == [trans[t] EXCEPT !.sent = @ + 1, !.at = here]
             ts   == [trans EXCEPT ![t] = x]
  <2>1. /\ trans[t].sent < Blocks
        /\ trans' = ts \/ trans' = [ts EXCEPT ![t].succeeded = FALSE]
        /\ locked' = IF here = "locked" THEN [locked EXCEPT ![p] = written(@, t, good)] ELSE locked
        /\ final' = IF here = "final" THEN [final EXCEPT ![p] = written(@, t, good)] ELSE final
    <3>1. ts = [trans EXCEPT ![t].sent = @ + 1, ![t].at = here]
      BY <1>0 DEF Records
    <3> HIDE DEF here, ts
    <3>2. QED BY <1>4, <3>1 DEF blockDone, here
  <2>2. trans[t].sent \in 0..Blocks /\ here \in {"locked", "final", "gone"}
    BY <1>1, <1>2, MaxAssumption DEF Transaction
  <2>3. trans[t].sent + 1 \in 0..Blocks
    BY <2>1, <2>2, MaxAssumption
  <2>4. /\ x \in Transaction /\ Same(x, trans[t]) /\ x.at = here
        /\ [x EXCEPT !.succeeded = FALSE] \in Transaction
        /\ Same([x EXCEPT !.succeeded = FALSE], trans[t]) /\ [x EXCEPT !.succeeded = FALSE].at = here
    <3> HIDE DEF here
    <3>1. x \in Transaction
      BY <1>1, <2>2, <2>3 DEF Transaction
    <3>2. Same(x, trans[t]) /\ x.at = here
      BY <1>1 DEF Transaction, Same
    <3> HIDE DEF x
    <3>3. /\ [x EXCEPT !.succeeded = FALSE] \in Transaction
          /\ Same([x EXCEPT !.succeeded = FALSE], x) /\ [x EXCEPT !.succeeded = FALSE].at = x.at
      BY <3>1 DEF Transaction, Same
    <3>4. QED BY <3>1, <3>2, <3>3 DEF Same
  <2>5. /\ trans' \in Records /\ \A u \in Id : u # t => trans'[u] = trans[u]
        /\ Same(trans'[t], trans[t]) /\ trans'[t].at = here
    <3>1. ts \in Records /\ ts[t] = x /\ \A u \in Id : u # t => ts[u] = trans[u]
      BY <1>0, <2>4 DEF Records
    <3> HIDE DEF x, here, ts
    <3>2. QED BY <2>1, <2>4, <3>1 DEF Records
  <2>6. /\ locked \in [Path -> Content] /\ final \in [Path -> Content]
        /\ trans[t].sent # 0 /\ trans[t].at = "locked" => locked[p] # none
        /\ trans[t].sent # 0 /\ trans[t].at = "final" => final[p] # none
    BY <1>0, <1>1, <2>2 DEF FilesTypes, Open
  <2>7. /\ here = "locked" => written(locked[p], t, good) \in Content \ {none}
        /\ here = "final" => written(final[p], t, good) \in Content \ {none}
    BY <1>0, <1>2, <2>1, <2>6, WrittenType
  <2> HIDE DEF here, p, x, ts
  <2>8. /\ locked' \in [Path -> Content] /\ final' \in [Path -> Content]
        /\ here = "locked" => locked'[p] # none
        /\ here = "final" => final'[p] # none
        /\ \A q \in Path : /\ locked[q] # none => locked'[q] # none
                           /\ final[q] # none => final'[q] # none
    BY <2>1, <2>6, <2>7, <1>2 DEF p
  <2>9. Owned(trans', handles, main.op, lost, next)
    BY <1>0, <2>5, SameOwned DEF Same
  <2>10. Open(trans', locked', final')
    <3>1. /\ trans'[t].path = p /\ p \in Path /\ trans'[t].at = here /\ here # "unopened"
      BY <1>2, <2>2, <2>5 DEF Same, p
    <3>2. /\ trans'[t].at \in {"locked", "final", "gone"} /\ trans'[t].path \in Path
          /\ trans'[t].at = "locked" => locked'[trans'[t].path] # none
          /\ trans'[t].at = "final" => final'[trans'[t].path] # none
      BY <2>2, <2>8, <3>1
    <3>3. \A u \in Id : u # t => trans'[u] = trans[u]
      BY <2>5
    <3>4. \A q \in Path : /\ locked[q] # none => locked'[q] # none
                          /\ final[q] # none => final'[q] # none
      BY <2>8
    <3>5. Open(trans, locked, final)
      BY <1>0
    <3>6. QED BY <3>2, <3>3, <3>4, <3>5, WrittenOpen
  <2>11. FilesTypes'
    BY <1>0, <1>1, <2>8 DEF FilesTypes
  <2>12. main.op # none => trans'[main.op].op = trans[main.op].op
    BY <2>5, Invariants DEF MainOK, Same
  <2>13. QED BY <1>1, <2>5, <2>9, <2>10, <2>11, <2>12, CallbackInv
<1>5. QED BY <1>3, <1>4 DEF dataCallback

LEMMA CompletionInv ==
  ASSUME IInv, NEW t \in Id, replicateCompleteCallback(t) \/ completeCallback(t)
  PROVE  IInv'
<1>0. /\ FilesTypes /\ trans \in Records /\ Owned(trans, handles, main.op, lost, next)
      /\ Open(trans, locked, final)
      /\ locked \in [Path -> Content] /\ final \in [Path -> Content]
      /\ main.op # none => main.op \in Id
  BY Invariants DEF FilesTypes, MainOK
<1>1. trans[t].running /\ UNCHANGED <<next, handles, main, told, lost, overlapped, unmoved>>
  BY DEF replicateCompleteCallback, completeCallback, running, history
(* What the callback makes of the records, with t's checksum taken or not. *)
<1>2. ASSUME NEW ts \in Records, NEW ok \in BOOLEAN, \A u \in Id : Same(ts[u], trans[u]),
             Open(ts, locked, final), NEW us, us = callback(ts, t, ok)
      PROVE  /\ us \in Records /\ Owned(us, handles, main.op, lost, next)
             /\ Open(us, locked, final)
             /\ main.op # none => us[main.op].op = trans[main.op].op
  <2>1. Owned(ts, handles, main.op, lost, next) /\ ts[t].running
    BY <1>0, <1>1, <1>2, SameOwned DEF Same
  <2>2. us \in Records /\ Owned(us, handles, main.op, lost, next) /\ Open(us, locked, final)
    BY <1>2, <2>1, CallbackFacts, CallbackOwned, CallbackOpen
  <2>3. /\ \A u \in Id : u # t => us[u] = ts[u]
        /\ ts[t].waiting => us[t].op = ts[t].op
    BY <1>2, CallbackFacts
  <2>4. main.op # none => ts[main.op].waiting /\ ts[main.op].op = trans[main.op].op
    BY <1>0, <1>2, <2>1 DEF Owned, Same
  <2>5. QED BY <1>0, <2>2, <2>3, <2>4
<1>3. ASSUME NEW ts \in Records, NEW ok \in BOOLEAN, \A u \in Id : Same(ts[u], trans[u]),
             Open(ts, locked, final), trans' = callback(ts, t, ok), UNCHANGED <<locked, final>>
      PROVE  IInv'
  <2>1. FilesTypes'
    BY <1>0, <1>1, <1>3 DEF FilesTypes
  <2>2. /\ trans' \in Records /\ Owned(trans', handles, main.op, lost, next)
        /\ Open(trans', locked, final)
        /\ main.op # none => trans'[main.op].op = trans[main.op].op
    BY <1>2, <1>3
  <2>3. QED BY <1>1, <1>3, <2>1, <2>2, CallbackInv
<1>4. \A u \in Id : Same(trans[u], trans[u])
  BY DEF Same
<1>5. CASE replicateCompleteCallback(t)
  BY <1>0, <1>3, <1>4, <1>5 DEF replicateCompleteCallback, files
<1>6. CASE completeCallback(t)
  <2> DEFINE p == trans[t].path
  <2>1. PICK ok \in BOOLEAN :
             \/ trans' = callback(trans, t, ok) /\ UNCHANGED files
             \/ trans' = callback(trans, t, FALSE) /\ UNCHANGED files
             \/ /\ trans[t].op = "checksum" /\ locked[p] # none
                /\ trans' = callback([trans EXCEPT ![t].seen = locked[p]], t, ok)
                /\ UNCHANGED files
             \/ /\ trans[t].op = "mv" /\ locked[p] # none
                /\ trans' = renamed(callback(trans, t, ok), p)
                /\ final' = [final EXCEPT ![p] = locked[p]]
                /\ locked' = [locked EXCEPT ![p] = none]
             \/ /\ trans[t].op \in {"rm", "rmLocked"} /\ locked[p] # none
                /\ trans' = moved(callback(trans, t, ok), p, "locked", "gone")
                /\ locked' = [locked EXCEPT ![p] = none] /\ UNCHANGED final
             \/ /\ trans[t].op = "rmFinal" /\ final[p] # none
                /\ trans' = moved(callback(trans, t, ok), p, "final", "gone")
                /\ final' = [final EXCEPT ![p] = none] /\ UNCHANGED locked
    BY <1>6 DEF completeCallback
  <2>2. trans[t].op \in {"checksum", "mv", "rm", "rmLocked", "rmFinal"} => p \in Path
    BY <1>0, <1>1, PathOf DEF Owned, Transaction
  <2> DEFINE us == callback(trans, t, ok)
  <2>3. /\ us \in Records /\ Owned(us, handles, main.op, lost, next) /\ Open(us, locked, final)
        /\ main.op # none => us[main.op].op = trans[main.op].op
    BY <1>0, <1>2, <1>4
  <2>4. ASSUME NEW b \in BOOLEAN, trans' = callback(trans, t, b), UNCHANGED files
        PROVE  IInv'
    BY <1>0, <1>3, <1>4, <2>4 DEF files
  <2>5. CASE /\ trans[t].op = "checksum"
             /\ trans' = callback([trans EXCEPT ![t].seen = locked[p]], t, ok)
             /\ UNCHANGED files
    <3> DEFINE ts == [trans EXCEPT ![t].seen = locked[p]]
    <3>1. locked[p] \in Content /\ trans[t] \in Transaction
      BY <1>0, <2>2, <2>5, PathOf
    <3>2. ts[t] = [trans[t] EXCEPT !.seen = locked[p]] /\ \A u \in Id : u # t => ts[u] = trans[u]
      BY <1>0 DEF Records
    <3> HIDE DEF p
    <3>3. ts \in Records
      BY <1>0, <3>1 DEF Records, Transaction
    <3>4. \A u \in Id : Same(ts[u], trans[u]) /\ ts[u].at = trans[u].at /\ ts[u].sent = trans[u].sent
      <4>1. /\ Same([trans[t] EXCEPT !.seen = locked[p]], trans[t])
            /\ [trans[t] EXCEPT !.seen = locked[p]].at = trans[t].at
            /\ [trans[t] EXCEPT !.seen = locked[p]].sent = trans[t].sent
        BY <3>1 DEF Same, Transaction
      <4>2. QED BY <3>2, <4>1, <1>4
    <3>5. trans' = callback(ts, t, ok) /\ UNCHANGED <<locked, final>>
      BY <2>5 DEF files
    <3> HIDE DEF ts
    <3>6. Open(ts, locked, final)
      BY <1>0, <3>4 DEF Open, Same
    <3>7. QED BY <1>3, <3>3, <3>4, <3>5, <3>6
  <2> HIDE DEF us
  <2>6. CASE /\ trans[t].op = "mv" /\ locked[p] # none
             /\ trans' = renamed(us, p)
             /\ final' = [final EXCEPT ![p] = locked[p]]
             /\ locked' = [locked EXCEPT ![p] = none]
    <3>1. p \in Path
      BY <2>2, <2>6
    <3> HIDE DEF p
    <3>2. trans' \in Records /\ \A u \in Id : Same(trans'[u], us[u])
      BY <2>3, <2>6, <3>1, RenamedFacts
    <3>3. Owned(trans', handles, main.op, lost, next)
      BY <2>3, <3>2, SameOwned
    <3>4. Open(trans', locked', final')
      <4>1. Open(renamed(us, p), [locked EXCEPT ![p] = none], [final EXCEPT ![p] = locked[p]])
        BY <1>0, <2>3, <2>6, <3>1, RenamedOpen
      <4>2. QED BY <2>6, <4>1
    <3>5. FilesTypes'
      BY <1>0, <1>1, <2>6, <3>1 DEF FilesTypes, Content
    <3>6. main.op # none => trans'[main.op].op = trans[main.op].op
      BY <1>0, <2>3, <3>2 DEF Same
    <3>7. QED BY <1>1, <3>2, <3>3, <3>4, <3>5, <3>6, CallbackInv
  <2>7. CASE /\ trans[t].op \in {"rm", "rmLocked"}
             /\ trans' = moved(us, p, "locked", "gone")
             /\ locked' = [locked EXCEPT ![p] = none] /\ UNCHANGED final
    <3>1. p \in Path
      BY <2>2, <2>7
    <3> HIDE DEF p
    <3>2. trans' \in Records /\ \A u \in Id : Same(trans'[u], us[u])
      BY <2>3, <2>7, <3>1, MovedFacts
    <3>3. Owned(trans', handles, main.op, lost, next)
      BY <2>3, <3>2, SameOwned
    <3>4. Open(trans', locked', final')
      <4>1. Open(moved(us, p, "locked", "gone"), [locked EXCEPT ![p] = none], final)
        BY <1>0, <2>3, <3>1, RemovedOpen
      <4>2. QED BY <2>7, <4>1
    <3>5. FilesTypes'
      BY <1>0, <1>1, <2>7, <3>1 DEF FilesTypes, Content
    <3>6. main.op # none => trans'[main.op].op = trans[main.op].op
      BY <1>0, <2>3, <3>2 DEF Same
    <3>7. QED BY <1>1, <3>2, <3>3, <3>4, <3>5, <3>6, CallbackInv
  <2>8. CASE /\ trans[t].op = "rmFinal"
             /\ trans' = moved(us, p, "final", "gone")
             /\ final' = [final EXCEPT ![p] = none] /\ UNCHANGED locked
    <3>1. p \in Path
      BY <2>2, <2>8
    <3> HIDE DEF p
    <3>2. trans' \in Records /\ \A u \in Id : Same(trans'[u], us[u])
      BY <2>3, <2>8, <3>1, MovedFacts
    <3>3. Owned(trans', handles, main.op, lost, next)
      BY <2>3, <3>2, SameOwned
    <3>4. Open(trans', locked', final')
      <4>1. Open(moved(us, p, "final", "gone"), locked, [final EXCEPT ![p] = none])
        BY <1>0, <2>3, <3>1, RemovedOpen
      <4>2. QED BY <2>8, <4>1
    <3>5. FilesTypes'
      BY <1>0, <1>1, <2>8, <3>1 DEF FilesTypes, Content
    <3>6. main.op # none => trans'[main.op].op = trans[main.op].op
      BY <1>0, <2>3, <3>2 DEF Same
    <3>7. QED BY <1>1, <3>2, <3>3, <3>4, <3>5, <3>6, CallbackInv
  <2>9. QED BY <2>1, <2>4, <2>5, <2>6, <2>7, <2>8 DEF us
<1>7. QED BY <1>5, <1>6

-----------------------------------------------------------------------------

LEMMA EndInv ==
  ASSUME IInv, NEW t \in Id, endFailed(t) \/ endGet(t) \/ endPut(t)
  PROVE  IInv'
<1>0. /\ FilesTypes /\ trans \in Records /\ next \in 0..MaxId /\ handles \in SUBSET Id
      /\ lost \in SUBSET Id /\ Owned(trans, handles, main.op, lost, next)
      /\ Open(trans, locked, final)
      /\ locked \in [Path -> Content] /\ final \in [Path -> Content]
      /\ main = idle => main.op = none
  BY Invariants DEF FilesTypes
<1>1. t \in handles /\ Owned(trans, handles, none, lost, next)
  BY <1>0 DEF endFailed, endGet, endPut
<1>2. trans[t].path \in Path
  BY <1>1 DEF Owned
<1>3. CASE ended(trans, t) /\ UNCHANGED <<next, locked, final, told, overlapped, unmoved>>
  <2>1. FilesTypes' /\ next' \in 0..MaxId
    BY <1>0, <1>3 DEF FilesTypes
  <2>2. Open(trans, locked', final')
    BY <1>0, <1>3
  <2>3. QED BY <1>0, <1>1, <1>3, <2>1, <2>2, EndedNow
<1>4. CASE endFailed(t)
  BY <1>3, <1>4 DEF endFailed, files
<1>5. CASE endGet(t) /\ ended(trans, t) /\ UNCHANGED files /\ unmoved' = unmoved \cup {trans[t].path}
  <2>1. told' = [told EXCEPT ![trans[t].path] = t] /\ UNCHANGED <<next, overlapped, locked, final>>
    BY <1>5 DEF endGet, files
  <2>2. FilesTypes' /\ next' \in 0..MaxId
    BY <1>0, <1>2, <1>5, <2>1 DEF FilesTypes
  <2>3. Open(trans, locked', final')
    BY <1>0, <2>1
  <2>4. QED BY <1>0, <1>1, <1>5, <2>1, <2>2, <2>3, EndedNow
<1>51. CASE endGet(t) /\ ended(renamed(trans, trans[t].path), t)
            /\ final' = [final EXCEPT ![trans[t].path] = locked[trans[t].path]]
            /\ locked' = [locked EXCEPT ![trans[t].path] = none]
            /\ unmoved' = unmoved \ {trans[t].path}
  <2> DEFINE p == trans[t].path
             ts == renamed(trans, p)
  <2>1. /\ locked[p] # none /\ ended(ts, t) /\ final' = [final EXCEPT ![p] = locked[p]]
        /\ locked' = [locked EXCEPT ![p] = none] /\ told' = [told EXCEPT ![p] = t]
        /\ unmoved' = unmoved \ {p} /\ UNCHANGED <<next, overlapped>>
    BY <1>51 DEF endGet, whole
  <2>2. /\ ts \in Records /\ \A u \in Id : Same(ts[u], trans[u])
    BY <1>0, <1>2, RenamedFacts
  <2>3. Open(ts, [locked EXCEPT ![p] = none], [final EXCEPT ![p] = locked[p]])
    BY <1>0, <1>2, <2>1, RenamedOpen
  <2> HIDE DEF ts
  <2>4. Owned(ts, handles, none, lost, next)
    BY <1>1, <2>2, SameOwned
  <2>5. Open(ts, locked', final')
    BY <2>1, <2>3
  <2>6. FilesTypes' /\ next' \in 0..MaxId
    BY <1>0, <1>2, <2>1 DEF FilesTypes, Content
  <2>7. ts[t].running = trans[t].running
    BY <2>2 DEF Same
  <2> HIDE DEF p
  <2>8. QED BY <1>0, <1>1, <2>1, <2>2, <2>4, <2>5, <2>6, <2>7, EndedNow
<1>6. CASE endPut(t)
  <2>1. FilesTypes' /\ UNCHANGED <<locked, final, told, overlapped, unmoved>>
    BY <1>0, <1>6 DEF endPut, files, FilesTypes
  <2>2. CASE begin(trans, "checksum", trans[t].path, t) /\ UNCHANGED <<handles, lost>>
    <3>1. "checksum" \in Waits /\ t # none
      BY IdFacts DEF Waits
    <3>2. Open(trans, locked', final') /\ Owned(trans, handles', none, lost', next)
      BY <1>0, <1>1, <2>1, <2>2
    <3>3. handles' \in SUBSET Id /\ lost' \in SUBSET Id /\ t \in handles'
      BY <1>0, <1>1, <2>2
    <3>4. QED BY <1>0, <1>2, <2>1, <2>2, <3>1, <3>2, <3>3, WaitsNow
  <2>3. CASE ended(trans, t) /\ UNCHANGED next
    BY <1>3, <2>1, <2>3
  <2>4. QED BY <1>6, <2>2, <2>3 DEF endPut
<1>7. QED BY <1>4, <1>5, <1>51, <1>6 DEF endGet

(* A cancelled transfer stays as it is, but that nobody waits for it.       *)
Dropped(t) == [trans EXCEPT ![t].waiting = FALSE]

LEMMA DroppedFacts ==
  ASSUME trans \in Records, NEW t \in Id
  PROVE  LET us == Dropped(t) IN
         /\ us \in Records /\ ~us[t].waiting
         /\ \A u \in Id : /\ us[u].op = trans[u].op /\ us[u].path = trans[u].path
                          /\ us[u].at = trans[u].at /\ us[u].sent = trans[u].sent
                          /\ us[u].running = trans[u].running /\ us[u].mem = trans[u].mem
                          /\ us[u].done = trans[u].done
         /\ \A u \in Id \ {t} : us[u] = trans[u]
<1> DEFINE us == Dropped(t)
           x == [trans[t] EXCEPT !.waiting = FALSE]
<1>1. trans[t] \in Transaction
  BY DEF Records
<1>2. /\ x \in Transaction /\ x.op = trans[t].op /\ x.path = trans[t].path /\ x.mem = trans[t].mem
      /\ x.done = trans[t].done /\ ~x.waiting /\ x.running = trans[t].running
      /\ x.at = trans[t].at /\ x.sent = trans[t].sent
  BY <1>1 DEF Transaction
<1>3. us \in Records /\ us[t] = x /\ \A u \in Id : u # t => us[u] = trans[u]
  BY <1>2 DEF Records, Dropped
<1> HIDE DEF x, us
<1>4. /\ us \in Records /\ ~us[t].waiting
      /\ \A u \in Id : /\ us[u].op = trans[u].op /\ us[u].path = trans[u].path
                       /\ us[u].at = trans[u].at /\ us[u].sent = trans[u].sent
                       /\ us[u].running = trans[u].running /\ us[u].mem = trans[u].mem
                       /\ us[u].done = trans[u].done
      /\ \A u \in Id \ {t} : us[u] = trans[u]
  BY <1>2, <1>3
<1>5. QED BY <1>4 DEF us

LEMMA CancelInv ==
  ASSUME IInv, NEW t \in Id, cancelGet(t) \/ cancelPut(t)
  PROVE  IInv'
<1>0. /\ FilesTypes /\ trans \in Records /\ next \in 0..MaxId /\ handles \in SUBSET Id
      /\ lost \in SUBSET Id /\ Owned(trans, handles, main.op, lost, next)
      /\ Open(trans, locked, final)
      /\ locked \in [Path -> Content] /\ final \in [Path -> Content]
      /\ main = idle => main.op = none
  BY Invariants DEF FilesTypes
<1>1. /\ main = idle /\ t \in handles /\ handles' = handles \ {t}
      /\ lost' = IF trans[t].done THEN lost \cup {t} ELSE lost
      /\ told' = [told EXCEPT ![trans[t].path] = none] /\ UNCHANGED <<overlapped, unmoved>>
  BY DEF cancelGet, cancelPut, cancelled
<1>2. Owned(trans, handles, none, lost, next) /\ trans[t].path \in Path
  BY <1>0, <1>1 DEF Owned
<1>3. handles' \in SUBSET Id /\ lost' \in SUBSET Id
  BY <1>0, <1>1
<1> DEFINE us == Dropped(t)
<1>4. /\ us \in Records /\ Owned(us, handles', none, lost', next)
      /\ \A u \in Id : /\ us[u].op = trans[u].op /\ us[u].path = trans[u].path
                       /\ us[u].at = trans[u].at /\ us[u].sent = trans[u].sent
                       /\ us[u].running = trans[u].running
  <2>2. trans \in Records /\ handles \in SUBSET Id /\ lost \in SUBSET Id /\ t \in handles
    BY <1>0, <1>1
  <2>3. lost' = IF trans[t].done THEN lost \cup {t} ELSE lost
    BY <1>1
  <2>4. /\ us \in Records /\ ~us[t].waiting
        /\ \A u \in Id : /\ us[u].op = trans[u].op /\ us[u].path = trans[u].path
                         /\ us[u].at = trans[u].at /\ us[u].sent = trans[u].sent
                         /\ us[u].running = trans[u].running /\ us[u].mem = trans[u].mem
                         /\ us[u].done = trans[u].done
        /\ \A u \in Id \ {t} : us[u] = trans[u]
    BY <2>2, DroppedFacts
  <2> HIDE DEF us
  <2>5. lost \subseteq lost' /\ (trans[t].done => t \in lost')
    BY <2>3
  <2>6. Owned(us, handles', none, lost', next)
    BY <1>1, <1>2, <2>2, <2>4, <2>5, IdFacts DEF Owned
  <2>7. QED BY <2>4, <2>6
<1> HIDE DEF us
<1>5. Open(us, locked, final)
  BY <1>0, <1>4 DEF Open
<1>6. CASE cancelGet(t)
  <2> DEFINE p == trans[t].path
             v == moved(us, p, "locked", "gone")
             li == [locked EXCEPT ![p] = none]
  <2>1. /\ trans' = moved(v, p, "final", "gone") /\ locked' = li
        /\ final' = [final EXCEPT ![p] = none] /\ UNCHANGED <<next, main>>
    BY <1>6 DEF cancelGet, us, Dropped
  <2>2. v \in Records /\ \A u \in Id : Same(v[u], us[u])
    BY <1>2, <1>4, MovedFacts
  <2>3. Open(v, li, final)
    BY <1>0, <1>2, <1>4, <1>5, RemovedOpen
  <2>4. li \in [Path -> Content]
    BY <1>0 DEF Content
  <2> HIDE DEF v, li
  <2>5. trans' \in Records /\ \A u \in Id : Same(trans'[u], v[u])
    BY <1>2, <2>1, <2>2, MovedFacts
  <2>6. Open(trans', locked', final')
    BY <1>0, <1>2, <2>1, <2>2, <2>3, <2>4, RemovedOpen
  <2>7. Owned(trans', handles', none, lost', next)
    BY <1>4, <2>2, <2>5, SameOwned
  <2>8. FilesTypes'
    BY <1>0, <1>1, <1>2, <2>1, <2>4 DEF FilesTypes, Content
  <2>9. QED BY <1>0, <1>1, <1>3, <2>1, <2>5, <2>6, <2>7, <2>8, IdleNow
<1>7. CASE cancelPut(t)
  <2>1. UNCHANGED <<locked, final>> /\ FilesTypes'
    BY <1>0, <1>1, <1>2, <1>7 DEF cancelPut, files, FilesTypes
  <2>2. /\ \/ begin(us, "rmLocked", trans[t].path, none)
           \/ begin(us, "rmFinal", trans[t].path, none)
           \/ trans' = us /\ UNCHANGED <<next, main>>
        /\ Open(us, locked', final')
    BY <1>5, <1>7, <2>1 DEF cancelPut, us, Dropped
  <2>3. ASSUME NEW op \in {"rmLocked", "rmFinal"}, begin(us, op, trans[t].path, none)
        PROVE  IInv'
    <3>1. op \in Waits /\ op \notin {"checksum", "mv", "rm"}
      BY DEF Waits
    <3>2. QED BY <1>0, <1>2, <1>3, <1>4, <2>1, <2>2, <2>3, <3>1, WaitsNow
  <2>4. CASE trans' = us /\ UNCHANGED <<next, main>>
    BY <1>0, <1>1, <1>3, <1>4, <2>1, <2>2, <2>4, IdleNow
  <2>5. QED BY <2>2, <2>3, <2>4
<1>8. QED BY <1>6, <1>7

LEMMA StepInv ==
  ASSUME IInv, [Next]_vars
  PROVE  IInv'
<1>1. CASE UNCHANGED vars
  <2>1. /\ trans' = trans /\ handles' = handles /\ main' = main /\ lost' = lost /\ next' = next
        /\ locked' = locked /\ final' = final /\ told' = told /\ overlapped' = overlapped
        /\ unmoved' = unmoved
    BY <1>1 DEF vars
  <2>2. TypeOK' /\ MainOK'
    BY <2>1 DEF IInv, TypeOK, MainOK
  <2>3. Owned(trans', handles', main'.op, lost', next') /\ Open(trans', locked', final')
    BY <2>1 DEF IInv
  <2>4. QED BY <2>2, <2>3 DEF IInv
<1>2. ASSUME NEW op \in {"put", "get"}, NEW p \in Path, startFails(op, p)
      PROVE  IInv'
  BY <1>2, StartsInv
<1>3. ASSUME NEW p \in Remote, digs_startPutTransfer(p) \/ startFtpWriteFails(p)
      PROVE  IInv'
  BY <1>3, StartsInv DEF digs_startPutTransfer, Path
<1>4. ASSUME NEW p \in Local, digs_startGetTransfer(p) \/ startFtpReadFails(p)
      PROVE  IInv'
  BY <1>4, StartsInv DEF digs_startGetTransfer, Path
<1>5. QED
  BY <1>1, <1>2, <1>3, <1>4, CallInv, WaitInv, DataInv, CompletionInv, EndInv, CancelInv
  DEF Next, Waiting, Completion

LEMMA Invariance == Spec => []IInv
<1>1. Init => IInv
  BY InitInv
<1>2. IInv /\ [Next]_vars => IInv'
  BY StepInv
<1>3. QED BY <1>1, <1>2, PTL DEF Spec

(* Every variable has its type, in every reachable state. *)
THEOREM TypeCorrect == Spec => []TypeOK
<1>1. IInv => TypeOK
  BY DEF IInv
<1>2. QED BY <1>1, Invariance, PTL

(* No record is used after it has been freed, neither by a callback (the    *)
(* completion callbacks of gridftp-common.c) nor by the main thread.        *)
THEOREM NeverUsedAfterFree == Spec => []NoUseAfterFree
<1>1. IInv => NoUseAfterFree
  <2>1. SUFFICES ASSUME IInv, NEW t \in Id
        PROVE  /\ running(t) => trans[t].mem \in {"live", "leaked"}
               /\ running(t) /\ ~trans[t].waiting => trans[t].mem = "live"
               /\ t \in handles \cup {main.op, main.t} => trans[t].mem = "live"
    BY DEF NoUseAfterFree
  <2>2. trans[t] \in Transaction
    BY <2>1, Invariants, PathOf
  <2>3. trans[t].mem \in {"none", "live", "freed", "leaked"}
    BY <2>2 DEF Transaction
  <2>4. t = main.t => t \in handles
    BY <2>1, IdFacts DEF IInv, MainOK
  <2>5. QED BY <2>1, <2>3, <2>4 DEF IInv, Owned, running
<1>2. QED BY <1>1, Invariance, PTL

(* Every record in the list has somebody who will free it, but for those    *)
(* that endTransfer, cancelTransfer and startFtpWrite give up.              *)
THEOREM NothingForgotten == Spec => []NoneForgotten
<1>1. IInv => NoneForgotten
  BY DEF IInv, Owned, NoneForgotten, running
<1>2. QED BY <1>1, Invariance, PTL

-----------------------------------------------------------------------------
(* Transfers keep what the interface of a storage element promises *)

(* How the caller of a transfer sees its record, while he has the handle    *)
(* and after.                                                               *)
Seen(x, held) == IF x.op \notin {"put", "get"} THEN "none"
                 ELSE IF ~held THEN "closed"
                 ELSE IF ~x.done THEN "open"
                 ELSE IF x.succeeded THEN "done" ELSE "failed"

(* Two records that are the same to him. *)
Alike(x, y, held) == /\ x.op \in {"put", "get"} <=> y.op \in {"put", "get"}
                     /\ held => (x.done <=> y.done)
                     /\ held /\ x.done => (x.succeeded <=> y.succeeded)

LEMMA StatusIs ==
  ASSUME MainOK
  PROVE  status = [t \in Id |-> Seen(trans[t], t \in handles)]
<1>1. \A t \in Id : t \in handles \cup {main.t} <=> t \in handles
  BY IdFacts DEF MainOK
<1>2. QED BY <1>1 DEF status, Seen, isTransfer, digs_monitorTransfer

LEMMA StatusNext ==
  ASSUME MainOK'
  PROVE  status' = [t \in Id |-> Seen(trans'[t], t \in handles')]
<1>1. \A t \in Id : t \in handles' \cup {main'.t} <=> t \in handles'
  BY IdFacts DEF MainOK
<1>2. QED BY <1>1 DEF status, Seen, isTransfer, digs_monitorTransfer

(* Nothing that a caller sees changes. *)
LEMMA NoneMoves ==
  ASSUME IInv, IInv', UNCHANGED handles,
         \A u \in Id : Alike(trans[u], trans'[u], u \in handles)
  PROVE  UNCHANGED status
<1>1. \A u \in Id : Seen(trans'[u], u \in handles') = Seen(trans[u], u \in handles)
  BY DEF Alike, Seen
<1>2. QED BY <1>1, StatusIs, StatusNext DEF IInv

(* One transfer moves on. *)
Moves(a, b) == \/ a = "none" /\ b \in {"open", "closed"}
               \/ a = "open" /\ b \in {"done", "failed"}
               \/ a \in {"open", "done", "failed"} /\ b = "closed"

LEMMA OneMoves ==
  ASSUME IInv, IInv', NEW t \in Id,
         \A u \in Id : u # t => /\ Alike(trans[u], trans'[u], u \in handles)
                                /\ u \in handles' <=> u \in handles,
         Moves(Seen(trans[t], t \in handles), Seen(trans'[t], t \in handles'))
  PROVE  T!Next
<1>1. \A u \in Id : u # t => Seen(trans'[u], u \in handles') = Seen(trans[u], u \in handles)
  BY DEF Alike, Seen
<1>2. /\ status = [u \in Id |-> Seen(trans[u], u \in handles)]
      /\ status' = [u \in Id |-> Seen(trans'[u], u \in handles')]
  BY StatusIs, StatusNext DEF IInv
<1>3. /\ status' = [status EXCEPT ![t] = status'[t]]
      /\ Moves(status[t], status'[t])
  BY <1>1, <1>2
<1>4. QED BY <1>3 DEF Moves, T!Next, T!startTransfer, T!settle, T!endTransfer, T!becomes

LEMMA AlikeSelf ==
  ASSUME NEW hs
  PROVE  \A u \in Id : Alike(trans[u], trans[u], u \in hs)
BY DEF Alike

(* A wait, and the start of an operation, concern no transfer. *)
LEMMA WaitAlike ==
  ASSUME IInv, main.op \in Id
  PROVE  \A u \in Id : Alike(trans[u], waitOnFtp(main.op).ts[u], u \in handles)
<1> DEFINE op == main.op
           ts == waitOnFtp(op).ts
<1>1. trans \in Records /\ Owned(trans, handles, op, lost, next)
  BY Invariants
<1>2. ~(trans[op].done /\ trans[op].running) /\ op \notin handles
      /\ trans[op].op \notin {"put", "get"} /\ trans[op] \in Transaction
  BY <1>1 DEF Owned, Waits, Records
<1>3. /\ \A u \in Id : u # op => ts[u] = trans[u]
      /\ trans[op].done => ts[op] = freed(trans[op])
      /\ ~trans[op].done => ts[op] = [trans[op] EXCEPT !.waiting = FALSE]
  BY <1>1, <1>2, WaitFacts
<1> HIDE DEF ts
<1>4. ts[op].op \notin {"put", "get"}
  <2>1. CASE trans[op].done
    BY <1>2, <1>3, <2>1, FreedFacts
  <2>2. CASE ~trans[op].done
    BY <1>2, <1>3, <2>2 DEF Transaction
  <2>3. QED BY <2>1, <2>2
<1>5. \A u \in Id : Alike(trans[u], ts[u], u \in handles)
  BY <1>2, <1>3, <1>4 DEF Alike
<1>6. QED BY <1>5 DEF ts

LEMMA BeginAlike ==
  ASSUME IInv, NEW ts \in Records, NEW hs \in SUBSET handles,
         \A u \in Id : Alike(trans[u], ts[u], u \in hs),
         NEW op \in Waits, NEW p \in Path \cup {none}, NEW t, begin(ts, op, p, t)
  PROVE  \A u \in Id : Alike(trans[u], trans'[u], u \in hs)
<1>1. next \in 0..MaxId /\ Owned(trans, handles, main.op, lost, next)
  BY Invariants
<1> DEFINE x == newFtpTransaction(op, p)
<1>2. next < MaxId /\ trans' = [ts EXCEPT ![next] = x] /\ x.op = op
  BY NewFacts DEF begin
<1> HIDE DEF x
<1>3. next \in Id /\ trans'[next] = x /\ \A u \in Id : u # next => trans'[u] = ts[u]
  BY <1>1, <1>2, NextId DEF Records
<1>4. next \notin hs /\ trans[next].op = "none"
  BY <1>1, <1>3, IdFacts DEF Owned
<1>5. op \notin {"put", "get"}
  BY DEF Waits
<1>6. QED BY <1>2, <1>3, <1>4, <1>5 DEF Alike

(* The end of a transfer closes its handle. *)
LEMMA EndMoves ==
  ASSUME IInv, IInv', NEW ts \in Records, NEW t \in Id, t \in handles,
         \A u \in Id : Alike(trans[u], ts[u], u \in handles), ended(ts, t)
  PROVE  T!Next
<1>1. Owned(trans, handles, main.op, lost, next)
  BY Invariants
<1>2. /\ handles' = handles \ {t} /\ \A u \in Id : u # t => trans'[u] = ts[u]
      /\ ts[t].running => trans'[t] = [ts[t] EXCEPT !.mem = "leaked"]
      /\ ~ts[t].running => trans'[t] = freed(ts[t])
  BY DestroyFacts DEF ended
<1>3. ts[t] \in Transaction /\ trans[t].op \in {"put", "get"} /\ ts[t].op \in {"put", "get"}
  BY <1>1 DEF Records, Owned, Alike
<1>4. trans'[t].op \in {"put", "get"}
  BY <1>2, <1>3, FreedFacts DEF Transaction
<1>5. Moves(Seen(trans[t], t \in handles), Seen(trans'[t], t \in handles'))
  BY <1>2, <1>3, <1>4 DEF Moves, Seen
<1>6. QED BY <1>2, <1>5, OneMoves

LEMMA WaitMoves ==
  ASSUME IInv, IInv', Waiting
  PROVE  [T!Next]_status
<1>0. main \in Main /\ MainOK /\ trans \in Records /\ (main.at # "idle" => main.op \in Id)
      /\ Owned(trans, handles, main.op, lost, next)
  BY Invariants
<1>1. main.op \in Id
  BY <1>0 DEF Waiting, callReturns, checksumReturns, moveReturns, removalReturns
<1> DEFINE ts == waitOnFtp(main.op).ts
<1>2. ts \in Records
  BY <1>0, <1>1, WaitOwned
<1>3. \A u \in Id : Alike(trans[u], ts[u], u \in handles)
  BY <1>1, WaitAlike
<1>4. main.at \in {"checksum", "mv", "rm"} => main.t \in handles /\ main.t \in Id
  BY <1>0, Invariants DEF MainOK
<1>5. ASSUME NEW op \in Waits, NEW p \in Path \cup {none}, NEW t, begin(ts, op, p, t),
             UNCHANGED handles
      PROVE  UNCHANGED status
  <2> HIDE DEF ts
  <2>1. \A u \in Id : Alike(trans[u], trans'[u], u \in handles)
    BY <1>2, <1>3, <1>5, BeginAlike
  <2>2. QED BY <1>5, <2>1, NoneMoves
<1>6. CASE callReturns
  BY <1>3, <1>6, NoneMoves DEF callReturns
<1>7. CASE checksumReturns
  <2> DEFINE op == IF sameChecksum(trans[main.op].seen, main.t) THEN "mv" ELSE "rm"
  <2>1. op \in Waits /\ main.t \in handles /\ main.t \in Id
    BY <1>4, <1>7 DEF checksumReturns, Waits
  <2>2. trans[main.t].path \in Path \cup {none}
    BY <1>0, <2>1, PathOf
  <2>3. \/ begin(ts, op, trans[main.t].path, main.t) /\ UNCHANGED handles
        \/ ended(ts, main.t)
    BY <1>7 DEF checksumReturns
  <2> HIDE DEF op, ts
  <2>4. QED BY <1>2, <1>3, <1>5, <2>1, <2>2, <2>3, EndMoves
<1>8. CASE moveReturns
  <2>1. main.t \in handles /\ main.t \in Id /\ ended(ts, main.t)
    BY <1>4, <1>8 DEF moveReturns
  <2> HIDE DEF ts
  <2>2. QED BY <1>2, <1>3, <2>1, EndMoves
<1>9. CASE removalReturns
  <2>1. /\ UNCHANGED handles
        /\ begin(ts, "rmFinal", trans[main.op].path, none) \/ trans' = ts
    BY <1>9 DEF removalReturns
  <2>2. "rmFinal" \in Waits /\ trans[main.op].path \in Path \cup {none}
    BY <1>0, <1>1, PathOf DEF Waits
  <2> HIDE DEF ts
  <2>3. QED BY <1>3, <1>5, <2>1, <2>2, NoneMoves
<1>10. QED BY <1>6, <1>7, <1>8, <1>9 DEF Waiting

LEMMA CallMoves ==
  ASSUME IInv, IInv', call
  PROVE  [T!Next]_status
<1>1. begin(trans, "call", none, none) /\ UNCHANGED handles /\ "call" \in Waits /\ trans \in Records
  BY Invariants DEF call, Waits
<1>2. \A u \in Id : Alike(trans[u], trans'[u], u \in handles)
  BY <1>1, AlikeSelf, BeginAlike
<1>3. QED BY <1>1, <1>2, NoneMoves

(* A start gives a handle, or one that is closed from the beginning. *)
LEMMA StartMoves ==
  ASSUME IInv, IInv', NEW op \in {"put", "get"}, NEW p \in Path,
         \/ startFails(op, p) \/ startTransfer(op, p)
         \/ startFtpWriteFails(p) \/ startFtpReadFails(p)
  PROVE  T!Next
<1>1. /\ trans \in Records /\ next \in Id /\ Owned(trans, handles, main.op, lost, next)
      /\ trans[next].op = "none" /\ next \notin handles
  <2>1. trans \in Records /\ next \in 0..MaxId /\ Owned(trans, handles, main.op, lost, next)
    BY Invariants
  <2>2. next < MaxId
    BY DEF startFails, startTransfer, startFtpWriteFails, startFtpReadFails, mayStart
  <2>3. next \in Id
    BY <2>1, <2>2, NextId
  <2>4. QED BY <2>1, <2>3, IdFacts DEF Owned
<1>2. ASSUME NEW x \in Transaction, NEW g \in {{}, {next}}, x.op \in {"put", "get"},
             g = {} \/ ~x.done, trans' = [trans EXCEPT ![next] = x], handles' = handles \cup g
      PROVE  T!Next
  <2>1. trans'[next] = x /\ \A u \in Id : u # next => trans'[u] = trans[u]
    BY <1>1, <1>2 DEF Records
  <2>2. \A u \in Id : u # next => (u \in handles' <=> u \in handles)
    BY <1>2
  <2>3. Seen(trans[next], next \in handles) = "none"
    BY <1>1 DEF Seen
  <2>4. Seen(x, next \in handles') \in {"open", "closed"}
    BY <1>1, <1>2 DEF Seen
  <2>5. QED BY <1>1, <2>1, <2>2, <2>3, <2>4, OneMoves DEF Moves, Alike
<1> DEFINE y(o) == newFtpTransaction(o, p)
           z(o) == [y(o) EXCEPT !.succeeded = FALSE]
<1>3. \A o \in {"put", "get"} : /\ y(o) \in Transaction /\ y(o).op = o /\ ~y(o).done
                                /\ z(o) \in Transaction /\ z(o).op = o /\ ~z(o).done
  BY NewFacts, BrokenFacts
<1>4. CASE startFails(op, p)
  <2>1. trans' = [trans EXCEPT ![next] = freed(y(op))] /\ handles' = handles \cup {}
    BY <1>4 DEF startFails
  <2> HIDE DEF y
  <2>2. freed(y(op)) \in Transaction /\ freed(y(op)).op \in {"put", "get"}
    BY <1>3, FreedFacts
  <2>3. QED BY <1>2, <2>1, <2>2
<1>5. CASE startTransfer(op, p)
  <2>1. trans' = [trans EXCEPT ![next] = y(op)] /\ handles' = handles \cup {next}
    BY <1>5 DEF startTransfer
  <2> HIDE DEF y
  <2>2. QED BY <1>2, <1>3, <2>1
<1>6. CASE startFtpWriteFails(p)
  <2>1. trans' = [trans EXCEPT ![next] = z("put")] /\ handles' = handles \cup {}
    BY <1>6 DEF startFtpWriteFails
  <2> HIDE DEF z
  <2>2. QED BY <1>2, <1>3, <2>1
<1>7. CASE startFtpReadFails(p)
  <2> DEFINE w == z("get")
             us == [trans EXCEPT ![next] = w]
             l == destroyFtpTransaction(us, next)
  <2>1. trans' = l /\ handles' = handles \cup {}
    BY <1>7 DEF startFtpReadFails
  <2>2. w \in Transaction /\ w.op = "get"
    BY <1>3
  <2> HIDE DEF w
  <2>3. us \in Records /\ us[next] = w /\ \A u \in Id : u # next => us[u] = trans[u]
    BY <1>1, <2>2 DEF Records
  <2> HIDE DEF us
  <2>4. /\ l \in Records /\ \A u \in Id : u # next => l[u] = trans[u]
        /\ l[next] = freed(w) \/ l[next] = [w EXCEPT !.mem = "leaked"]
    BY <1>1, <2>3, DestroyFacts
  <2> HIDE DEF l
  <2>5. l[next] \in Transaction /\ l[next].op \in {"put", "get"}
    BY <1>1, <2>2, <2>4, FreedFacts DEF Records, Transaction
  <2>6. l = [trans EXCEPT ![next] = l[next]]
    BY <1>1, <2>4 DEF Records
  <2>7. QED BY <1>2, <2>1, <2>5, <2>6
<1>8. QED BY <1>4, <1>5, <1>6, <1>7

(* A block settles nothing. *)
LEMMA DataMoves ==
  ASSUME IInv, IInv', NEW t \in Id, dataCallback(t)
  PROVE  UNCHANGED status
<1>1. /\ trans \in Records /\ UNCHANGED handles /\ trans[t].running
      /\ Owned(trans, handles, main.op, lost, next)
  BY Invariants DEF dataCallback, running
<1>2. trans[t] \in Transaction /\ ~trans[t].done
  BY <1>1 DEF Owned, Records
<1>3. ASSUME NEW x \in Transaction, x.op = trans[t].op, ~x.done, trans' = [trans EXCEPT ![t] = x]
      PROVE  UNCHANGED status
  <2>1. trans'[t] = x /\ \A u \in Id : u # t => trans'[u] = trans[u]
    BY <1>1, <1>3 DEF Records
  <2>2. \A u \in Id : Alike(trans[u], trans'[u], u \in handles)
    BY <1>2, <1>3, <2>1 DEF Alike
  <2>3. QED BY <1>1, <2>2, NoneMoves
<1>4. CASE trans' = [trans EXCEPT ![t].succeeded = FALSE]
  <2> DEFINE x == [trans[t] EXCEPT !.succeeded = FALSE]
  <2>1. x \in Transaction /\ x.op = trans[t].op /\ x.done = trans[t].done
    BY <1>2 DEF Transaction
  <2>2. trans' = [trans EXCEPT ![t] = x]
    BY <1>4
  <2> HIDE DEF x
  <2>3. QED BY <1>2, <1>3, <2>1, <2>2
<1>5. ASSUME NEW good \in BOOLEAN, blockDone(t, good) PROVE UNCHANGED status
  <2> DEFINE here == IF trans[t].sent = 0 THEN "locked" ELSE trans[t].at
             x    == [trans[t] EXCEPT !.sent = @ + 1, !.at = here]
             y    == [x EXCEPT !.succeeded = FALSE]
  <2>1. here \in {"unopened", "locked", "final", "gone"} /\ trans[t].sent + 1 \in 0..Blocks
    BY <1>2, <1>5, MaxAssumption DEF Transaction, blockDone
  <2>2. \/ trans' = [trans EXCEPT ![t] = x]
        \/ trans' = [trans EXCEPT ![t] = y]
    <3> DEFINE ts == [trans EXCEPT ![t].sent = @ + 1, ![t].at = here]
    <3>1. trans' = ts \/ trans' = [ts EXCEPT ![t].succeeded = FALSE]
      BY <1>5 DEF blockDone
    <3>2. ts = [trans EXCEPT ![t] = x]
      BY <1>1 DEF Records
    <3> HIDE DEF ts, x
    <3>3. ts[t] = x
      BY <1>1, <3>2 DEF Records
    <3>4. [ts EXCEPT ![t].succeeded = FALSE] = [trans EXCEPT ![t] = y]
      BY <1>1, <3>2, <3>3 DEF Records
    <3> HIDE DEF y
    <3>5. QED BY <3>1, <3>2, <3>4
  <2> HIDE DEF here
  <2>3. x \in Transaction /\ x.op = trans[t].op /\ x.done = trans[t].done
    BY <1>2, <2>1 DEF Transaction
  <2> HIDE DEF x
  <2>4. y \in Transaction /\ y.op = x.op /\ y.done = x.done
    BY <2>3 DEF Transaction
  <2> HIDE DEF y
  <2>5. QED BY <1>2, <1>3, <2>2, <2>3, <2>4
<1>6. QED BY <1>4, <1>5 DEF dataCallback

(* A callback settles the transfer it is for, if a caller still has it. *)
LEMMA CompletionMoves ==
  ASSUME IInv, IInv', NEW t \in Id, Completion(t)
  PROVE  [T!Next]_status
<1>1. /\ trans \in Records /\ UNCHANGED handles /\ trans[t].running
      /\ Owned(trans, handles, main.op, lost, next) /\ trans[t] \in Transaction
  BY Invariants, PathOf DEF Completion, replicateCompleteCallback, completeCallback, running
<1>2. ~trans[t].done /\ (t \in handles => trans[t].waiting)
  BY <1>1 DEF Owned
<1>3. CASE replicateCompleteCallback(t)
  <2>1. PICK ok \in BOOLEAN : trans' = callback(trans, t, ok)
    BY <1>3 DEF replicateCompleteCallback
  <2>2. trans[t].op \in {"put", "get"}
    BY <1>3 DEF replicateCompleteCallback, isTransfer
  <2>3. /\ \A u \in Id : u # t => trans'[u] = trans[u]
        /\ trans'[t].op \in {"put", "get"} /\ (trans[t].waiting => trans'[t].done)
    BY <1>1, <2>1, <2>2, CallbackFacts
  <2>4. \A u \in Id : u # t => /\ Alike(trans[u], trans'[u], u \in handles)
                               /\ u \in handles' <=> u \in handles
    BY <1>1, <2>3 DEF Alike
  <2>5. CASE t \in handles
    <3>1. Moves(Seen(trans[t], t \in handles), Seen(trans'[t], t \in handles'))
      BY <1>1, <1>2, <2>2, <2>3, <2>5 DEF Moves, Seen
    <3>2. QED BY <2>4, <3>1, OneMoves
  <2>6. CASE t \notin handles
    <3>1. \A u \in Id : Alike(trans[u], trans'[u], u \in handles)
      BY <2>2, <2>3, <2>4, <2>6 DEF Alike
    <3>2. QED BY <1>1, <3>1, NoneMoves
  <2>7. QED BY <2>5, <2>6
<1>4. CASE completeCallback(t)
  <2> DEFINE p == trans[t].path
  <2>1. trans[t].op \notin {"put", "get"} /\ t \notin handles
    BY <1>1, <1>4 DEF completeCallback, isTransfer, Owned
  <2>2. trans[t].op \in {"checksum", "mv", "rm", "rmLocked", "rmFinal"} => p \in Path
    BY <1>1, PathOf DEF Owned, Transaction
  (* What the callback leaves of the records, and a file moved or removed. *)
  <2>3. ASSUME NEW ts \in Records, NEW ok \in BOOLEAN, NEW us, us = callback(ts, t, ok),
               \A u \in Id : u # t => ts[u] = trans[u], ts[t].op = trans[t].op
        PROVE  us \in Records /\ \A u \in Id : Alike(trans[u], us[u], u \in handles)
    <3>1. /\ us \in Records /\ \A u \in Id : u # t => us[u] = ts[u]
          /\ us[t].op \notin {"put", "get"}
      BY <2>1, <2>3, CallbackFacts
    <3>2. QED BY <2>1, <2>3, <3>1 DEF Alike
  <2>4. ASSUME NEW us \in Records, \A u \in Id : Alike(trans[u], us[u], u \in handles),
               \A u \in Id : Same(trans'[u], us[u]) /\ trans'[u].succeeded = us[u].succeeded
        PROVE  UNCHANGED status
    <3>1. \A u \in Id : Alike(trans[u], trans'[u], u \in handles)
      BY <2>4 DEF Alike, Same
    <3>2. QED BY <1>1, <3>1, NoneMoves
  <2>5. ASSUME NEW ok \in BOOLEAN, trans' = callback(trans, t, ok) PROVE UNCHANGED status
    BY <1>1, <2>3, <2>5, NoneMoves
  <2>6. ASSUME NEW ok \in BOOLEAN, trans[t].op = "checksum",
               trans' = callback([trans EXCEPT ![t].seen = locked[p]], t, ok)
        PROVE  UNCHANGED status
    <3> DEFINE x == [trans[t] EXCEPT !.seen = locked[p]]
               ts == [trans EXCEPT ![t].seen = locked[p]]
    <3>1. locked[p] \in Content
      BY <2>2, <2>6, Invariants DEF FilesTypes
    <3> HIDE DEF p
    <3>2. x \in Transaction /\ x.op = trans[t].op
      BY <1>1, <3>1 DEF Transaction
    <3> HIDE DEF x
    <3>3. ts \in Records /\ ts[t] = x /\ \A u \in Id : u # t => ts[u] = trans[u]
      BY <1>1, <3>2 DEF Records, x
    <3>4. trans' = callback(ts, t, ok)
      BY <2>6
    <3> HIDE DEF ts
    <3>5. QED BY <1>1, <2>3, <3>2, <3>3, <3>4, NoneMoves
  <2>7. ASSUME NEW ok \in BOOLEAN, NEW from, p \in Path,
               \/ trans' = renamed(callback(trans, t, ok), p)
               \/ trans' = moved(callback(trans, t, ok), p, from, "gone")
        PROVE  UNCHANGED status
    <3> DEFINE us == callback(trans, t, ok)
    <3>1. us \in Records /\ \A u \in Id : Alike(trans[u], us[u], u \in handles)
      BY <1>1, <2>3
    <3> HIDE DEF us, p
    <3>2. trans' = renamed(us, p) \/ trans' = moved(us, p, from, "gone")
      BY <2>7 DEF us
    <3>3. \A u \in Id : Same(trans'[u], us[u]) /\ trans'[u].succeeded = us[u].succeeded
      BY <2>7, <3>1, <3>2, RenamedFacts, MovedFacts
    <3>4. QED BY <2>4, <3>1, <3>3
  <2>8. PICK ok \in BOOLEAN :
             \/ trans' = callback(trans, t, ok)
             \/ trans' = callback(trans, t, FALSE)
             \/ /\ trans[t].op = "checksum"
                /\ trans' = callback([trans EXCEPT ![t].seen = locked[p]], t, ok)
             \/ trans[t].op = "mv" /\ trans' = renamed(callback(trans, t, ok), p)
             \/ /\ trans[t].op \in {"rm", "rmLocked"}
                /\ trans' = moved(callback(trans, t, ok), p, "locked", "gone")
             \/ /\ trans[t].op = "rmFinal"
                /\ trans' = moved(callback(trans, t, ok), p, "final", "gone")
    BY <1>4 DEF completeCallback
  <2> HIDE DEF p
  <2>9. QED BY <2>2, <2>5, <2>6, <2>7, <2>8
<1>5. QED BY <1>3, <1>4 DEF Completion

LEMMA FinishMoves ==
  ASSUME IInv, IInv', NEW t \in Id, endFailed(t) \/ endGet(t) \/ endPut(t)
  PROVE  [T!Next]_status
<1>1. trans \in Records /\ Owned(trans, handles, main.op, lost, next) /\ t \in handles
  BY Invariants DEF endFailed, endGet, endPut
<1>2. trans[t].path \in Path
  BY <1>1 DEF Owned
<1>3. CASE ended(trans, t)
  BY <1>1, <1>3, AlikeSelf, EndMoves
<1>4. CASE endFailed(t)
  BY <1>3, <1>4 DEF endFailed
<1>5. CASE endGet(t) /\ ended(renamed(trans, trans[t].path), t)
  <2> DEFINE ts == renamed(trans, trans[t].path)
  <2>1. ts \in Records /\ \A u \in Id : Same(ts[u], trans[u]) /\ ts[u].succeeded = trans[u].succeeded
    BY <1>1, <1>2, RenamedFacts
  <2>2. ended(ts, t)
    BY <1>5
  <2> HIDE DEF ts
  <2>3. \A u \in Id : Alike(trans[u], ts[u], u \in handles)
    BY <2>1 DEF Alike, Same
  <2>4. QED BY <1>1, <2>1, <2>2, <2>3, EndMoves
<1>6. CASE endPut(t)
  <2>1. CASE begin(trans, "checksum", trans[t].path, t) /\ UNCHANGED handles
    <3>1. "checksum" \in Waits
      BY DEF Waits
    <3>2. \A u \in Id : Alike(trans[u], trans'[u], u \in handles)
      BY <1>1, <1>2, <2>1, <3>1, AlikeSelf, BeginAlike
    <3>3. QED BY <2>1, <3>2, NoneMoves
  <2>2. QED BY <1>3, <1>6, <2>1 DEF endPut
<1>7. endGet(t) => ended(renamed(trans, trans[t].path), t) \/ ended(trans, t)
  BY DEF endGet
<1>8. QED BY <1>3, <1>4, <1>5, <1>6, <1>7

LEMMA CancelMoves ==
  ASSUME IInv, IInv', NEW t \in Id, cancelGet(t) \/ cancelPut(t)
  PROVE  T!Next
<1>1. /\ trans \in Records /\ Owned(trans, handles, main.op, lost, next)
      /\ t \in handles /\ handles' = handles \ {t}
  BY Invariants DEF cancelGet, cancelPut, cancelled
<1>2. trans[t].path \in Path /\ trans[t].op \in {"put", "get"}
  BY <1>1 DEF Owned
<1> DEFINE us == Dropped(t)
<1>3. us \in Records /\ us[t].op = trans[t].op /\ \A u \in Id : u # t => us[u] = trans[u]
  BY <1>1, DroppedFacts
<1>4. \A u \in Id : Alike(trans[u], us[u], u \in handles')
  BY <1>1, <1>3 DEF Alike
<1>5. SUFFICES \A u \in Id : Alike(trans[u], trans'[u], u \in handles')
  <2>1. \A u \in Id : u # t => (u \in handles' <=> u \in handles)
    BY <1>1
  <2>2. Moves(Seen(trans[t], t \in handles), Seen(trans'[t], t \in handles'))
    BY <1>1, <1>2, <1>5 DEF Moves, Seen, Alike
  <2>3. QED BY <1>5, <2>1, <2>2, OneMoves
<1>6. CASE cancelGet(t)
  <2> DEFINE p == trans[t].path
             v == moved(us, p, "locked", "gone")
  <2>1. trans' = moved(v, p, "final", "gone")
    BY <1>6 DEF cancelGet, Dropped
  <2> HIDE DEF us
  <2>2. v \in Records /\ \A u \in Id : Same(v[u], us[u]) /\ v[u].succeeded = us[u].succeeded
    BY <1>2, <1>3, MovedFacts
  <2> HIDE DEF v
  <2>3. \A u \in Id : Same(trans'[u], v[u]) /\ trans'[u].succeeded = v[u].succeeded
    BY <1>2, <2>1, <2>2, MovedFacts
  <2>4. QED BY <1>4, <2>2, <2>3 DEF Alike, Same
<1>7. CASE cancelPut(t)
  <2>1. \/ begin(us, "rmLocked", trans[t].path, none)
        \/ begin(us, "rmFinal", trans[t].path, none)
        \/ trans' = us
    BY <1>7 DEF cancelPut, Dropped
  <2>2. {"rmLocked", "rmFinal"} \subseteq Waits /\ handles' \in SUBSET handles
    BY <1>1 DEF Waits
  <2> HIDE DEF us
  <2>3. QED BY <1>2, <1>3, <1>4, <2>1, <2>2, BeginAlike
<1>8. QED BY <1>6, <1>7

LEMMA StepMoves ==
  ASSUME IInv, IInv', [Next]_vars
  PROVE  [T!Next]_status
<1>1. CASE UNCHANGED vars
  <2>1. \A u \in Id : Alike(trans[u], trans'[u], u \in handles) /\ UNCHANGED handles
    BY <1>1 DEF vars, Alike
  <2>2. UNCHANGED handles
    BY <1>1 DEF vars
  <2>3. QED BY <2>1, <2>2, NoneMoves
<1>2. ASSUME NEW op \in {"put", "get"}, NEW p \in Path, startFails(op, p)
      PROVE  T!Next
  BY <1>2, StartMoves
<1>3. ASSUME NEW p \in Remote, digs_startPutTransfer(p) \/ startFtpWriteFails(p)
      PROVE  T!Next
  BY <1>3, StartMoves DEF digs_startPutTransfer, Path
<1>4. ASSUME NEW p \in Local, digs_startGetTransfer(p) \/ startFtpReadFails(p)
      PROVE  T!Next
  BY <1>4, StartMoves DEF digs_startGetTransfer, Path
<1>5. QED
  BY <1>1, <1>2, <1>3, <1>4, CallMoves, WaitMoves, DataMoves, CompletionMoves, FinishMoves,
     CancelMoves
  DEF Next

(* A transfer seen through its handle starts once, settles once and ends    *)
(* once, as the interface of a storage element promises, whatever else the  *)
(* threads do (digs_monitorTransfer_globus, digs_endTransfer_globus).       *)
THEOREM KeepsThePromise == Spec => ImplementsTransfer
<1>1. Init => T!Init
  <2>1. ASSUME Init PROVE T!Init
    <3>1. \A t \in Id : trans[t].op = "none"
      BY <2>1 DEF Init, blank
    <3>2. QED BY <3>1 DEF status, isTransfer, T!Init
  <2>2. QED BY <2>1
<1>2. IInv /\ IInv' /\ [Next]_vars => [T!Next]_status
  BY StepMoves
<1>3. QED
  BY <1>1, <1>2, Invariance, PTL DEF Spec, ImplementsTransfer, T!Spec

-----------------------------------------------------------------------------
(* What has its own name is whole *)

(* An operation on the files of p that the library has, and one that is a  *)
(* transfer.                                                               *)
onPath(u, p) == trans[u].running /\ trans[u].path = p
sends(u, p) == onPath(u, p) /\ isTransfer(u)

(* Callers, and what they were told, are apart. *)
Apart ==
  /\ \A t, u \in handles : trans[t].path = trans[u].path => t = u
  /\ main.t # none => trans[main.op].path = trans[main.t].path
  /\ main.op # none => \A t \in handles : trans[t].path = trans[main.op].path => t = main.t
  /\ \A p \in Path : /\ locked[p] # none => locked[p].by < next
                     /\ told[p] # none => told[p] < next

(* The transfer of p in a caller's hands has p for itself. *)
Alone(p) ==
  /\ \A t, u \in Id : sends(t, p) /\ sends(u, p) => t = u
  /\ \A t \in handles, u \in Id : trans[t].path = p /\ onPath(u, p) => u \in {t, main.op}
  /\ \A t \in handles : trans[t].path = p /\ told[p] # none => told[p] < t

(* What the transfer has sent is in p-LOCKED. *)
Sent(p) ==
  \A t \in Id : sends(t, p) =>
    /\ trans[t].at = "locked" <=> locked[p] # none /\ locked[p].by = t
    /\ trans[t].at = "locked" => locked[p].n = trans[t].sent
    /\ trans[t].at = "final" => trans[t].sent = Blocks

(* p-LOCKED may become p. *)
Ready(p) ==
  /\ locked[p] # none => whole(locked[p]) /\ (told[p] # none => locked[p].by >= told[p])
  /\ \A t \in Id : sends(t, p) => trans[t].sent = Blocks

(* The main thread moves, or is about to move, p-LOCKED to p for a put. *)
moving(p) ==
  /\ main.t # none /\ trans[main.t].path = p
  /\ \/ main.at = "mv" /\ trans[main.op].running
     \/ main.at = "checksum" /\ sameChecksum(trans[main.op].seen, main.t)

Moved(p) ==
  /\ \A u \in Id : onPath(u, p) /\ trans[u].op = "mv" => Ready(p)
  /\ moving(p) => Ready(p) /\ (locked[p] # none => locked[p].by = main.t)
  /\ main.at = "mv" /\ trans[main.t].path = p /\ trans[main.op].done /\ trans[main.op].succeeded
       => final[p] # none /\ final[p].by = main.t

(* What is at p, and who may remove it. *)
Published(p) ==
  /\ final[p] # none => whole(final[p])
  /\ told[p] # none => /\ p \notin unmoved => final[p] # none /\ final[p].by >= told[p]
                       /\ \A u \in Id : onPath(u, p) => trans[u].op # "rmFinal"
                       /\ main.at = "rmLocked" => trans[main.op].path # p

Tidy(p) == Alone(p) /\ Sent(p) /\ Moved(p) /\ Published(p)

FInv == Apart /\ \A p \in Path \ overlapped : Tidy(p)

(* An operation that the library still has is the one it had. *)
Still(y, x) == y.running => /\ x.running /\ y.op = x.op /\ y.path = x.path
                            /\ y.at = x.at /\ y.sent = x.sent

(* The main thread goes on to wait for the same, or for nothing to do with p. *)
MainSame(p) ==
  /\ main' = main
  /\ main.t # none => trans'[main.t].path = trans[main.t].path
  /\ main.op # none => trans'[main.op].path = trans[main.op].path
  /\ trans'[main.op].done /\ trans'[main.op].succeeded /\ main.at = "mv" /\ trans[main.t].path = p
       => trans[main.op].done /\ trans[main.op].succeeded
  /\ moving(p)' => moving(p) \/ (Ready(p) /\ (locked[p] # none => locked[p].by = main.t))

MainAway(p) ==
  /\ main'.t # none => trans'[main'.t].path # p
  /\ main'.at = "rmLocked" => trans'[main'.op].path # p
  /\ \A t \in handles' : trans'[t].path = p /\ main.op # none => trans[main.op].path # p

LEMMA Frame ==
  ASSUME IInv, IInv', NEW p \in Path, Tidy(p),
         \A u \in Id : trans'[u].path = p => Still(trans'[u], trans[u]),
         \A t \in handles' : trans'[t].path = p => t \in handles /\ trans[t].path = p,
         locked'[p] = locked[p], final'[p] = final[p], told'[p] \in {told[p], none},
         p \in unmoved => p \in unmoved', MainSame(p) \/ MainAway(p)
  PROVE  Tidy(p)'
<1>1. \A u \in Id : onPath(u, p)' => /\ onPath(u, p) /\ trans'[u].op = trans[u].op
                                     /\ trans'[u].at = trans[u].at /\ trans'[u].sent = trans[u].sent
  BY DEF Still, onPath
<1>2. \A u \in Id : sends(u, p)' => sends(u, p)
  BY <1>1 DEF sends, isTransfer
<1>3. handles \subseteq Id /\ handles' \subseteq Id /\ (main.op # none => main.op \in Id)
      /\ (main.t # none => main.t \in Id)
  BY DEF IInv, TypeOK, Main
<1>4. Ready(p) => Ready(p)'
  BY <1>1, <1>2 DEF Ready, sends
<1>5. Alone(p)'
  <2>1. \A t, u \in Id : sends(t, p)' /\ sends(u, p)' => t = u
    BY <1>2 DEF Tidy, Alone
  <2>2. \A t \in handles', u \in Id : trans'[t].path = p /\ onPath(u, p)' => u \in {t, main'.op}
    <3>1. SUFFICES ASSUME NEW t \in handles', NEW u \in Id, trans'[t].path = p, onPath(u, p)'
                   PROVE  u \in {t, main'.op}
      OBVIOUS
    <3>2. u \in {t, main.op}
      BY <1>1, <3>1 DEF Tidy, Alone
    <3>3. CASE MainSame(p)
      BY <3>2, <3>3 DEF MainSame
    <3>4. CASE MainAway(p)
      BY <1>1, <3>1, <3>2, <3>4, IdFacts DEF MainAway, onPath
    <3>5. QED BY <3>3, <3>4
  <2>3. \A t \in handles' : trans'[t].path = p /\ told'[p] # none => told'[p] < t
    BY DEF Tidy, Alone
  <2>4. QED BY <2>1, <2>2, <2>3 DEF Alone
<1>6. Sent(p)'
  <2>1. \A t \in Id : sends(t, p)' => /\ sends(t, p) /\ trans'[t].at = trans[t].at
                                     /\ trans'[t].sent = trans[t].sent
    BY <1>1, <1>2 DEF sends
  <2>2. QED BY <2>1 DEF Tidy, Sent
<1>7. Moved(p)'
  <2>1. \A u \in Id : onPath(u, p)' /\ trans'[u].op = "mv" => Ready(p)'
    BY <1>1, <1>4 DEF Tidy, Moved
  <2>2. main'.at = "mv" => main'.t # none
    BY DEF IInv, MainOK
  <2>3. CASE MainSame(p)
    <3>1. main' = main
      BY <2>3 DEF MainSame
    <3>2. moving(p)' => moving(p) \/ (Ready(p) /\ (locked[p] # none => locked[p].by = main.t))
      BY <2>3 DEF MainSame
    <3>3. main.at = "mv" /\ trans'[main.t].path = p /\ trans'[main.op].done
            /\ trans'[main.op].succeeded =>
              trans[main.t].path = p /\ trans[main.op].done /\ trans[main.op].succeeded
      BY <2>2, <2>3, <3>1 DEF MainSame
    <3>4. moving(p)' => Ready(p)' /\ (locked'[p] # none => locked'[p].by = main'.t)
      BY <1>4, <3>1, <3>2 DEF Tidy, Moved
    <3>5. main'.at = "mv" /\ trans'[main'.t].path = p /\ trans'[main'.op].done
            /\ trans'[main'.op].succeeded => final'[p] # none /\ final'[p].by = main'.t
      BY <3>1, <3>3 DEF Tidy, Moved
    <3>6. QED BY <2>1, <3>4, <3>5 DEF Moved
  <2>4. CASE MainAway(p)
    BY <2>1, <2>2, <2>4 DEF MainAway, Moved, moving
  <2>5. QED BY <2>3, <2>4
<1>8. Published(p)'
  <2>1. told'[p] # none /\ main'.at = "rmLocked" => trans'[main'.op].path # p
    <3>1. CASE MainSame(p)
      <4>1. main.at = "rmLocked" => main.op # none
        BY DEF IInv, MainOK
      <4>2. QED BY <3>1, <4>1 DEF MainSame, Tidy, Published
    <3>2. CASE MainAway(p)
      BY <3>2 DEF MainAway
    <3>3. QED BY <3>1, <3>2
  <2>2. final'[p] # none => whole(final'[p])
    BY DEF Tidy, Published
  <2>3. told'[p] # none => /\ p \notin unmoved' => final'[p] # none /\ final'[p].by >= told'[p]
                           /\ \A u \in Id : onPath(u, p)' => trans'[u].op # "rmFinal"
    BY <1>1 DEF Tidy, Published
  <2>4. QED BY <2>1, <2>2, <2>3 DEF Published
<1>9. QED BY <1>5, <1>6, <1>7, <1>8 DEF Tidy
(* The records after each of the things that happen to them *)

LEMMA NewSeen == \A op, p : newFtpTransaction(op, p).seen = none
BY DEF newFtpTransaction, blank

LEMMA FreedPath == \A x : freed(x).path = none
BY DEF freed, blank

LEMMA DestroyStill ==
  ASSUME NEW ts \in Records, NEW t \in Id
  PROVE  \A u \in Id : Still(destroyFtpTransaction(ts, t)[u], ts[u])
<1> DEFINE d == destroyFtpTransaction(ts, t)
<1>1. /\ \A u \in Id : u # t => d[u] = ts[u]
      /\ ts[t].running => d[t] = [ts[t] EXCEPT !.mem = "leaked"]
      /\ ~ts[t].running => d[t] = freed(ts[t])
  BY DestroyFacts
<1>2. ts[t] \in Transaction
  BY DEF Records
<1> HIDE DEF d
<1>3. Still(d[t], ts[t])
  BY <1>1, <1>2, FreedFacts DEF Still, Transaction
<1>4. \A u \in Id : Still(d[u], ts[u])
  BY <1>1, <1>3 DEF Still
<1>5. QED BY <1>4 DEF d

LEMMA WaitStill ==
  ASSUME IInv, main.op \in Id
  PROVE  LET ts == waitOnFtp(main.op).ts
         IN  /\ ts \in Records
             /\ \A u \in Id : Still(ts[u], trans[u])
             /\ \A u \in Id : u # main.op => ts[u] = trans[u]
             /\ waitOnFtp(main.op).ok => /\ trans[main.op].done /\ trans[main.op].succeeded
                                         /\ ~trans[main.op].running
<1> DEFINE op == main.op
           ts == waitOnFtp(op).ts
<1>1. trans \in Records /\ ~(trans[op].done /\ trans[op].running) /\ trans[op] \in Transaction
  BY Invariants, PathOf DEF Owned
<1>2. /\ ts \in Records
      /\ \A u \in Id : u # op => ts[u] = trans[u]
      /\ trans[op].done => ts[op] = freed(trans[op])
      /\ ~trans[op].done => ts[op] = [trans[op] EXCEPT !.waiting = FALSE]
      /\ waitOnFtp(op).ok => trans[op].done
  BY <1>1, WaitFacts
<1>3. waitOnFtp(op).ok => trans[op].succeeded
  BY DEF waitOnFtp
<1> HIDE DEF ts
<1>4. Still(ts[op], trans[op])
  BY <1>1, <1>2, FreedFacts DEF Still, Transaction
<1>5. \A u \in Id : Still(ts[u], trans[u])
  BY <1>2, <1>4 DEF Still
<1>6. QED BY <1>1, <1>2, <1>3, <1>5 DEF ts

LEMMA CallbackStill ==
  ASSUME NEW ts \in Records, NEW t \in Id, NEW ok \in BOOLEAN
  PROVE  /\ \A u \in Id : Still(callback(ts, t, ok)[u], ts[u])
         /\ ~callback(ts, t, ok)[t].running
         /\ ts[t].waiting => /\ callback(ts, t, ok)[t].succeeded = ok
                             /\ callback(ts, t, ok)[t].seen = ts[t].seen
<1> DEFINE c == callback(ts, t, ok)
           x == [ts[t] EXCEPT !.running = FALSE, !.done = TRUE,
                              !.succeeded = ok, !.sent = 0, !.at = "unopened"]
<1>1. ~c[t].running /\ \A u \in Id : u # t => c[u] = ts[u]
  BY CallbackFacts
<1>2. ts[t] \in Transaction
  BY DEF Records
<1>3. ts[t].waiting => c[t] = x
  BY <1>2 DEF callback, Records
<1>4. x.succeeded = ok /\ x.seen = ts[t].seen
  BY <1>2 DEF Transaction
<1> HIDE DEF c, x
<1>5. \A u \in Id : Still(c[u], ts[u])
  BY <1>1 DEF Still
<1>6. QED BY <1>1, <1>3, <1>4, <1>5 DEF c

LEMMA DroppedStill ==
  ASSUME trans \in Records, NEW t \in Id
  PROVE  \A u \in Id : Still(Dropped(t)[u], trans[u])
BY DroppedFacts DEF Still

LEMMA StillTwice ==
  ASSUME NEW x, NEW y, NEW z, Still(z, y), Still(y, x)
  PROVE  Still(z, x)
BY DEF Still

LEMMA KeepApart ==
  ASSUME IInv, IInv', Apart, handles' \subseteq handles,
         \A t \in handles' : trans'[t].path = trans[t].path,
         \A p \in Path : /\ locked'[p] # none => locked'[p].by < next'
                         /\ told'[p] # none => told'[p] < next',
         \/ main' = idle
         \/ main' = main /\ (main.op # none => trans'[main.op].path = trans[main.op].path)
         \/ /\ main'.op \in Id
            /\ main'.t # none => trans'[main'.op].path = trans'[main'.t].path
            /\ \A t \in handles' : trans'[t].path = trans'[main'.op].path => t = main'.t
  PROVE  Apart'
<1>1. \A t, u \in handles' : trans'[t].path = trans'[u].path => t = u
  BY DEF Apart
<1>2. main'.t # none => main'.t \in handles' /\ main'.op # none
  BY DEF IInv, MainOK
<1>3. CASE main' = idle
  BY <1>1, <1>3, IdleMain DEF Apart
<1>4. CASE main' = main /\ (main.op # none => trans'[main.op].path = trans[main.op].path)
  BY <1>1, <1>2, <1>4 DEF Apart
<1>5. CASE /\ main'.op \in Id
           /\ main'.t # none => trans'[main'.op].path = trans'[main'.t].path
           /\ \A t \in handles' : trans'[t].path = trans'[main'.op].path => t = main'.t
  BY <1>1, <1>5 DEF Apart
<1>6. QED BY <1>3, <1>4, <1>5

(* The bounds that Apart gives, where the files and reports stay as they are. *)
LEMMA Bounds ==
  ASSUME IInv, IInv', Apart, next <= next', UNCHANGED locked,
         \A p \in Path : told'[p] \in {told[p], none}
  PROVE  \A p \in Path : /\ locked'[p] # none => locked'[p].by < next'
                         /\ told'[p] # none => told'[p] < next'
<1>1. SUFFICES ASSUME NEW p \in Path
               PROVE  /\ locked[p] # none => locked[p].by < next'
                      /\ told[p] # none => told[p] < next'
  OBVIOUS
<1>2. /\ locked[p] # none => locked[p].by < next /\ locked[p].by \in Nat
      /\ told[p] # none => told[p] < next /\ told[p] \in Nat
  <2>1. locked[p] \in Content /\ told[p] \in Id \cup {none}
    BY DEF IInv, TypeOK
  <2>2. QED BY <2>1, IdFacts DEF Apart, Content, Data
<1>3. next \in Nat /\ next' \in Nat
  BY MaxAssumption DEF IInv, TypeOK
<1>4. QED BY <1>2, <1>3
(* The first operation on the files of p, when the library has no other.   *)
LEMMA FreshStart ==
  ASSUME IInv, IInv', Apart, NEW p \in Path, Tidy(p), main = idle, main' = idle, next \in Id,
         \A u \in Id : ~onPath(u, p), \A t \in handles : trans[t].path # p,
         \A u \in Id : u # next => trans'[u] = trans[u],
         trans'[next].op \in {"put", "get"}, trans'[next].at = "unopened",
         handles' \subseteq handles \cup {next},
         UNCHANGED <<locked, final, told, unmoved>>
  PROVE  Tidy(p)'
<1>1. \A u \in Id : onPath(u, p)' => u = next
  BY DEF onPath
<1>2. \A u \in handles' : trans'[u].path = p => u = next
  BY DEF IInv, TypeOK
<1>3. /\ locked[p] # none => locked[p].by # next
      /\ told[p] # none => told[p] < next
  BY IdFacts DEF Apart
<1>4. main'.t = none /\ main'.at = "idle"
  BY IdleMain
<1>5. Alone(p)'
  BY <1>1, <1>2, <1>3 DEF Alone, sends
<1>6. Sent(p)'
  BY <1>1, <1>3 DEF Sent, sends
<1>7. Moved(p)'
  BY <1>1, <1>4 DEF Moved, moving
<1>8. Published(p)'
  BY <1>1, <1>4 DEF Published, Tidy
<1>9. QED BY <1>5, <1>6, <1>7, <1>8 DEF Tidy

LEMMA BeginsTidy ==
  ASSUME IInv, IInv', FInv, NEW p \in Path, mayStart(p),
         NEW x \in Transaction, NEW g \in {{}, {next}},
         x.op \in {"none", "put", "get"}, x.at = "unopened",
         x.running => x.op \in {"put", "get"} /\ x.path = p /\ overlapped' = overlaps(p),
         ~x.running => g = {} /\ UNCHANGED overlapped,
         trans' = [trans EXCEPT ![next] = x], next' = next + 1,
         handles' = handles \cup g, UNCHANGED <<main, locked, final, told, unmoved>>
  PROVE  FInv'
<1>1. /\ main = idle /\ main' = idle /\ next \in Id /\ trans \in Records /\ handles \subseteq Id
      /\ Owned(trans, handles, main.op, lost, next) /\ next \in 0..MaxId
      /\ \A t \in handles : trans[t].path # p
  BY Invariants, NextId DEF mayStart
<1>2. trans'[next] = x /\ \A u \in Id : u # next => trans'[u] = trans[u]
  BY <1>1 DEF Records
<1>3. next \notin handles /\ \A t \in handles' : t # next => t \in handles /\ trans'[t] = trans[t]
  BY <1>1, <1>2, IdFacts DEF Owned
<1>4. next \in handles' => x.running
  BY <1>1, <1>3
<1>5. Apart'
  <2>1. \A t, u \in handles' : trans'[t].path = trans'[u].path => t = u
    BY <1>1, <1>2, <1>3, <1>4 DEF FInv, Apart
  <2>2. \A q \in Path : /\ locked'[q] # none => locked'[q].by < next'
                        /\ told'[q] # none => told'[q] < next'
    BY <1>1, IdFacts, Bounds DEF FInv
  <2>3. QED BY <1>1, <2>1, <2>2, IdleMain DEF Apart
<1>6. ASSUME NEW q \in Path, q \notin overlapped' PROVE Tidy(q)'
  <2>1. q \notin overlapped
    BY <1>6 DEF overlaps
  <2>2. Tidy(q)
    BY <2>1 DEF FInv
  <2>3. CASE x.running /\ q = p
    <3>1. \A u \in Id : ~onPath(u, p)
      BY <1>6, <2>3 DEF overlaps, onPath, running
    <3>2. QED BY <1>1, <1>2, <2>2, <2>3, <3>1, FreshStart DEF FInv
  <2>4. CASE ~(x.running /\ q = p)
    <3>1. \A u \in Id : trans'[u].path = q => Still(trans'[u], trans[u])
      BY <1>2, <2>4 DEF Still
    <3>2. \A t \in handles' : trans'[t].path = q => t \in handles /\ trans[t].path = q
      BY <1>2, <1>3, <1>4, <2>4
    <3>3. MainAway(q)
      BY <1>1, IdleMain DEF MainAway
    <3>4. QED BY <2>2, <3>1, <3>2, <3>3, Frame
  <2>5. QED BY <2>3, <2>4
<1>7. QED BY <1>5, <1>6 DEF FInv

LEMMA StartsTidy ==
  ASSUME IInv, IInv', FInv, NEW op \in {"put", "get"}, NEW p \in Path,
         \/ startFails(op, p) \/ startTransfer(op, p)
         \/ startFtpWriteFails(p) \/ startFtpReadFails(p)
  PROVE  FInv'
<1>0. trans \in Records /\ next \in 0..MaxId
  BY Invariants
<1>1. mayStart(p) /\ next \in Id
  <2>1. mayStart(p)
    BY DEF startFails, startTransfer, startFtpWriteFails, startFtpReadFails
  <2>2. QED BY <1>0, <2>1, NextId DEF mayStart
<1>2. next' = next + 1 /\ UNCHANGED <<main, locked, final, told, unmoved>>
  BY DEF startFails, startTransfer, startFtpWriteFails, startFtpReadFails, files, history
<1>3. CASE startFails(op, p)
  <2> DEFINE y == newFtpTransaction(op, p)
  <2>1. y \in Transaction
    BY NewFacts
  <2>2. /\ trans' = [trans EXCEPT ![next] = freed(y)] /\ handles' = handles \cup {}
        /\ UNCHANGED <<overlapped, unmoved>>
    BY <1>3 DEF startFails, history
  <2> HIDE DEF y
  <2>3. /\ freed(y) \in Transaction /\ ~freed(y).running /\ freed(y).at = "unopened"
        /\ freed(y).op \in {"none", "put", "get"}
    BY <2>1, FreedFacts DEF freed, blank
  <2>4. QED BY <1>1, <1>2, <2>2, <2>3, BeginsTidy
<1>4. CASE startTransfer(op, p)
  <2> DEFINE y == newFtpTransaction(op, p)
  <2>1. /\ y \in Transaction /\ y.op = op /\ y.path = p /\ y.running /\ y.at = "unopened"
    BY NewFacts
  <2>2. /\ trans' = [trans EXCEPT ![next] = y] /\ handles' = handles \cup {next}
        /\ overlapped' = overlaps(p)
    BY <1>4 DEF startTransfer
  <2> HIDE DEF y
  <2>3. QED BY <1>1, <1>2, <2>1, <2>2, BeginsTidy
<1>5. CASE startFtpWriteFails(p)
  <2> DEFINE y == [newFtpTransaction("put", p) EXCEPT !.succeeded = FALSE]
  <2>1. y \in Transaction /\ y.op = "put" /\ y.path = p /\ y.running /\ y.at = "unopened"
    BY BrokenFacts
  <2>2. /\ trans' = [trans EXCEPT ![next] = y] /\ handles' = handles \cup {}
        /\ overlapped' = overlaps(p)
    BY <1>5 DEF startFtpWriteFails
  <2> HIDE DEF y
  <2>3. QED BY <1>1, <1>2, <2>1, <2>2, BeginsTidy
<1>6. CASE startFtpReadFails(p)
  <2> DEFINE y == [newFtpTransaction("get", p) EXCEPT !.succeeded = FALSE]
             z == [y EXCEPT !.mem = "leaked"]
  <2>1. y \in Transaction /\ y.op = "get" /\ y.path = p /\ y.running /\ y.at = "unopened"
    BY BrokenFacts
  <2>2. /\ trans' = destroyFtpTransaction([trans EXCEPT ![next] = y], next)
        /\ UNCHANGED handles /\ overlapped' = overlaps(p)
    BY <1>6 DEF startFtpReadFails
  <2> HIDE DEF y
  <2>3. destroyFtpTransaction([trans EXCEPT ![next] = y], next) = [trans EXCEPT ![next] = z]
    BY <1>0, <1>1, <2>1 DEF destroyFtpTransaction, Records
  <2>4. z \in Transaction /\ z.op = "get" /\ z.path = p /\ z.running /\ z.at = "unopened"
    BY <2>1 DEF Transaction
  <2> HIDE DEF z
  <2>5. trans' = [trans EXCEPT ![next] = z] /\ handles' = handles \cup {}
    BY <2>2, <2>3
  <2>6. QED BY <1>1, <1>2, <2>2, <2>4, <2>5, BeginsTidy
<1>7. QED BY <1>3, <1>4, <1>5, <1>6
(* The main thread is back, and has no more to do with the transfer.       *)
LEMMA ReturnsTidy ==
  ASSUME IInv, IInv', FInv, main' = idle, handles' \subseteq handles \ {main.t},
         \A u \in Id : Still(trans'[u], trans[u]),
         \A u \in handles' : trans'[u].path = trans[u].path,
         \A p \in Path : told'[p] \in {told[p], none},
         UNCHANGED <<next, locked, final, overlapped, unmoved>>
  PROVE  FInv'
<1>1. handles' \subseteq Id /\ next \in Nat
  BY MaxAssumption DEF IInv, TypeOK
<1>2. Apart'
  <2>1. \A p \in Path : /\ locked'[p] # none => locked'[p].by < next'
                        /\ told'[p] # none => told'[p] < next'
    BY <1>1, Bounds DEF FInv
  <2>2. QED BY <2>1, KeepApart DEF FInv
<1>3. ASSUME NEW p \in Path, p \notin overlapped PROVE Tidy(p)'
  <2>1. MainAway(p)
    BY IdleMain DEF MainAway, FInv, Apart
  <2>2. Tidy(p)
    BY <1>3 DEF FInv
  <2>3. QED BY <2>1, <2>2, Frame
<1>4. QED BY <1>2, <1>3 DEF FInv

LEMMA EndedTidy ==
  ASSUME IInv, IInv', FInv, NEW ts \in Records, NEW t \in handles, main.t \in {none, t},
         \A u \in Id : Still(ts[u], trans[u]),
         \A u \in handles : ts[u].path = trans[u].path,
         ended(ts, t), UNCHANGED <<next, locked, final, told, overlapped, unmoved>>
  PROVE  FInv'
<1>1. t \in Id /\ handles \subseteq Id
  BY DEF IInv, TypeOK
<1>2. handles' = handles \ {t} /\ main' = idle
  BY DEF ended
<1>3. /\ \A u \in Id : Still(trans'[u], ts[u])
      /\ \A u \in Id : u # t => trans'[u] = ts[u]
  BY <1>1, DestroyStill, DestroyFacts DEF ended
<1>4. \A u \in Id : Still(trans'[u], trans[u])
  BY <1>3, StillTwice
<1>5. \A u \in handles' : trans'[u].path = trans[u].path
  BY <1>1, <1>2, <1>3
<1>6. handles' \subseteq handles \ {main.t}
  BY <1>1, <1>2, IdFacts
<1>7. QED BY <1>2, <1>4, <1>5, <1>6, ReturnsTidy

(* The main thread starts an operation, on a file of q, that is not a      *)
(* transfer.                                                               *)
LEMMA BeginTidy ==
  ASSUME IInv, IInv', FInv, NEW ts \in Records, NEW op \in Waits, NEW q \in Path \cup {none},
         NEW t \in Id \cup {none}, begin(ts, op, q, t),
         \A u \in Id : Still(ts[u], trans[u]), handles' \subseteq handles,
         \A u \in handles' : ts[u].path = trans[u].path /\ u # next,
         t # none => t \in handles' /\ trans[t].path = q,
         main.op # none => trans[main.op].path = q,
         \A u \in handles' : trans[u].path = q => u = t /\ (main.op = none \/ ~ts[main.op].running),
         \A p \in Path : told'[p] \in {told[p], none},
         UNCHANGED <<locked, final, overlapped, unmoved>>,
         q \in Path \ overlapped /\ op \in {"rmLocked", "rmFinal"} => told'[q] = none,
         q \in Path \ overlapped /\ op = "mv" =>
           Ready(q) /\ (locked[q] # none => locked[q].by = t)
  PROVE  FInv'
<1> DEFINE x == newFtpTransaction(op, q)
<1>1. /\ x.op = op /\ x.path = q /\ ~x.done /\ x.running /\ x.seen = none /\ x \in Transaction
  BY NewFacts, NewSeen
<1>2. /\ next \in Id /\ next' = next + 1 /\ trans' = [ts EXCEPT ![next] = x]
      /\ main' = [at |-> op, op |-> next, t |-> t]
  BY Invariants, NextId DEF begin
<1> HIDE DEF x
<1>3. trans'[next] = x /\ \A u \in Id : u # next => trans'[u] = ts[u]
  BY <1>2 DEF Records
<1>4. main'.at = op /\ main'.op = next /\ main'.t = t
  BY <1>2
<1>5. handles \subseteq Id /\ handles' \subseteq Id
  BY DEF IInv, TypeOK
<1>6. \A u \in handles' : trans'[u].path = trans[u].path
  BY <1>3, <1>5
<1>7. \A u \in Id : u # next => Still(trans'[u], trans[u])
  BY <1>3
<1>8. op \notin {"put", "get"}
  BY DEF Waits
<1>9. Apart'
  <2>1. \A p \in Path : /\ locked'[p] # none => locked'[p].by < next'
                        /\ told'[p] # none => told'[p] < next'
    BY <1>2, IdFacts, Bounds DEF FInv
  <2>2. main'.t # none => trans'[main'.op].path = trans'[main'.t].path
    BY <1>1, <1>3, <1>4, <1>6
  <2>3. \A u \in handles' : trans'[u].path = trans'[main'.op].path => u = main'.t
    BY <1>1, <1>3, <1>4, <1>6
  <2>4. QED BY <1>2, <1>4, <1>6, <2>1, <2>2, <2>3, KeepApart DEF FInv
<1>10. ASSUME NEW p \in Path, p \notin overlapped, p # q PROVE Tidy(p)'
  <2>1. \A u \in Id : trans'[u].path = p => Still(trans'[u], trans[u])
    BY <1>1, <1>3, <1>7, <1>10
  <2>2. MainAway(p)
    <3>1. main'.t # none => trans'[main'.t].path # p
      BY <1>4, <1>6, <1>10
    <3>2. main'.at = "rmLocked" => trans'[main'.op].path # p
      BY <1>1, <1>3, <1>4, <1>10
    <3>3. QED BY <1>10, <3>1, <3>2 DEF MainAway
  <2>3. Tidy(p)
    BY <1>10 DEF FInv
  <2>4. QED BY <1>6, <2>1, <2>2, <2>3, Frame
<1>11. ASSUME q \in Path, q \notin overlapped PROVE Tidy(q)'
  <2>1. Tidy(q) /\ told'[q] \in {told[q], none} /\ locked'[q] = locked[q] /\ final'[q] = final[q]
    BY <1>11 DEF FInv
  <2>2. \A u \in Id : onPath(u, q)' => \/ u = next
                                       \/ /\ onPath(u, q) /\ trans'[u].op = trans[u].op
                                          /\ trans'[u].at = trans[u].at
                                          /\ trans'[u].sent = trans[u].sent
    BY <1>7 DEF Still, onPath
  <2>3. \A u \in Id : sends(u, q)' => /\ sends(u, q) /\ trans'[u].at = trans[u].at
                                      /\ trans'[u].sent = trans[u].sent
    BY <1>1, <1>3, <1>8, <2>2 DEF sends, isTransfer
  <2>4. Ready(q) => Ready(q)'
    BY <2>1, <2>3 DEF Ready
  <2>5. Alone(q)'
    <3>1. \A u, v \in Id : sends(u, q)' /\ sends(v, q)' => u = v
      BY <2>1, <2>3 DEF Tidy, Alone
    <3>2. ASSUME NEW h \in handles', NEW u \in Id, trans'[h].path = q, onPath(u, q)', u # next
          PROVE  u = h
      <4>1. h = t /\ trans[h].path = q /\ h \in handles /\ (main.op = none \/ ~ts[main.op].running)
        BY <1>6, <3>2
      <4>2. onPath(u, q) /\ ts[u].running
        BY <1>3, <2>2, <3>2 DEF onPath
      <4>3. u \in {h, main.op}
        BY <2>1, <4>1, <4>2 DEF Tidy, Alone
      <4>4. QED BY <4>1, <4>2, <4>3, IdFacts
    <3>3. \A h \in handles' : trans'[h].path = q /\ told'[q] # none => told'[q] < h
      BY <1>6, <2>1 DEF Tidy, Alone
    <3>4. QED BY <1>4, <3>1, <3>2, <3>3 DEF Alone
  <2>6. Sent(q)'
    BY <2>1, <2>3 DEF Tidy, Sent
  <2>7. Moved(q)'
    <3>1. op = "mv" => Ready(q)' /\ (locked'[q] # none => locked'[q].by = t)
      BY <1>11, <2>1, <2>4
    <3>2. \A u \in Id : onPath(u, q)' /\ trans'[u].op = "mv" => Ready(q)'
      BY <1>1, <1>3, <2>1, <2>2, <2>4, <3>1 DEF Tidy, Moved
    <3>3. moving(q)' => op = "mv"
      BY <1>1, <1>3, <1>4 DEF moving, sameChecksum, whole
    <3>4. ~trans'[main'.op].done
      BY <1>1, <1>3, <1>4
    <3>5. QED BY <1>4, <3>1, <3>2, <3>3, <3>4 DEF Moved
  <2>8. Published(q)'
    <3>1. told'[q] # none => op \notin {"rmLocked", "rmFinal"}
      BY <1>11
    <3>2. told'[q] # none => \A u \in Id : onPath(u, q)' => trans'[u].op # "rmFinal"
      BY <1>1, <1>3, <2>1, <2>2, <3>1 DEF Tidy, Published
    <3>3. QED BY <1>4, <2>1, <3>1, <3>2 DEF Tidy, Published
  <2>9. QED BY <2>5, <2>6, <2>7, <2>8 DEF Tidy
<1>12. QED BY <1>9, <1>10, <1>11 DEF FInv
LEMMA HandleFacts ==
  ASSUME IInv
  PROVE  /\ handles \subseteq Id /\ (main.t # none => main.t \in handles)
         /\ \A t \in handles : /\ t # next /\ t < next /\ t # main.op /\ trans[t].path \in Path
                               /\ trans[t].op \in {"put", "get"}
<1>1. handles \subseteq Id /\ Owned(trans, handles, main.op, lost, next) /\ MainOK /\ next \in 0..MaxId
  BY Invariants
<1>2. \A t \in handles : t \in Nat /\ trans[t].mem = "live" /\ trans[t].op \in {"put", "get"}
  BY <1>1, IdFacts DEF Owned
<1>3. \A t \in handles : ~(next <= t)
  BY <1>1, <1>2 DEF Owned
<1>4. \A t \in handles : t < next /\ t # next
  BY <1>1, <1>2, <1>3
<1>5. \A t \in handles : t # main.op /\ trans[t].path \in Path
  BY <1>1, <1>2 DEF Owned, Waits
<1>6. QED BY <1>1, <1>2, <1>4, <1>5 DEF MainOK

LEMMA CallTidy ==
  ASSUME IInv, IInv', FInv, call
  PROVE  FInv'
<1>1. /\ trans \in Records /\ begin(trans, "call", none, none) /\ main.op = none /\ "call" \in Waits
      /\ UNCHANGED <<handles, locked, final, told, overlapped, unmoved>>
  BY Invariants DEF call, files, history, Waits
<1>2. \A u \in handles' : trans[u].path # none /\ u # next
  BY <1>1, HandleFacts, IdFacts
<1>3. \A u \in Id : Still(trans[u], trans[u])
  BY DEF Still
<1>4. none \notin Path
  BY IdFacts
<1>5. QED BY <1>1, <1>2, <1>3, <1>4, BeginTidy

(* What a wait leaves of the records. *)
LEMMA AfterWait ==
  ASSUME IInv, main.at # "idle"
  PROVE  LET ts == waitOnFtp(main.op).ts
         IN  /\ ts \in Records /\ main.op \in Id
             /\ \A u \in Id : Still(ts[u], trans[u])
             /\ \A u \in handles : ts[u] = trans[u]
             /\ waitOnFtp(main.op).ok => ~ts[main.op].running
<1> DEFINE ts == waitOnFtp(main.op).ts
<1>1. main.op \in Id
  BY Invariants
<1>2. /\ ts \in Records /\ \A u \in Id : Still(ts[u], trans[u])
      /\ \A u \in Id : u # main.op => ts[u] = trans[u]
      /\ waitOnFtp(main.op).ok => ~trans[main.op].running
  BY <1>1, WaitStill
<1> HIDE DEF ts
<1>3. waitOnFtp(main.op).ok => ~ts[main.op].running
  BY <1>1, <1>2 DEF Still
<1>4. QED BY <1>1, <1>2, <1>3, HandleFacts DEF ts

LEMMA CallReturnsTidy ==
  ASSUME IInv, IInv', FInv, callReturns
  PROVE  FInv'
<1> DEFINE ts == waitOnFtp(main.op).ts
<1>1. /\ main.at = "call" /\ trans' = ts /\ main' = idle
      /\ UNCHANGED <<next, handles, locked, final, told, overlapped, unmoved>>
  BY DEF callReturns, files, history
<1>2. (\A u \in Id : Still(ts[u], trans[u])) /\ \A u \in handles : ts[u] = trans[u]
  BY <1>1, AfterWait
<1> HIDE DEF ts
<1>3. main.t = none /\ none \notin handles
  BY <1>1, Invariants, IdFacts DEF MainOK
<1>4. QED BY <1>1, <1>2, <1>3, ReturnsTidy

LEMMA ChecksumTidy ==
  ASSUME IInv, IInv', FInv, checksumReturns
  PROVE  FInv'
<1> DEFINE r == waitOnFtp(main.op)
           ts == r.ts
           t == main.t
           q == trans[t].path
           op == IF sameChecksum(trans[main.op].seen, t) THEN "mv" ELSE "rm"
<1>1. /\ main.at = "checksum" /\ UNCHANGED <<locked, final, told, overlapped, unmoved>>
      /\ \/ r.ok /\ begin(ts, op, q, t) /\ UNCHANGED handles
         \/ ended(ts, t) /\ UNCHANGED next
  BY DEF checksumReturns, files
<1>2. /\ ts \in Records /\ \A u \in Id : Still(ts[u], trans[u])
      /\ \A u \in handles : ts[u] = trans[u]
      /\ r.ok => ~ts[main.op].running
  BY <1>1, AfterWait
<1> HIDE DEF r
<1>3. t \in handles /\ t # none
  BY <1>1, Invariants DEF MainOK
<1>4. /\ \A u \in handles : trans[u].path = q => u = t
      /\ trans[main.op].path = q /\ q \in Path /\ t \in Id
  BY <1>3, HandleFacts DEF FInv, Apart
<1>5. CASE r.ok /\ begin(ts, op, q, t) /\ UNCHANGED handles
  <2>1. op \in Waits /\ op \notin {"rmLocked", "rmFinal"}
    BY DEF Waits
  <2>2. q \notin overlapped /\ op = "mv" => Ready(q) /\ (locked[q] # none => locked[q].by = t)
    BY <1>1, <1>3, <1>4 DEF FInv, Tidy, Moved, moving
  <2>3. \A u \in handles' : ts[u].path = trans[u].path /\ u # next
    BY <1>2, <1>5, HandleFacts
  <2>4. \A u \in handles' : trans[u].path = q => u = t /\ (main.op = none \/ ~ts[main.op].running)
    BY <1>2, <1>4, <1>5
  <2>5. t \in handles' /\ trans[t].path = q
    BY <1>3, <1>5
  <2>6. begin(ts, op, q, t) /\ handles' \subseteq handles
    BY <1>5
  <2> HIDE DEF op, ts, t, q
  <2>7. QED BY <1>1, <1>2, <1>4, <2>1, <2>2, <2>3, <2>4, <2>5, <2>6, BeginTidy
<1>6. CASE ended(ts, t) /\ UNCHANGED next
  <2>1. main.t \in {none, t}
    OBVIOUS
  <2> HIDE DEF ts, t
  <2>2. QED BY <1>1, <1>2, <1>3, <1>6, <2>1, EndedTidy
<1>7. QED BY <1>1, <1>5, <1>6

LEMMA RemovalTidy ==
  ASSUME IInv, IInv', FInv, removalReturns
  PROVE  FInv'
<1> DEFINE ts == waitOnFtp(main.op).ts
           q == trans[main.op].path
<1>1. /\ main.at \in {"rmLocked", "rmFinal"}
      /\ UNCHANGED <<handles, locked, final, told, overlapped, unmoved>>
      /\ \/ main.at = "rmLocked" /\ begin(ts, "rmFinal", q, none)
         \/ trans' = ts /\ main' = idle /\ UNCHANGED next
  BY DEF removalReturns, files, history
<1>2. /\ ts \in Records /\ \A u \in Id : Still(ts[u], trans[u])
      /\ \A u \in handles : ts[u] = trans[u]
      /\ main.op \in Id
  BY <1>1, AfterWait
<1>3. main.t = none /\ main.op # none /\ none \notin handles
  BY <1>1, Invariants, IdFacts DEF MainOK
<1> HIDE DEF ts
<1>4. CASE main.at = "rmLocked" /\ begin(ts, "rmFinal", q, none)
  <2>1. q \in Path \cup {none} /\ "rmFinal" \in Waits
    BY <1>2, Invariants, PathOf DEF Waits
  <2>2. \A u \in handles' : trans[u].path # q /\ ts[u].path = trans[u].path /\ u # next
    BY <1>1, <1>2, <1>3, HandleFacts DEF FInv, Apart
  <2>3. q \in Path \ overlapped => told[q] = none
    BY <1>4 DEF FInv, Tidy, Published
  <2>4. \A p \in Path : told'[p] \in {told[p], none}
    BY <1>1
  <2>5. q \in Path \ overlapped => told'[q] = none
    BY <1>1, <2>3
  <2>6. trans[main.op].path = q /\ begin(ts, "rmFinal", q, none)
    BY <1>4
  <2> HIDE DEF q
  <2>7. QED BY <1>1, <1>2, <2>1, <2>2, <2>4, <2>5, <2>6, BeginTidy
<1>5. CASE trans' = ts /\ main' = idle /\ UNCHANGED next
  <2>1. handles' \subseteq handles \ {main.t}
    BY <1>1, <1>3
  <2>2. QED BY <1>1, <1>2, <1>5, <2>1, ReturnsTidy
<1>6. QED BY <1>1, <1>4, <1>5

(* A transfer is reported to have succeeded: its file has its own name.    *)
LEMMA ReportTidy ==
  ASSUME IInv, IInv', FInv, NEW q \in Path, NEW t \in handles, trans[t].path = q,
         main' = idle, handles' = handles \ {t},
         \A u \in handles' : trans'[u].path = trans[u].path,
         \A u \in Id : trans'[u].path # q => Still(trans'[u], trans[u]),
         main.op # none => trans[main.op].path = q,
         told' = [told EXCEPT ![q] = t], locked'[q] \in {locked[q], none},
         \A p \in Path \ {q} : locked'[p] = locked[p] /\ final'[p] = final[p],
         UNCHANGED <<next, overlapped>>,
         unmoved' \in {unmoved, unmoved \ {q}, unmoved \cup {q}},
         q \notin overlapped =>
            /\ \A u \in Id : onPath(u, q)' => u = t /\ trans'[u].op \in {"put", "get"}
            /\ final'[q] # none => whole(final'[q])
            /\ q \notin unmoved' => final'[q] # none /\ final'[q].by >= t
            /\ Sent(q)'
  PROVE  FInv'
<1>1. t \in Id /\ t < next /\ \A u \in handles' : u \in handles /\ trans'[u].path # q
  BY HandleFacts DEF FInv, Apart
<1>2. /\ told \in [Path -> Id \cup {none}] /\ told'[q] = t /\ t # none
      /\ \A p \in Path \ {q} : told'[p] = told[p]
  BY <1>1, IdFacts DEF IInv, TypeOK
<1>3. Apart'
  <2>1. \A p \in Path : /\ locked'[p] # none => locked'[p].by < next'
                        /\ told'[p] # none => told'[p] < next'
    BY <1>1, <1>2 DEF FInv, Apart
  <2>2. QED BY <2>1, KeepApart DEF FInv
<1>4. ASSUME NEW p \in Path, p \notin overlapped, p # q PROVE Tidy(p)'
  <2>1. MainAway(p)
    BY <1>4, IdleMain DEF MainAway
  <2>2. \A u \in Id : trans'[u].path = p => Still(trans'[u], trans[u])
    BY <1>4
  <2>3. Tidy(p) /\ told'[p] \in {told[p], none} /\ locked'[p] = locked[p] /\ final'[p] = final[p]
    BY <1>2, <1>4 DEF FInv
  <2>4. \A u \in handles' : trans'[u].path = p => u \in handles /\ trans[u].path = p
    BY <1>1
  <2>5. p \in unmoved => p \in unmoved'
    BY <1>4
  <2>6. QED BY <2>1, <2>2, <2>3, <2>4, <2>5, Frame
<1>5. ASSUME q \notin overlapped PROVE Tidy(q)'
  <2>1. Alone(q)'
    BY <1>1, <1>5 DEF Alone, sends
  <2>2. main'.t = none /\ main'.at = "idle"
    BY IdleMain
  <2>3. Moved(q)'
    BY <1>5, <2>2 DEF Moved, moving
  <2>4. Published(q)'
    BY <1>2, <1>5, <2>2 DEF Published
  <2>5. QED BY <1>5, <2>1, <2>3, <2>4 DEF Tidy
<1>6. QED BY <1>3, <1>4, <1>5 DEF FInv

LEMMA MoveReturnsTidy ==
  ASSUME IInv, IInv', FInv, moveReturns
  PROVE  FInv'
<1> DEFINE ts == waitOnFtp(main.op).ts
<1>1. /\ main.at \in {"mv", "rm"} /\ ended(ts, main.t)
      /\ told' = IF waitOnFtp(main.op).ok /\ main.at = "mv"
                 THEN [told EXCEPT ![trans[main.t].path] = main.t] ELSE told
      /\ UNCHANGED <<next, locked, final, overlapped, unmoved>>
  BY DEF moveReturns, files
<1>2. /\ ts \in Records /\ main.op \in Id /\ \A u \in Id : Still(ts[u], trans[u])
      /\ \A u \in handles : ts[u] = trans[u]
      /\ waitOnFtp(main.op).ok => ~ts[main.op].running /\ trans[main.op].done /\ trans[main.op].succeeded
  BY <1>1, AfterWait, WaitStill
<1> HIDE DEF ts
<1>3. /\ main.t \in handles /\ main.t # none /\ main.t \in Id /\ main.op # none
      /\ trans[main.op].op = main.at
  BY <1>1, Invariants, HandleFacts DEF MainOK
<1>4. PICK t \in handles : t = main.t
  BY <1>3
<1>5. PICK q \in Path : q = trans[t].path
  BY <1>4, HandleFacts
<1>6. trans[main.op].path = q /\ t \in Id /\ ended(ts, t)
  BY <1>1, <1>3, <1>4, <1>5 DEF FInv, Apart
<1>7. CASE waitOnFtp(main.op).ok /\ main.at = "mv"
  <2>1. told' = [told EXCEPT ![q] = t] /\ main' = idle /\ handles' = handles \ {t}
    BY <1>1, <1>4, <1>5, <1>6, <1>7 DEF ended
  <2>2. /\ \A u \in Id : Still(trans'[u], ts[u])
        /\ \A u \in Id : u # t => trans'[u] = ts[u]
    <3>1. trans' = destroyFtpTransaction(ts, t)
      BY <1>6 DEF ended
    <3>2. ts \in Records /\ t \in Id
      BY <1>2, <1>6
    <3>3. /\ \A u \in Id : Still(destroyFtpTransaction(ts, t)[u], ts[u])
          /\ \A u \in Id : u # t => destroyFtpTransaction(ts, t)[u] = ts[u]
      BY <3>2, DestroyStill, DestroyFacts
    <3>4. QED BY <3>1, <3>3
  <2>3. \A u \in Id : Still(trans'[u], trans[u])
    BY <1>2, <2>2, StillTwice
  <2>4. \A u \in handles' : trans'[u].path = trans[u].path
    <3>1. \A u \in handles' : u \in handles /\ u \in Id /\ u # t
      BY <2>1, HandleFacts
    <3>2. QED BY <1>2, <2>2, <3>1
  <2>5. ASSUME q \notin overlapped
        PROVE  /\ \A u \in Id : onPath(u, q)' => u = t /\ trans'[u].op \in {"put", "get"}
               /\ final'[q] # none /\ whole(final'[q]) /\ final'[q].by >= t
               /\ Sent(q)'
    <3>1. Tidy(q)
      BY <2>5 DEF FInv
    <3>2. \A u \in Id : onPath(u, q)' => /\ onPath(u, q) /\ ts[u].running
                                         /\ trans'[u].op = trans[u].op
                                         /\ trans'[u].at = trans[u].at /\ trans'[u].sent = trans[u].sent
      BY <2>2, <2>3 DEF onPath, Still
    <3>3. \A u \in Id : onPath(u, q)' => u = t /\ trans'[u].op \in {"put", "get"}
      <4>1. \A u \in Id : onPath(u, q) => u \in {t, main.op}
        BY <1>5, <3>1 DEF Tidy, Alone
      <4>2. ~ts[main.op].running /\ trans[t].op \in {"put", "get"}
        BY <1>2, <1>7, HandleFacts
      <4>3. QED BY <3>2, <4>1, <4>2
    <3>4. final[q] # none /\ final[q].by = t
      BY <1>2, <1>4, <1>5, <1>7, <3>1 DEF Tidy, Moved
    <3>5. final'[q] # none /\ whole(final'[q]) /\ final'[q].by >= t
      <4>1. t \in Nat
        BY <1>6, IdFacts
      <4>2. QED BY <1>1, <3>1, <3>4, <4>1 DEF Tidy, Published
    <3>6. \A u \in Id : sends(u, q)' => /\ sends(u, q) /\ trans'[u].at = trans[u].at
                                        /\ trans'[u].sent = trans[u].sent
      BY <3>2 DEF sends, isTransfer
    <3>7. Sent(q)'
      BY <1>1, <3>1, <3>6 DEF Tidy, Sent
    <3>8. QED BY <3>3, <3>5, <3>7
  <2>6. QED BY <1>1, <1>5, <1>6, <2>1, <2>3, <2>4, <2>5, ReportTidy
<1>8. CASE UNCHANGED told
  <2>1. main.t \in {none, t}
    BY <1>4
  <2>2. \A u \in handles : ts[u].path = trans[u].path
    BY <1>2
  <2>3. QED BY <1>1, <1>2, <1>6, <1>8, <2>1, <2>2, EndedTidy
<1>9. QED BY <1>1, <1>7, <1>8
LEMMA EndPutTidy ==
  ASSUME IInv, IInv', FInv, NEW t \in Id, endFailed(t) \/ endPut(t)
  PROVE  FInv'
<1>1. /\ main.op = none /\ t \in handles /\ trans \in Records
      /\ UNCHANGED <<locked, final, told, overlapped, unmoved>>
  BY Invariants DEF endFailed, endPut, files
<1>2. main.t = none /\ t # none
  BY <1>1, IdFacts, IdleMain DEF endFailed, endPut
<1>3. \A u \in Id : Still(trans[u], trans[u])
  BY DEF Still
<1>4. CASE ended(trans, t) /\ UNCHANGED next
  BY <1>1, <1>2, <1>3, <1>4, EndedTidy
<1>5. CASE begin(trans, "checksum", trans[t].path, t) /\ UNCHANGED handles
  <2>1. PICK q \in Path : q = trans[t].path
    BY <1>1, HandleFacts
  <2>2. "checksum" \in Waits
    BY DEF Waits
  <2>3. \A u \in handles' : u # next
    BY <1>5, HandleFacts
  <2>4. \A u \in handles' : trans[u].path = q => u = t
    BY <1>1, <1>5, <2>1 DEF FInv, Apart
  <2>5. begin(trans, "checksum", q, t) /\ t \in handles' /\ handles' \subseteq handles
    BY <1>1, <1>5, <2>1
  <2>6. QED BY <1>1, <1>3, <2>1, <2>2, <2>3, <2>4, <2>5, BeginTidy
<1>6. QED BY <1>4, <1>5 DEF endFailed, endPut

LEMMA CancelPutTidy ==
  ASSUME IInv, IInv', FInv, NEW t \in Id, cancelPut(t)
  PROVE  FInv'
<1> DEFINE ts == Dropped(t)
<1>1. /\ main = idle /\ main.op = none /\ main.t = none /\ t \in handles /\ trans \in Records
      /\ UNCHANGED <<locked, final, overlapped, unmoved>> /\ handles' = handles \ {t}
      /\ told' = [told EXCEPT ![trans[t].path] = none]
  BY Invariants, IdleMain DEF cancelPut, cancelled, files
<1>2. PICK q \in Path : q = trans[t].path
  BY <1>1, HandleFacts
<1>3. \/ begin(ts, "rmLocked", q, none) \/ begin(ts, "rmFinal", q, none)
      \/ trans' = ts /\ UNCHANGED <<next, main>>
  BY <1>2 DEF cancelPut, Dropped
<1>4. /\ ts \in Records /\ \A u \in Id : Still(ts[u], trans[u])
      /\ \A u \in Id : ts[u].path = trans[u].path
  BY <1>1, DroppedFacts, DroppedStill
<1> HIDE DEF ts
<1>5. \A p \in Path : told'[p] \in {told[p], none} /\ told'[q] = none
  BY <1>1, <1>2 DEF IInv, TypeOK
<1>6. handles' \subseteq handles \ {main.t} /\ handles' \subseteq Id /\ \A u \in handles' : u # next
  BY <1>1, HandleFacts, IdFacts
<1>7. \A u \in handles' : trans[u].path # q
  BY <1>1, <1>2 DEF FInv, Apart
<1>8. ASSUME NEW op \in {"rmLocked", "rmFinal"}, begin(ts, op, q, none) PROVE FInv'
  <2>1. op \in Waits /\ op # "mv"
    BY DEF Waits
  <2>2. QED BY <1>1, <1>4, <1>5, <1>6, <1>7, <1>8, <2>1, BeginTidy
<1>9. CASE trans' = ts /\ UNCHANGED <<next, main>>
  BY <1>1, <1>4, <1>5, <1>6, <1>9, ReturnsTidy
<1>10. QED BY <1>3, <1>8, <1>9

(* A get has been given its name. *)
LEMMA RenamedTidy ==
  ASSUME IInv, IInv', FInv, NEW t \in Id, endGet(t),
         ended(renamed(trans, trans[t].path), t),
         final' = [final EXCEPT ![trans[t].path] = locked[trans[t].path]],
         locked' = [locked EXCEPT ![trans[t].path] = none],
         unmoved' = unmoved \ {trans[t].path}
  PROVE  FInv'
<1>1. /\ main.op = none /\ t \in handles /\ trans \in Records /\ trans[t].op = "get"
      /\ Open(trans, locked, final)
      /\ handles' = handles \ {t} /\ main' = idle /\ UNCHANGED <<next, overlapped>>
  BY Invariants DEF endGet, ended
<1>2. PICK q \in Path : q = trans[t].path
  BY <1>1, HandleFacts
<1> DEFINE ts == renamed(trans, q)
<1>3. /\ whole(locked[q]) /\ locked[q] # none /\ locked[q].by = t
      /\ trans' = destroyFtpTransaction(ts, t)
      /\ final' = [final EXCEPT ![q] = locked[q]] /\ locked' = [locked EXCEPT ![q] = none]
      /\ told' = [told EXCEPT ![q] = t] /\ unmoved' = unmoved \ {q}
  BY <1>2 DEF endGet, ended, whole
<1>4. /\ ts \in Records
      /\ \A u \in Id : /\ Same(ts[u], trans[u]) /\ ts[u].sent = trans[u].sent
                       /\ ts[u].at = IF trans[u].path # q THEN trans[u].at
                                     ELSE IF trans[u].at = "final" THEN "gone"
                                     ELSE IF trans[u].at = "locked" THEN "final" ELSE trans[u].at
  BY <1>1, RenamedFacts
<1> HIDE DEF ts
<1>5. /\ \A u \in Id : Still(trans'[u], ts[u])
      /\ \A u \in Id : u # t => trans'[u] = ts[u]
  <2>1. /\ \A u \in Id : Still(destroyFtpTransaction(ts, t)[u], ts[u])
        /\ \A u \in Id : u # t => destroyFtpTransaction(ts, t)[u] = ts[u]
    BY <1>4, DestroyStill, DestroyFacts
  <2>2. QED BY <1>3, <2>1
<1>6. \A u \in handles' : trans'[u].path = trans[u].path
  <2>1. \A u \in handles' : u \in Id /\ u # t
    BY <1>1, HandleFacts
  <2>2. QED BY <1>4, <1>5, <2>1 DEF Same
<1>7. \A u \in Id : trans'[u].path # q => Still(trans'[u], trans[u])
  BY <1>4, <1>5 DEF Still, Same
<1>8. /\ locked'[q] = none /\ final'[q] = locked[q]
      /\ \A p \in Path \ {q} : locked'[p] = locked[p] /\ final'[p] = final[p]
  BY <1>3 DEF IInv, TypeOK
<1>9. ASSUME q \notin overlapped
      PROVE  /\ \A u \in Id : onPath(u, q)' => u = t /\ trans'[u].op \in {"put", "get"}
             /\ final'[q] # none /\ whole(final'[q]) /\ final'[q].by >= t
             /\ Sent(q)'
  <2>1. Tidy(q)
    BY <1>9 DEF FInv
  <2>2. \A u \in Id : onPath(u, q)' => /\ onPath(u, q) /\ trans'[u].op = trans[u].op
                                       /\ trans'[u].sent = trans[u].sent
                                       /\ trans'[u].at = ts[u].at
    BY <1>4, <1>5 DEF onPath, Still, Same
  <2>3. \A u \in Id : onPath(u, q)' => u = t /\ trans'[u].op \in {"put", "get"}
    <3>1. \A u \in Id : onPath(u, q) => u = t
      BY <1>1, <1>2, <2>1, IdFacts DEF Tidy, Alone
    <3>2. QED BY <1>1, <2>2, <3>1
  <2>4. Sent(q)'
    <3>1. SUFFICES ASSUME sends(t, q)'
                   PROVE  /\ trans'[t].at # "locked"
                          /\ trans'[t].at = "final" => trans'[t].sent = Blocks
      BY <1>8, <2>3 DEF Sent, sends
    <3>2. sends(t, q) /\ trans'[t].at = ts[t].at /\ trans'[t].sent = trans[t].sent
      BY <2>2, <3>1 DEF sends, isTransfer
    <3>3. trans[t].at = "locked" /\ trans[t].sent = Blocks
      BY <1>3, <2>1, <3>2 DEF Tidy, Sent, whole
    <3>4. ts[t].at = "final"
      BY <1>2, <1>4, <3>3
    <3>5. QED BY <3>2, <3>3, <3>4
  <2>5. final'[q] # none /\ whole(final'[q]) /\ final'[q].by >= t
    BY <1>3, <1>8, IdFacts
  <2>6. QED BY <2>3, <2>4, <2>5
<1>10. locked'[q] \in {locked[q], none}
  BY <1>8
<1>11. QED BY <1>1, <1>2, <1>3, <1>6, <1>7, <1>8, <1>9, <1>10, ReportTidy

(* A get has kept its temporary name, and is reported all the same. *)
LEMMA UnmovedTidy ==
  ASSUME IInv, IInv', FInv, NEW t \in Id, endGet(t), ended(trans, t),
         UNCHANGED <<locked, final>>, unmoved' = unmoved \cup {trans[t].path}
  PROVE  FInv'
<1>1. /\ main.op = none /\ t \in handles /\ trans \in Records
      /\ handles' = handles \ {t} /\ main' = idle /\ UNCHANGED <<next, overlapped>>
      /\ trans' = destroyFtpTransaction(trans, t)
  BY Invariants DEF endGet, ended
<1>2. PICK q \in Path : q = trans[t].path
  BY <1>1, HandleFacts
<1>3. told' = [told EXCEPT ![q] = t] /\ unmoved' = unmoved \cup {q}
  BY <1>2 DEF endGet
<1>4. /\ \A u \in Id : Still(trans'[u], trans[u])
      /\ \A u \in Id : u # t => trans'[u] = trans[u]
  <2>1. /\ \A u \in Id : Still(destroyFtpTransaction(trans, t)[u], trans[u])
        /\ \A u \in Id : u # t => destroyFtpTransaction(trans, t)[u] = trans[u]
    BY <1>1, DestroyStill, DestroyFacts
  <2>2. QED BY <1>1, <2>1
<1>5. \A u \in handles' : trans'[u].path = trans[u].path
  <2>1. \A u \in handles' : u \in Id /\ u # t
    BY <1>1, HandleFacts
  <2>2. QED BY <1>4, <2>1
<1>6. ASSUME q \notin overlapped
      PROVE  /\ \A u \in Id : onPath(u, q)' => u = t /\ trans'[u].op \in {"put", "get"}
             /\ final'[q] # none => whole(final'[q])
             /\ q \notin unmoved' => final'[q] # none /\ final'[q].by >= t
             /\ Sent(q)'
  <2>1. Tidy(q)
    BY <1>6 DEF FInv
  <2>2. \A u \in Id : onPath(u, q)' => /\ onPath(u, q) /\ trans'[u].op = trans[u].op
                                       /\ trans'[u].at = trans[u].at
                                       /\ trans'[u].sent = trans[u].sent
    BY <1>4 DEF onPath, Still
  <2>3. \A u \in Id : onPath(u, q)' => u = t /\ trans'[u].op \in {"put", "get"}
    <3>1. \A u \in Id : onPath(u, q) => u = t
      BY <1>1, <1>2, <2>1, IdFacts DEF Tidy, Alone
    <3>2. trans[t].op \in {"put", "get"}
      BY <1>1, HandleFacts
    <3>3. QED BY <2>2, <3>1, <3>2
  <2>4. \A u \in Id : sends(u, q)' => /\ sends(u, q) /\ trans'[u].at = trans[u].at
                                      /\ trans'[u].sent = trans[u].sent
    BY <2>2 DEF sends, isTransfer
  <2>5. Sent(q)'
    BY <2>1, <2>4 DEF Tidy, Sent
  <2>6. QED BY <1>3, <2>1, <2>3, <2>5 DEF Tidy, Published
<1>7. /\ \A p \in Path \ {q} : locked'[p] = locked[p] /\ final'[p] = final[p]
      /\ locked'[q] \in {locked[q], none}
  OBVIOUS
<1>8. unmoved' \in {unmoved, unmoved \ {q}, unmoved \cup {q}}
  BY <1>3
<1>9. QED BY <1>1, <1>2, <1>3, <1>4, <1>5, <1>6, <1>7, <1>8, ReportTidy

LEMMA EndGetTidy ==
  ASSUME IInv, IInv', FInv, NEW t \in Id, endGet(t)
  PROVE  FInv'
BY RenamedTidy, UnmovedTidy DEF endGet, files

(* Both files are removed, and the report is taken back. *)
LEMMA CancelGetTidy ==
  ASSUME IInv, IInv', FInv, NEW t \in Id, cancelGet(t)
  PROVE  FInv'
<1>1. /\ main = idle /\ main' = idle /\ main.op = none /\ t \in handles /\ trans \in Records
      /\ handles' = handles \ {t} /\ UNCHANGED <<next, overlapped, unmoved>>
  BY Invariants DEF cancelGet, cancelled
<1>2. PICK q \in Path : q = trans[t].path
  BY <1>1, HandleFacts
<1> DEFINE us == Dropped(t)
           v == moved(us, q, "locked", "gone")
<1>3. /\ trans' = moved(v, q, "final", "gone")
      /\ locked' = [locked EXCEPT ![q] = none] /\ final' = [final EXCEPT ![q] = none]
      /\ told' = [told EXCEPT ![q] = none]
  BY <1>2 DEF cancelGet, cancelled, Dropped
<1>4. us \in Records /\ \A u \in Id : /\ us[u].op = trans[u].op /\ us[u].path = trans[u].path
                                      /\ us[u].at = trans[u].at /\ us[u].sent = trans[u].sent
                                      /\ us[u].running = trans[u].running
  BY <1>1, DroppedFacts
<1> HIDE DEF us
<1>5. v \in Records /\ \A u \in Id :
          /\ Same(v[u], us[u]) /\ v[u].sent = us[u].sent
          /\ v[u].at = IF us[u].path = q /\ us[u].at = "locked" THEN "gone" ELSE us[u].at
  BY <1>4, MovedFacts
<1> HIDE DEF v
<1>6. \A u \in Id :
          /\ Same(trans'[u], v[u]) /\ trans'[u].sent = v[u].sent
          /\ trans'[u].at = IF v[u].path = q /\ v[u].at = "final" THEN "gone" ELSE v[u].at
  BY <1>3, <1>5, MovedFacts
<1>7. \A u \in Id : /\ trans'[u].op = trans[u].op /\ trans'[u].path = trans[u].path
                    /\ trans'[u].running = trans[u].running /\ trans'[u].sent = trans[u].sent
                    /\ trans[u].path # q => trans'[u].at = trans[u].at
                    /\ trans[u].path = q => trans'[u].at \notin {"locked", "final"}
  BY <1>4, <1>5, <1>6 DEF Same
<1>8. /\ locked'[q] = none /\ final'[q] = none /\ told'[q] = none
      /\ \A p \in Path \ {q} : locked'[p] = locked[p] /\ final'[p] = final[p] /\ told'[p] = told[p]
  BY <1>3 DEF IInv, TypeOK
<1>9. \A u \in handles' : u \in Id /\ u \in handles /\ trans'[u].path # q
                          /\ trans'[u].path = trans[u].path
  BY <1>1, <1>2, <1>7, HandleFacts DEF FInv, Apart
<1>10. Apart'
  <2>1. \A p \in Path : /\ locked'[p] # none => locked'[p].by < next'
                        /\ told'[p] # none => told'[p] < next'
    BY <1>1, <1>8 DEF FInv, Apart
  <2>2. QED BY <1>1, <1>9, <2>1, KeepApart DEF FInv
<1>11. ASSUME NEW p \in Path, p \notin overlapped, p # q PROVE Tidy(p)'
  <2>1. MainAway(p)
    BY <1>1, IdleMain DEF MainAway
  <2>2. \A u \in Id : trans'[u].path = p => Still(trans'[u], trans[u])
    BY <1>7, <1>11 DEF Still
  <2>3. /\ Tidy(p) /\ unmoved' = unmoved
        /\ locked'[p] = locked[p] /\ final'[p] = final[p] /\ told'[p] = told[p]
    BY <1>1, <1>8, <1>11 DEF FInv
  <2>4. QED BY <1>9, <2>1, <2>2, <2>3, Frame
<1>12. ASSUME q \notin overlapped PROVE Tidy(q)'
  <2>1. Tidy(q)
    BY <1>12 DEF FInv
  <2>2. \A u \in Id : onPath(u, q)' => /\ u = t /\ onPath(u, q) /\ trans'[u].op \in {"put", "get"}
                                       /\ trans'[u].at \notin {"locked", "final"}
    <3>1. \A u \in Id : onPath(u, q) => u = t
      BY <1>1, <1>2, <2>1, IdFacts DEF Tidy, Alone
    <3>2. trans[t].op \in {"put", "get"}
      BY <1>1, HandleFacts
    <3>3. QED BY <1>7, <3>1, <3>2 DEF onPath
  <2>3. Alone(q)'
    BY <1>9, <2>2 DEF Alone, sends
  <2>4. Sent(q)'
    BY <1>8, <2>2 DEF Sent, sends
  <2>5. Moved(q)'
    BY <1>1, <2>2, IdleMain DEF Moved, moving
  <2>6. Published(q)'
    BY <1>8 DEF Published
  <2>7. QED BY <2>3, <2>4, <2>5, <2>6 DEF Tidy
<1>13. QED BY <1>1, <1>10, <1>11, <1>12 DEF FInv
(* A step of the library: neither callers nor the main thread do anything. *)
LEMMA LibraryApart ==
  ASSUME IInv, IInv', Apart, UNCHANGED <<next, handles, main, told, unmoved>>,
         \A u \in handles : trans'[u].path = trans[u].path,
         main.op # none => trans'[main.op].path = trans[main.op].path,
         \A p \in Path : locked'[p] \in {locked[p], none} \/ locked'[p].by < next
  PROVE  Apart'
<1>1. \A p \in Path : /\ locked'[p] # none => locked'[p].by < next'
                      /\ told'[p] # none => told'[p] < next'
  BY DEF Apart
<1>2. QED BY <1>1, KeepApart

LEMMA WrittenIs ==
  ASSUME NEW t \in Id, NEW c \in Content, NEW good \in BOOLEAN,
         trans[t].sent \in Nat, trans[t].sent < Blocks,
         trans[t].sent # 0 => c # none /\ c.by = t
  PROVE  /\ written(c, t, good) # none
         /\ written(c, t, good).by = t /\ written(c, t, good).n = trans[t].sent + 1
<1> DEFINE s == trans[t].sent
<1>1. s \in Nat /\ s < Blocks
  OBVIOUS
<1>2. CASE s = 0
  <2>1. written(c, t, good) = [by |-> t, n |-> 1, ok |-> good]
    BY <1>2 DEF written
  <2>2. [by |-> t, n |-> 1, ok |-> good] \in Data
    BY MaxAssumption DEF Data
  <2>3. QED BY <1>2, <2>1, <2>2, noneAssumption
<1>3. CASE s # 0
  <2>1. c \in Data /\ c.by = t
    BY <1>3 DEF Content
  <2> DEFINE b == c.ok /\ c.by = t /\ good
             w == [c EXCEPT !.n = s + 1, !.ok = b]
  <2>2. written(c, t, good) = w
    BY <1>3, <2>1 DEF written
  <2>3. b \in BOOLEAN /\ s + 1 \in 1..Blocks
    BY <1>1, <2>1, MaxAssumption DEF Data
  <2> HIDE DEF s, b
  <2>4. w \in Data /\ w.by = t /\ w.n = s + 1
    BY <2>1, <2>3 DEF Data
  <2>5. QED BY <2>2, <2>4, noneAssumption DEF s
<1>4. QED BY <1>2, <1>3

LEMMA WrittenBy ==
  ASSUME NEW t \in Id, NEW c \in Content, NEW good \in BOOLEAN,
         trans[t].sent # 0 => c # none
  PROVE  \/ written(c, t, good).by = t
         \/ c # none /\ written(c, t, good).by = c.by
<1>1. CASE trans[t].sent = 0
  BY <1>1 DEF written
<1>2. CASE trans[t].sent # 0
  <2>1. c \in Data
    BY <1>2 DEF Content
  <2>2. written(c, t, good).by = c.by
    BY <1>2, <2>1 DEF written, Data
  <2>3. QED BY <1>2, <2>2
<1>3. QED BY <1>1, <1>2

LEMMA DataTidy ==
  ASSUME IInv, IInv', FInv, NEW t \in Id, dataCallback(t)
  PROVE  FInv'
<1>1. /\ trans \in Records /\ trans[t].running /\ isTransfer(t)
      /\ Owned(trans, handles, main.op, lost, next) /\ Open(trans, locked, final)
      /\ UNCHANGED <<next, handles, main, told, overlapped, unmoved>>
      /\ trans[t] \in Transaction /\ next \in 0..MaxId
  BY Invariants, PathOf DEF dataCallback, running, history
<1>2. t # main.op /\ t < next
  <2>1. t # main.op
    BY <1>1 DEF Owned, isTransfer, Waits
  <2>2. ~(next <= t) /\ t \in Nat
    BY <1>1, IdFacts DEF Owned
  <2>3. QED BY <1>1, <2>1, <2>2
<1>3. PICK q \in Path : q = trans[t].path
  BY <1>1 DEF Open, isTransfer
(* The record of t changes only in what has been sent, and whether it failed. *)
<1>4. ASSUME NEW x \in Transaction, trans' = [trans EXCEPT ![t] = x],
             x.op = trans[t].op, x.path = q, x.running
      PROVE  /\ trans'[t] = x /\ \A u \in Id : u # t => trans'[u] = trans[u]
             /\ \A u \in Id : /\ trans'[u].op = trans[u].op /\ trans'[u].path = trans[u].path
                              /\ trans'[u].running = trans[u].running
             /\ \A p \in Path : MainSame(p)
  <2>1. trans'[t] = x /\ \A u \in Id : u # t => trans'[u] = trans[u]
    BY <1>1, <1>4 DEF Records
  <2>2. \A u \in Id : /\ trans'[u].op = trans[u].op /\ trans'[u].path = trans[u].path
                      /\ trans'[u].running = trans[u].running
    <3>1. x.running = trans[t].running
      BY <1>1, <1>4 DEF Transaction
    <3>2. QED BY <1>3, <1>4, <2>1, <3>1
  <2>3. (main.op # none => main.op \in Id) /\ (main.t # none => main.t \in Id /\ main.op # none)
    BY Invariants DEF MainOK, Main
  <2>4. main.op # none => trans'[main.op] = trans[main.op]
    BY <1>2, <2>1, <2>3
  <2>5. \A p \in Path : MainSame(p)
    <3>1. main.at = "mv" => main.t # none /\ main.op # none
      BY <2>3, Invariants DEF MainOK
    <3>2. ASSUME NEW p \in Path PROVE moving(p)' => moving(p)
      BY <1>1, <2>2, <2>3, <2>4 DEF moving
    <3>3. QED BY <1>1, <2>2, <2>3, <2>4, <3>1, <3>2 DEF MainSame
  <2>6. QED BY <2>1, <2>2, <2>5
<1>5. CASE trans' = [trans EXCEPT ![t].succeeded = FALSE] /\ UNCHANGED files
  <2> DEFINE x == [trans[t] EXCEPT !.succeeded = FALSE]
  <2>1. /\ x \in Transaction /\ x.op = trans[t].op /\ x.path = q /\ x.running
        /\ x.at = trans[t].at /\ x.sent = trans[t].sent
    BY <1>1, <1>3 DEF Transaction
  <2>2. trans' = [trans EXCEPT ![t] = x] /\ UNCHANGED <<locked, final>>
    BY <1>5 DEF files
  <2> HIDE DEF x
  <2>3. /\ trans'[t] = x /\ \A u \in Id : u # t => trans'[u] = trans[u]
        /\ \A u \in Id : /\ trans'[u].op = trans[u].op /\ trans'[u].path = trans[u].path
                         /\ trans'[u].running = trans[u].running
        /\ \A p \in Path : MainSame(p)
    BY <1>4, <2>1, <2>2
  <2>4. \A u \in Id : Still(trans'[u], trans[u])
    BY <1>3, <2>1, <2>3 DEF Still
  <2>5. handles \subseteq Id /\ (main.op # none => main.op \in Id)
    BY Invariants, HandleFacts DEF Main
  <2>6. Apart'
    BY <1>1, <2>2, <2>3, <2>5, LibraryApart DEF FInv
  <2>7. ASSUME NEW p \in Path, p \notin overlapped PROVE Tidy(p)'
    <3>1. Tidy(p)
      BY <2>7 DEF FInv
    <3>2. \A u \in handles' : trans'[u].path = p => u \in handles /\ trans[u].path = p
      BY <1>1, <2>3, <2>5
    <3>3. QED BY <1>1, <2>2, <2>3, <2>4, <3>1, <3>2, Frame
  <2>8. QED BY <1>1, <2>6, <2>7 DEF FInv
<1>6. ASSUME NEW good \in BOOLEAN, blockDone(t, good) PROVE FInv'
  <2> DEFINE s    == trans[t].sent
             here == IF s = 0 THEN "locked" ELSE trans[t].at
             x    == [trans[t] EXCEPT !.sent = s + 1, !.at = here]
             y    == [x EXCEPT !.succeeded = FALSE]
  <2>1. /\ s \in Nat /\ s < Blocks /\ s + 1 \in 0..Blocks
        /\ here \in {"unopened", "locked", "final", "gone"}
        /\ locked' = IF here = "locked" THEN [locked EXCEPT ![q] = written(@, t, good)] ELSE locked
        /\ final' = IF here = "final" THEN [final EXCEPT ![q] = written(@, t, good)] ELSE final
    BY <1>1, <1>3, <1>6, MaxAssumption DEF Transaction, blockDone
  <2>2. trans' = [trans EXCEPT ![t] = x] \/ trans' = [trans EXCEPT ![t] = y]
    <3> DEFINE ts == [trans EXCEPT ![t].sent = @ + 1, ![t].at = here]
    <3>1. trans' = ts \/ trans' = [ts EXCEPT ![t].succeeded = FALSE]
      BY <1>6 DEF blockDone
    <3>2. ts = [trans EXCEPT ![t] = x]
      BY <1>1 DEF Records
    <3> HIDE DEF ts, x
    <3>3. ts[t] = x
      BY <1>1, <3>2 DEF Records
    <3>4. [ts EXCEPT ![t].succeeded = FALSE] = [trans EXCEPT ![t] = y]
      BY <1>1, <3>2, <3>3 DEF Records
    <3> HIDE DEF y
    <3>5. QED BY <3>1, <3>2, <3>4
  <2>3. here = "locked" \/ (here = trans[t].at /\ s # 0)
    OBVIOUS
  <2> HIDE DEF here, s
  <2>4. /\ x \in Transaction /\ x.op = trans[t].op /\ x.path = q /\ x.running
        /\ x.sent = s + 1 /\ x.at = here
    BY <1>1, <1>3, <2>1 DEF Transaction
  <2> HIDE DEF x
  <2>5. /\ y \in Transaction /\ y.op = trans[t].op /\ y.path = q /\ y.running
        /\ y.sent = s + 1 /\ y.at = here
    BY <2>4 DEF Transaction
  <2> HIDE DEF y
  <2>6. PICK z \in Transaction : /\ trans' = [trans EXCEPT ![t] = z] /\ z.op = trans[t].op
                                 /\ z.path = q /\ z.running /\ z.sent = s + 1 /\ z.at = here
    BY <2>2, <2>4, <2>5
  <2>7. /\ trans'[t] = z /\ \A u \in Id : u # t => trans'[u] = trans[u]
        /\ \A u \in Id : /\ trans'[u].op = trans[u].op /\ trans'[u].path = trans[u].path
                         /\ trans'[u].running = trans[u].running
        /\ \A p \in Path : MainSame(p)
    BY <1>4, <2>6
  <2>8. handles \subseteq Id /\ (main.op # none => main.op \in Id)
    BY Invariants, HandleFacts DEF Main
  <2>9. sends(t, q) /\ locked[q] \in Content
    BY <1>1, <1>3 DEF sends, onPath, IInv, TypeOK
  <2>10. \A p \in Path \ {q} : locked'[p] = locked[p] /\ final'[p] = final[p]
    BY <2>1 DEF IInv, TypeOK
  <2>11. ASSUME q \notin overlapped
         PROVE  /\ Tidy(q) /\ here \in {"locked", "gone"} /\ final'[q] = final[q]
                /\ here = "locked" => /\ locked'[q] # none /\ locked'[q].by = t
                                      /\ locked'[q].n = s + 1
                /\ here # "locked" => locked'[q] = locked[q] /\ trans[t].at = here
    <3>1. Tidy(q)
      BY <2>11 DEF FInv
    <3>2. s > 0 => trans[t].at # "unopened" /\ trans[t].at # "final"
      BY <1>1, <2>1, <2>9, <3>1 DEF Open, isTransfer, Tidy, Sent, s
    <3>3. here \in {"locked", "gone"}
      BY <2>1, <2>3, <3>2
    <3>4. here = "locked" /\ s # 0 => locked[q] # none /\ locked[q].by = t
      BY <2>3, <2>9, <3>1 DEF Tidy, Sent, here
    <3>5. here = "locked" => locked'[q] = written(locked[q], t, good)
      BY <2>1 DEF IInv, TypeOK
    <3>6. here = "locked" => /\ written(locked[q], t, good) # none
                             /\ written(locked[q], t, good).by = t
                             /\ written(locked[q], t, good).n = s + 1
      BY <2>1, <2>9, <3>4, WrittenIs DEF s
    <3>7. QED BY <2>1, <2>3, <3>1, <3>3, <3>5, <3>6
  <2>12. ASSUME q \notin overlapped PROVE Tidy(q)'
    <3>1. \A u \in Id : (onPath(u, q)' <=> onPath(u, q)) /\ (sends(u, q)' <=> sends(u, q))
      BY <2>7 DEF onPath, sends, isTransfer
    <3>2. \A u \in Id : sends(u, q) => u = t
      BY <2>9, <2>11, <2>12 DEF Tidy, Alone
    <3>3. ~Ready(q)
      BY <2>1, <2>9 DEF Ready, s
    <3>4. Alone(q)'
      BY <1>1, <2>7, <2>8, <2>11, <2>12, <3>1 DEF Tidy, Alone
    <3>5. Sent(q)'
      <4>1. trans'[t].at = here /\ trans'[t].sent = s + 1
        BY <2>6, <2>7
      <4>2. here = "locked" <=> locked'[q] # none /\ locked'[q].by = t
        BY <2>9, <2>11, <2>12 DEF Tidy, Sent
      <4>3. QED BY <2>11, <2>12, <3>1, <3>2, <4>1, <4>2 DEF Sent
    <3>6. Moved(q)'
      <4>1. /\ main' = main /\ (main.t # none => trans'[main.t].path = trans[main.t].path)
            /\ main.op # none => trans'[main.op] = trans[main.op]
        BY <1>1, <1>2, <2>7, <2>8 DEF MainSame
      <4>2. (main.at \in {"mv", "checksum"} => main.t # none) /\ (main.t # none => main.op # none)
        BY Invariants DEF MainOK
      <4>3. moving(q)' => moving(q)
        BY <4>1, <4>2 DEF moving
      <4>4. \A u \in Id : ~(onPath(u, q)' /\ trans'[u].op = "mv")
        BY <2>7, <2>11, <2>12, <3>1, <3>3 DEF Tidy, Moved
      <4>5. ~moving(q)'
        BY <2>11, <2>12, <3>3, <4>3 DEF Tidy, Moved
      <4>6. main.at = "mv" /\ trans'[main.t].path = q /\ trans'[main.op].done
              /\ trans'[main.op].succeeded => final'[q] # none /\ final'[q].by = main.t
        BY <2>11, <2>12, <4>1, <4>2 DEF Tidy, Moved
      <4>7. QED BY <4>1, <4>4, <4>5, <4>6 DEF Moved
    <3>7. Published(q)'
      <4>1. main' = main /\ told' = told /\ unmoved' = unmoved /\ (main.at = "rmLocked" => main.op \in Id)
        BY <1>1, <2>8, Invariants DEF MainOK
      <4>2. main.at = "rmLocked" => trans'[main.op].path = trans[main.op].path
        BY <2>7, <4>1
      <4>3. final'[q] = final[q] /\ Published(q)
        BY <2>11, <2>12 DEF Tidy
      <4>4. \A u \in Id : onPath(u, q)' => onPath(u, q) /\ trans'[u].op = trans[u].op
        BY <2>7, <3>1
      <4>5. QED BY <4>1, <4>2, <4>3, <4>4 DEF Published
    <3>8. QED BY <3>4, <3>5, <3>6, <3>7 DEF Tidy
  <2>13. ASSUME NEW p \in Path, p \notin overlapped, p # q PROVE Tidy(p)'
    <3>1. Tidy(p)
      BY <2>13 DEF FInv
    <3>2. \A u \in Id : trans'[u].path = p => Still(trans'[u], trans[u])
      BY <2>6, <2>7, <2>13 DEF Still
    <3>3. \A u \in handles' : trans'[u].path = p => u \in handles /\ trans[u].path = p
      BY <1>1, <2>7, <2>8
    <3>4. locked'[p] = locked[p] /\ final'[p] = final[p] /\ told'[p] = told[p] /\ unmoved' = unmoved
      BY <1>1, <2>10, <2>13
    <3>5. QED BY <2>7, <3>1, <3>2, <3>3, <3>4, Frame
  <2>14. Apart'
    <3>1. \A p \in Path : locked'[p] \in {locked[p], none} \/ locked'[p].by < next
      <4>1. CASE here = "locked"
        <5>1. locked'[q] = written(locked[q], t, good)
          BY <2>1, <4>1 DEF IInv, TypeOK
        <5>2. s # 0 => locked[q] # none
          BY <1>1, <1>3, <4>1 DEF Open, here
        <5>3. locked'[q].by = t \/ (locked[q] # none /\ locked'[q].by = locked[q].by)
          BY <2>9, <5>1, <5>2, WrittenBy DEF s
        <5>4. locked[q] # none => locked[q].by < next
          BY DEF FInv, Apart
        <5>5. QED BY <1>2, <2>10, <5>3, <5>4
      <4>2. CASE here # "locked"
        BY <2>1, <4>2
      <4>3. QED BY <4>1, <4>2
    <3>2. QED BY <1>1, <2>7, <2>8, <3>1, LibraryApart DEF FInv
  <2>15. QED BY <1>1, <2>12, <2>13, <2>14 DEF FInv
<1>7. QED BY <1>5, <1>6 DEF dataCallback
(* What a completion makes of the records: t has ended, with the answer ok *)
(* and the checksum s if anybody is still to hear of it.                   *)
Completed(t, ok, s) ==
  /\ ~trans'[t].running
  /\ t \in handles \cup {main.op} => /\ trans'[t].path = trans[t].path
                                     /\ trans'[t].succeeded = ok /\ trans'[t].seen = s
  /\ \A u \in Id \ {t} :
        /\ trans'[u].op = trans[u].op /\ trans'[u].path = trans[u].path
        /\ trans'[u].running = trans[u].running /\ trans'[u].sent = trans[u].sent
        /\ trans'[u].done = trans[u].done /\ trans'[u].succeeded = trans[u].succeeded
        /\ trans'[u].seen = trans[u].seen
        /\ trans[u].path # trans[t].path => trans'[u].at = trans[u].at

LEMMA MovedSeen ==
  ASSUME NEW ts \in Records, NEW p \in Path, NEW from, NEW to \in {"locked", "final", "gone"}
  PROVE  \A u \in Id : moved(ts, p, from, to)[u].seen = ts[u].seen
BY DEF moved, Records, Transaction

LEMMA RenamedSeen ==
  ASSUME NEW ts \in Records, NEW p \in Path
  PROVE  \A u \in Id : renamed(ts, p)[u].seen = ts[u].seen
<1> DEFINE m == moved(ts, p, "final", "gone")
<1>1. m \in Records /\ \A u \in Id : m[u].seen = ts[u].seen
  BY MovedFacts, MovedSeen
<1>2. renamed(ts, p) = moved(m, p, "locked", "final")
  BY DEF renamed
<1> HIDE DEF m
<1>3. \A u \in Id : moved(m, p, "locked", "final")[u].seen = m[u].seen
  BY <1>1, MovedSeen
<1>4. QED BY <1>1, <1>2, <1>3

(* The callback on the records ts, where t may have been given a checksum. *)
LEMMA CallbackGives ==
  ASSUME IInv, NEW t \in Id, NEW ok \in BOOLEAN, NEW s \in Content, NEW us,
         \/ us = callback(trans, t, ok) /\ s = trans[t].seen
         \/ us = callback([trans EXCEPT ![t].seen = s], t, ok)
  PROVE  /\ us \in Records /\ ~us[t].running /\ us[t].at = "unopened"
         /\ \A u \in Id \ {t} : us[u] = trans[u]
         /\ t \in handles \cup {main.op} => /\ us[t].path = trans[t].path
                                            /\ us[t].succeeded = ok /\ us[t].seen = s
<1>1. trans \in Records /\ trans[t] \in Transaction
      /\ (t \in handles \cup {main.op} => trans[t].waiting)
  BY Invariants, PathOf DEF Owned
<1>2. ASSUME NEW ts \in Records, us = callback(ts, t, ok), ts[t].seen = s,
             ts[t].waiting = trans[t].waiting, ts[t].path = trans[t].path,
             \A u \in Id \ {t} : ts[u] = trans[u]
      PROVE  /\ us \in Records /\ ~us[t].running /\ us[t].at = "unopened"
             /\ \A u \in Id \ {t} : us[u] = trans[u]
             /\ trans[t].waiting => /\ us[t].path = trans[t].path
                                    /\ us[t].succeeded = ok /\ us[t].seen = s
  <2> DEFINE c == callback(ts, t, ok)
  <2>1. /\ c \in Records /\ ~c[t].running /\ c[t].at = "unopened"
        /\ \A u \in Id : u # t => c[u] = ts[u]
        /\ ts[t].waiting => /\ c[t].path = ts[t].path
                            /\ c[t].succeeded = ok /\ c[t].seen = ts[t].seen
    BY <1>2, CallbackFacts, CallbackStill
  <2> HIDE DEF c
  <2>2. us = c
    BY <1>2 DEF c
  <2>3. QED BY <1>2, <2>1, <2>2
<1>3. CASE us = callback(trans, t, ok) /\ s = trans[t].seen
  BY <1>1, <1>2, <1>3
<1>4. CASE us = callback([trans EXCEPT ![t].seen = s], t, ok)
  <2> DEFINE x == [trans[t] EXCEPT !.seen = s]
             ts == [trans EXCEPT ![t].seen = s]
  <2>1. x \in Transaction /\ x.seen = s /\ x.path = trans[t].path /\ x.waiting = trans[t].waiting
    BY <1>1 DEF Transaction
  <2>2. ts \in Records /\ ts[t] = x /\ \A u \in Id \ {t} : ts[u] = trans[u]
    BY <1>1, <2>1 DEF Records, x
  <2>3. us = callback(ts, t, ok)
    BY <1>4
  <2> HIDE DEF x, ts
  <2>4. QED BY <1>1, <1>2, <2>1, <2>2, <2>3
<1>5. QED BY <1>3, <1>4

(* ... and then nothing else, or a file is moved. *)
LEMMA Completes ==
  ASSUME NEW t \in Id, NEW ok, NEW s, NEW us \in Records,
         ~us[t].running, us[t].at = "unopened",
         \A u \in Id \ {t} : us[u] = trans[u],
         t \in handles \cup {main.op} => /\ us[t].path = trans[t].path
                                         /\ us[t].succeeded = ok /\ us[t].seen = s,
         \/ trans' = us
         \/ trans[t].path \in Path /\ trans' = renamed(us, trans[t].path)
         \/ \E from \in {"locked", "final"} :
              trans[t].path \in Path /\ trans' = moved(us, trans[t].path, from, "gone")
  PROVE  Completed(t, ok, s)
<1>1. SUFFICES \A u \in Id : /\ Same(trans'[u], us[u]) /\ trans'[u].sent = us[u].sent
                             /\ trans'[u].succeeded = us[u].succeeded
                             /\ trans'[u].seen = us[u].seen
                             /\ us[u].path # trans[t].path => trans'[u].at = us[u].at
  BY <1>1 DEF Completed, Same
<1>2. CASE trans' = us
  BY <1>2 DEF Same
<1>3. CASE trans[t].path \in Path /\ trans' = renamed(us, trans[t].path)
  BY <1>3, RenamedFacts, RenamedSeen
<1>4. ASSUME NEW from \in {"locked", "final"},
             trans[t].path \in Path, trans' = moved(us, trans[t].path, from, "gone")
      PROVE  \A u \in Id : /\ Same(trans'[u], us[u]) /\ trans'[u].sent = us[u].sent
                           /\ trans'[u].succeeded = us[u].succeeded
                           /\ trans'[u].seen = us[u].seen
                           /\ us[u].path # trans[t].path => trans'[u].at = us[u].at
  BY <1>4, MovedFacts, MovedSeen
<1>5. QED BY <1>2, <1>3, <1>4

(* A completion leaves tidy what is not about its path, and its path too   *)
(* if it does nothing to the files and the main thread learns nothing.     *)
LEMMA CompletedAway ==
  ASSUME IInv, IInv', FInv, NEW t \in Id, NEW ok \in BOOLEAN, NEW s, Completed(t, ok, s),
         UNCHANGED <<next, handles, main, told, overlapped, unmoved>>,
         NEW p \in Path, p \notin overlapped, locked'[p] = locked[p], final'[p] = final[p],
         trans[t].path = p =>
           /\ \A u \in Id \ {t} : trans'[u].at = trans[u].at
           /\ t = main.op => ~ok \/ main.at # "mv"
           /\ t = main.op /\ main.at = "checksum" /\ sameChecksum(s, main.t) =>
                \/ s = trans[t].seen
                \/ Ready(p) /\ (locked[p] # none => locked[p].by = main.t)
  PROVE  Tidy(p)'
<1>1. Tidy(p)
  BY DEF FInv
<1>2. \A u \in Id : trans'[u].path = p => Still(trans'[u], trans[u])
  BY DEF Completed, Still
<1>3. \A u \in handles \cup {main.op, main.t} : u # none => trans'[u].path = trans[u].path /\ u \in Id
  BY Invariants, HandleFacts DEF Completed, Main
<1>4. \A u \in handles' : trans'[u].path = p => u \in handles /\ trans[u].path = p
  BY <1>3, HandleFacts, IdFacts
<1>5. MainSame(p)
  <2>1. main.at \in {"mv", "checksum"} => main.t # none /\ main.op # none
    BY Invariants DEF MainOK
  <2>2. main.t # none => main.op # none /\ main.t \in Id /\ trans[main.op].path = trans[main.t].path
    BY Invariants, <1>3 DEF MainOK, FInv, Apart
  <2>3. main.op # none /\ main.op # t =>
          /\ trans'[main.op].done = trans[main.op].done
          /\ trans'[main.op].succeeded = trans[main.op].succeeded
          /\ trans'[main.op].seen = trans[main.op].seen
          /\ trans'[main.op].running = trans[main.op].running
    BY <1>3 DEF Completed
  <2>4. main.op = t => /\ ~trans'[t].running /\ trans'[t].succeeded = ok /\ trans'[t].seen = s
    BY DEF Completed
  <2>5. trans'[main.op].done /\ trans'[main.op].succeeded /\ main.at = "mv" /\ trans[main.t].path = p
          => trans[main.op].done /\ trans[main.op].succeeded
    BY <2>1, <2>2, <2>3, <2>4
  <2>6. moving(p)' => moving(p) \/ (Ready(p) /\ (locked[p] # none => locked[p].by = main.t))
    <3>1. SUFFICES ASSUME moving(p)'
                   PROVE  moving(p) \/ (Ready(p) /\ (locked[p] # none => locked[p].by = main.t))
      OBVIOUS
    <3>2. /\ main.t # none /\ trans[main.t].path = p
          /\ \/ main.at = "mv" /\ trans'[main.op].running
             \/ main.at = "checksum" /\ sameChecksum(trans'[main.op].seen, main.t)
      BY <1>3, <3>1 DEF moving
    <3>3. CASE main.op = t
      BY <2>2, <2>4, <3>2, <3>3 DEF moving
    <3>4. CASE main.op # t
      BY <2>2, <2>3, <3>2, <3>4 DEF moving
    <3>5. QED BY <3>3, <3>4
  <2>7. QED BY <1>3, <2>5, <2>6 DEF MainSame
<1>6. QED BY <1>1, <1>2, <1>4, <1>5, Frame
(* An operation on the files of q has ended that may have changed them.    *)
LEMMA CompletedHere ==
  ASSUME IInv, IInv', FInv, NEW t \in Id, NEW ok \in BOOLEAN, NEW s, Completed(t, ok, s),
         UNCHANGED <<next, handles, main, told, overlapped, unmoved>>,
         NEW q \in Path, q \notin overlapped, trans[t].path = q, trans[t].running,
         trans[t].op \notin {"put", "get", "checksum"},
         locked'[q] \in {locked[q], none},
         \A u \in Id \ {t} : sends(u, q) =>
            /\ trans'[u].at = "locked" <=> trans[u].at = "locked" /\ locked'[q] # none
            /\ trans'[u].at = "final" => trans[u].sent = Blocks,
         final'[q] # none => whole(final'[q]),
         told[q] # none /\ q \notin unmoved => final'[q] # none /\ final'[q].by >= told[q],
         t = main.op /\ main.at = "mv" /\ ok => final'[q] # none /\ final'[q].by = main.t
  PROVE  Tidy(q)'
<1>1. Tidy(q) /\ Apart
  BY DEF FInv
<1>2. \A u \in Id : onPath(u, q)' => /\ u # t /\ onPath(u, q) /\ trans'[u].op = trans[u].op
                                     /\ trans'[u].sent = trans[u].sent
  BY DEF onPath, Completed
<1>3. \A u \in Id : sends(u, q)' => u # t /\ sends(u, q) /\ trans'[u].sent = trans[u].sent
  BY <1>2 DEF sends, isTransfer
<1>4. Ready(q) => Ready(q)'
  BY <1>3 DEF Ready
<1>5. \A u \in handles \cup {main.op, main.t} : u # none => trans'[u].path = trans[u].path /\ u \in Id
  BY Invariants, HandleFacts DEF Completed, Main
(* The main thread is busy with q for a caller only if it waits for t. *)
<1>6. main.t # none /\ trans[main.t].path = q => main.op = t
  <2>1. main.t # none => main.t \in handles /\ trans[main.t].op \in {"put", "get"}
    BY HandleFacts
  <2>2. onPath(t, q)
    BY DEF onPath
  <2>3. QED BY <1>1, <2>1, <2>2 DEF Tidy, Alone
<1>7. main.op = t => main.at = trans[t].op /\ trans'[t].succeeded = ok /\ ~trans'[t].running
  BY Invariants, IdFacts DEF MainOK, Completed
<1>8. main.at \in {"mv", "checksum"} => main.t # none
  BY Invariants DEF MainOK
<1>9. Alone(q)'
  <2>1. \A u, v \in Id : sends(u, q)' /\ sends(v, q)' => u = v
    BY <1>1, <1>3 DEF Tidy, Alone
  <2>2. \A h \in handles : trans'[h].path = q => trans[h].path = q
    BY <1>5, HandleFacts, IdFacts
  <2>3. QED BY <1>1, <1>2, <2>1, <2>2 DEF Tidy, Alone
<1>10. Sent(q)'
  <2>1. ASSUME NEW u \in Id, sends(u, q)'
        PROVE  /\ trans'[u].at = "locked" <=> locked'[q] # none /\ locked'[q].by = u
               /\ trans'[u].at = "locked" => locked'[q].n = trans'[u].sent
               /\ trans'[u].at = "final" => trans'[u].sent = Blocks
    <3>1. u # t /\ sends(u, q) /\ trans'[u].sent = trans[u].sent
      BY <1>3, <2>1
    <3>2. /\ trans[u].at = "locked" <=> locked[q] # none /\ locked[q].by = u
          /\ trans[u].at = "locked" => locked[q].n = trans[u].sent
      BY <1>1, <3>1 DEF Tidy, Sent
    <3>3. QED BY <3>1, <3>2
  <2>2. QED BY <2>1 DEF Sent
<1>11. Moved(q)'
  <2>1. \A u \in Id : onPath(u, q)' /\ trans'[u].op = "mv" => Ready(q)'
    BY <1>1, <1>2, <1>4 DEF Tidy, Moved
  <2>2. main.t # none => trans'[main.t].path = trans[main.t].path
    BY <1>5
  <2>3. ~moving(q)'
    BY <1>6, <1>7, <2>2 DEF moving
  <2>4. main.at = "mv" /\ trans'[main.t].path = q /\ trans'[main.op].done /\ trans'[main.op].succeeded
          => final'[q] # none /\ final'[q].by = main.t
    BY <1>6, <1>7, <1>8, <2>2
  <2>5. QED BY <2>1, <2>3, <2>4 DEF Moved
<1>12. Published(q)'
  <2>1. told[q] # none => \A u \in Id : onPath(u, q)' => trans'[u].op # "rmFinal"
    BY <1>1, <1>2 DEF Tidy, Published
  <2>2. main.at = "rmLocked" => trans'[main.op].path = trans[main.op].path
    BY <1>5, Invariants DEF MainOK
  <2>3. told[q] # none /\ main.at = "rmLocked" => trans'[main.op].path # q
    BY <1>1, <2>2 DEF Tidy, Published
  <2>4. QED BY <2>1, <2>3 DEF Published
<1>13. QED BY <1>9, <1>10, <1>11, <1>12 DEF Tidy

LEMMA ReplicateTidy ==
  ASSUME IInv, IInv', FInv, NEW t \in Id, replicateCompleteCallback(t)
  PROVE  FInv'
<1>1. PICK ok \in BOOLEAN : trans' = callback(trans, t, ok)
  BY DEF replicateCompleteCallback
<1>2. /\ UNCHANGED <<next, handles, main, locked, final, told, overlapped, unmoved>> /\ trans \in Records
      /\ t # main.op /\ trans[t] \in Transaction
  <2>1. isTransfer(t)
    BY DEF replicateCompleteCallback
  <2>2. t # main.op
    BY <2>1, Invariants DEF Owned, isTransfer, Waits
  <2>3. QED BY <2>2, Invariants, PathOf DEF replicateCompleteCallback, files, history
<1>3. PICK s \in Content : s = trans[t].seen
  BY <1>2 DEF Transaction
<1>4. /\ trans' \in Records /\ ~trans'[t].running /\ trans'[t].at = "unopened"
      /\ \A u \in Id \ {t} : trans'[u] = trans[u]
      /\ t \in handles \cup {main.op} => /\ trans'[t].path = trans[t].path
                                         /\ trans'[t].succeeded = ok /\ trans'[t].seen = s
  <2>1. \/ trans' = callback(trans, t, ok) /\ s = trans[t].seen
        \/ trans' = callback([trans EXCEPT ![t].seen = s], t, ok)
    BY <1>1, <1>3
  <2>2. QED BY <2>1, CallbackGives
<1>5. Completed(t, ok, s)
  BY <1>4 DEF Completed
<1>6. \A u \in handles \cup {main.op} : u # none => trans'[u].path = trans[u].path
  BY <1>4, Invariants, HandleFacts DEF Main
<1>7. Apart'
  <2>1. \A u \in handles : u # none
    BY HandleFacts, IdFacts
  <2>2. QED BY <1>2, <1>6, <2>1, LibraryApart DEF FInv
<1>8. ASSUME NEW p \in Path, p \notin overlapped PROVE Tidy(p)'
  BY <1>2, <1>4, <1>5, <1>8, CompletedAway
<1>9. QED BY <1>2, <1>7, <1>8 DEF FInv

LEMMA CompleteTidy ==
  ASSUME IInv, IInv', FInv, NEW t \in Id, completeCallback(t)
  PROVE  FInv'
<1>1. /\ UNCHANGED <<next, handles, main, told, overlapped, unmoved>> /\ trans \in Records
      /\ trans[t] \in Transaction /\ trans[t].running /\ trans[t].op \notin {"put", "get"}
      /\ Open(trans, locked, final)
      /\ locked \in [Path -> Content] /\ final \in [Path -> Content]
  BY Invariants, PathOf DEF completeCallback, history, running, isTransfer, FilesTypes
<1>2. trans[t].op # "call" => trans[t].path \in Path
  BY <1>1, Invariants DEF Owned, Transaction
<1>3. PICK q \in Path \cup {none} : q = trans[t].path
  BY <1>1, PathOf
<1>4. t = main.op => /\ main.at = trans[t].op /\ main.t # t
                     /\ main.t # none => trans[main.t].path = q /\ main.t \in handles
  BY <1>1, <1>3, Invariants, HandleFacts, IdFacts DEF MainOK, FInv, Apart
(* What is left to show once the records are known. *)
<1>5. ASSUME NEW ok, NEW s, Completed(t, ok, s),
             \A p \in Path : locked'[p] \in {locked[p], none},
             \A p \in Path \ overlapped : Tidy(p)'
      PROVE  FInv'
  <2>1. \A u \in handles : trans'[u].path = trans[u].path
    BY <1>5, HandleFacts DEF Completed
  <2>2. main.op # none => trans'[main.op].path = trans[main.op].path
    BY <1>5, Invariants DEF Completed, Main
  <2>3. Apart'
    BY <1>1, <1>5, <2>1, <2>2, LibraryApart DEF FInv
  <2>4. QED BY <1>1, <1>5, <2>3 DEF FInv
(* The files stay as they are. *)
<1>6. ASSUME NEW ok \in BOOLEAN, NEW s \in Content, UNCHANGED <<locked, final>>,
             \/ trans' = callback(trans, t, ok) /\ s = trans[t].seen
             \/ trans' = callback([trans EXCEPT ![t].seen = s], t, ok),
             t = main.op /\ main.at = "mv" => ~ok,
             s = trans[t].seen \/ (q \in Path /\ s = locked[q])
      PROVE  FInv'
  <2>1. /\ trans' \in Records /\ ~trans'[t].running /\ trans'[t].at = "unopened"
        /\ \A u \in Id \ {t} : trans'[u] = trans[u]
        /\ t \in handles \cup {main.op} => /\ trans'[t].path = trans[t].path
                                           /\ trans'[t].succeeded = ok /\ trans'[t].seen = s
    BY <1>6, CallbackGives
  <2>2. Completed(t, ok, s)
    BY <2>1 DEF Completed
  <2>3. ASSUME NEW p \in Path \ overlapped PROVE Tidy(p)'
    <3>1. ASSUME p = q, t = main.op, main.at = "checksum", sameChecksum(s, main.t), s = locked[q]
          PROVE  Ready(p) /\ (locked[p] # none => locked[p].by = main.t)
      <4>1. Tidy(p) /\ main.t # none /\ main.t \in handles /\ trans[main.t].path = p
        BY <1>4, <2>3, <3>1, Invariants DEF FInv, MainOK
      <4>2. whole(locked[p]) /\ locked[p] # none /\ locked[p].by = main.t
        BY <3>1 DEF sameChecksum, whole
      <4>3. told[p] # none => locked[p].by >= told[p]
        <5>1. told[p] # none => told[p] < main.t /\ told[p] \in Nat
          BY <4>1, IdFacts DEF Tidy, Alone, IInv, TypeOK
        <5>2. main.t \in Nat
          BY <4>1, HandleFacts, IdFacts
        <5>3. QED BY <4>2, <5>1, <5>2
      <4>4. ASSUME NEW u \in Id, sends(u, p) PROVE trans[u].sent = Blocks
        <5>1. u \in {main.t, main.op}
          BY <4>1, <4>4 DEF Tidy, Alone, sends
        <5>2. u = main.t
          BY <1>1, <3>1, <4>4, <5>1 DEF sends, isTransfer
        <5>3. trans[u].at = "locked" /\ locked[p].n = trans[u].sent
          BY <4>1, <4>2, <4>4, <5>2 DEF Tidy, Sent
        <5>4. QED BY <4>2, <5>3 DEF whole
      <4>5. QED BY <4>2, <4>3, <4>4 DEF Ready
    <3>2. QED BY <1>1, <1>3, <1>6, <2>1, <2>2, <2>3, <3>1, CompletedAway
  <2>4. QED BY <1>5, <1>6, <2>2, <2>3
(* A file of q is moved or removed. *)
<1>7. ASSUME NEW ok \in BOOLEAN, q \in Path,
             \/ /\ trans[t].op = "mv" /\ locked[q] # none
                /\ trans' = renamed(callback(trans, t, ok), q)
                /\ final' = [final EXCEPT ![q] = locked[q]]
                /\ locked' = [locked EXCEPT ![q] = none]
             \/ /\ trans[t].op \in {"rm", "rmLocked"}
                /\ trans' = moved(callback(trans, t, ok), q, "locked", "gone")
                /\ locked' = [locked EXCEPT ![q] = none] /\ UNCHANGED final
             \/ /\ trans[t].op = "rmFinal"
                /\ trans' = moved(callback(trans, t, ok), q, "final", "gone")
                /\ final' = [final EXCEPT ![q] = none] /\ UNCHANGED locked
      PROVE  FInv'
  <2> DEFINE us == callback(trans, t, ok)
  <2>1. PICK s \in Content : s = trans[t].seen
    BY <1>1 DEF Transaction
  <2>2. /\ us \in Records /\ ~us[t].running /\ us[t].at = "unopened"
        /\ \A u \in Id \ {t} : us[u] = trans[u]
        /\ t \in handles \cup {main.op} => /\ us[t].path = trans[t].path
                                           /\ us[t].succeeded = ok /\ us[t].seen = s
    <3>1. \/ us = callback(trans, t, ok) /\ s = trans[t].seen
          \/ us = callback([trans EXCEPT ![t].seen = s], t, ok)
      BY <2>1
    <3> HIDE DEF us
    <3>2. QED BY <3>1, CallbackGives
  <2>3. \/ trans' = renamed(us, q)
        \/ \E from \in {"locked", "final"} : trans' = moved(us, q, from, "gone")
    BY <1>7
  <2> HIDE DEF us
  <2>4. Completed(t, ok, s)
    BY <1>3, <1>7, <2>2, <2>3, Completes
  <2>5. /\ \A p \in Path \ {q} : locked'[p] = locked[p] /\ final'[p] = final[p]
        /\ locked'[q] \in {locked[q], none}
    BY <1>1, <1>7
  <2>6. ASSUME NEW p \in Path \ overlapped, p # q PROVE Tidy(p)'
    BY <1>1, <1>3, <2>4, <2>5, <2>6, CompletedAway
  <2>7. ASSUME q \notin overlapped PROVE Tidy(q)'
    <3>1. Tidy(q) /\ onPath(t, q)
      BY <1>1, <1>3, <1>7, <2>7 DEF FInv, onPath
    <3>2. trans[t].op = "mv" => Ready(q)
      BY <3>1 DEF Tidy, Moved
    <3>3. told[q] # none => trans[t].op # "rmFinal"
      BY <3>1 DEF Tidy, Published
    <3>4. \A u \in Id \ {t} : sends(u, q) =>
            /\ trans'[u].at = "locked" <=> trans[u].at = "locked" /\ locked'[q] # none
            /\ trans'[u].at = "final" => trans[u].sent = Blocks
      <4>1. SUFFICES ASSUME NEW u \in Id \ {t}, sends(u, q)
                     PROVE  /\ trans'[u].at = "locked" <=> trans[u].at = "locked" /\ locked'[q] # none
                            /\ trans'[u].at = "final" => trans[u].sent = Blocks
        OBVIOUS
      <4>2. /\ us[u].path = q /\ us[u].at = trans[u].at
            /\ trans[u].at = "final" => trans[u].sent = Blocks
            /\ trans[u].at = "locked" => locked[q] # none
        BY <2>2, <3>1, <4>1 DEF sends, onPath, Tidy, Sent
      <4>3. CASE trans[t].op = "mv"
        <5>1. trans' = renamed(us, q) /\ locked'[q] = none
          BY <1>1, <1>7, <4>3 DEF us
        <5>2. /\ trans'[u].at # "locked"
              /\ trans'[u].at = "final" => us[u].at = "locked"
          BY <1>7, <2>2, <4>2, <5>1, RenamedFacts
        <5>3. trans[u].sent = Blocks
          BY <3>2, <4>1, <4>3 DEF Ready
        <5>4. QED BY <5>1, <5>2, <5>3
      <4>4. CASE trans[t].op \in {"rm", "rmLocked"}
        <5>1. trans' = moved(us, q, "locked", "gone") /\ locked'[q] = none
          BY <1>1, <1>7, <4>4 DEF us
        <5>2. trans'[u].at = IF us[u].at = "locked" THEN "gone" ELSE us[u].at
          BY <1>7, <2>2, <4>2, <5>1, MovedFacts
        <5>3. QED BY <4>2, <5>1, <5>2
      <4>5. CASE trans[t].op = "rmFinal"
        <5>1. trans' = moved(us, q, "final", "gone") /\ locked' = locked
          BY <1>7, <4>5 DEF us
        <5>2. trans'[u].at = IF us[u].at = "final" THEN "gone" ELSE us[u].at
          BY <1>7, <2>2, <4>2, <5>1, MovedFacts
        <5>3. QED BY <4>2, <5>1, <5>2
      <4>6. QED BY <1>7, <4>3, <4>4, <4>5
    <3>5. CASE trans[t].op = "mv"
      <4>1. final'[q] = locked[q] /\ locked[q] # none
        BY <1>1, <1>7, <3>5
      <4>2. whole(final'[q]) /\ (told[q] # none => final'[q].by >= told[q])
        BY <3>2, <3>5, <4>1 DEF Ready
      <4>3. t = main.op => final'[q].by = main.t
        <5>1. ASSUME t = main.op PROVE moving(q)
          BY <1>1, <1>4, <3>5, <5>1, Invariants DEF moving, MainOK
        <5>2. QED BY <3>1, <4>1, <5>1 DEF Tidy, Moved
      <4>4. QED BY <1>1, <1>3, <1>7, <2>4, <2>5, <2>7, <3>4, <3>5, <4>1, <4>2, <4>3, CompletedHere
    <3>6. CASE trans[t].op \in {"rm", "rmLocked"}
      <4>1. final'[q] = final[q]
        BY <1>7, <3>6
      <4>2. t = main.op => main.at # "mv"
        BY <1>4, <3>6
      <4>3. trans[t].op \notin {"put", "get", "checksum"}
        BY <3>6
      <4>4. /\ final'[q] # none => whole(final'[q])
            /\ told[q] # none /\ q \notin unmoved => final'[q] # none /\ final'[q].by >= told[q]
        BY <3>1, <4>1 DEF Tidy, Published
      <4>5. QED BY <1>1, <1>3, <1>7, <2>4, <2>5, <2>7, <3>4, <4>2, <4>3, <4>4, CompletedHere
    <3>7. CASE trans[t].op = "rmFinal"
      <4>1. final'[q] = none
        BY <1>1, <1>7, <3>7
      <4>2. t = main.op => main.at # "mv"
        BY <1>4, <3>7
      <4>3. trans[t].op \notin {"put", "get", "checksum"} /\ told[q] = none
        BY <3>3, <3>7
      <4>4. QED BY <1>1, <1>3, <1>7, <2>4, <2>5, <2>7, <3>4, <4>1, <4>2, <4>3, CompletedHere
    <3>8. QED BY <1>7, <3>5, <3>6, <3>7
  <2>8. \A p \in Path : locked'[p] \in {locked[p], none}
    BY <2>5
  <2>9. \A p \in Path \ overlapped : Tidy(p)'
    BY <2>6, <2>7
  <2>10. QED BY <1>5, <2>4, <2>8, <2>9
<1>8. ASSUME NEW ok \in BOOLEAN, UNCHANGED files, trans' = callback(trans, t, ok),
             ~ok \/ trans[t].op = "call"
      PROVE  FInv'
  <2>1. PICK s \in Content : s = trans[t].seen
    BY <1>1 DEF Transaction
  <2>2. t = main.op /\ main.at = "mv" => ~ok
    BY <1>4, <1>8
  <2>3. QED BY <1>6, <1>8, <2>1, <2>2 DEF files
<1>9. ASSUME NEW ok \in BOOLEAN, UNCHANGED files, trans[t].op = "checksum",
             trans' = callback([trans EXCEPT ![t].seen = locked[trans[t].path]], t, ok)
      PROVE  FInv'
  <2>1. PICK s \in Content : s = locked[q]
    BY <1>1, <1>2, <1>3, <1>9
  <2>2. q \in Path /\ (t = main.op => main.at # "mv")
    BY <1>2, <1>3, <1>4, <1>9
  <2>3. trans' = callback([trans EXCEPT ![t].seen = s], t, ok)
    BY <1>3, <1>9, <2>1
  <2>4. QED BY <1>6, <1>9, <2>1, <2>2, <2>3 DEF files
<1>10. QED
  <2>1. trans[t].op # "call" => q \in Path
    BY <1>2, <1>3
  <2>2. PICK ok \in BOOLEAN :
          \/ /\ trans[t].op = "call"
             /\ trans' = callback(trans, t, ok) /\ UNCHANGED files
          \/ /\ trans[t].op = "checksum"
             /\ trans' = callback([trans EXCEPT ![t].seen = locked[trans[t].path]], t, ok)
             /\ UNCHANGED files
          \/ /\ trans[t].op = "mv" /\ locked[q] # none
             /\ trans' = renamed(callback(trans, t, ok), q)
             /\ final' = [final EXCEPT ![q] = locked[q]]
             /\ locked' = [locked EXCEPT ![q] = none]
          \/ /\ trans[t].op \in {"rm", "rmLocked"}
             /\ trans' = moved(callback(trans, t, ok), q, "locked", "gone")
             /\ locked' = [locked EXCEPT ![q] = none] /\ UNCHANGED final
          \/ /\ trans[t].op = "rmFinal"
             /\ trans' = moved(callback(trans, t, ok), q, "final", "gone")
             /\ final' = [final EXCEPT ![q] = none] /\ UNCHANGED locked
          \/ trans' = callback(trans, t, FALSE) /\ UNCHANGED files
    BY <1>3 DEF completeCallback
  <2>3. QED BY <1>7, <1>8, <1>9, <2>1, <2>2

LEMMA StepTidy ==
  ASSUME IInv, IInv', FInv, [Next]_vars
  PROVE  FInv'
<1>1. CASE UNCHANGED vars
  <2>1. UNCHANGED <<next, trans, handles, main, locked, final, told, overlapped, unmoved>>
    BY <1>1 DEF vars
  <2>2. Apart'
    BY <2>1 DEF FInv, Apart
  <2>3. ASSUME NEW p \in Path \ overlapped PROVE Tidy(p)'
    <3>1. Tidy(p)
      BY DEF FInv
    <3>2. Alone(p)' /\ Sent(p)'
      BY <2>1, <3>1 DEF Tidy, Alone, Sent, sends, onPath, isTransfer
    <3>3. Moved(p)'
      BY <2>1, <3>1 DEF Tidy, Moved, moving, Ready, sends, onPath, isTransfer
    <3>4. Published(p)'
      BY <2>1, <3>1 DEF Tidy, Published, onPath
    <3>5. QED BY <3>2, <3>3, <3>4 DEF Tidy
  <2>4. QED BY <2>1, <2>2, <2>3 DEF FInv
<1>2. ASSUME NEW op \in {"put", "get"}, NEW p \in Path, startFails(op, p)
      PROVE  FInv'
  BY <1>2, StartsTidy
<1>3. ASSUME NEW p \in Remote, digs_startPutTransfer(p) \/ startFtpWriteFails(p)
      PROVE  FInv'
  BY <1>3, StartsTidy DEF digs_startPutTransfer, Path
<1>4. ASSUME NEW p \in Local, digs_startGetTransfer(p) \/ startFtpReadFails(p)
      PROVE  FInv'
  BY <1>4, StartsTidy DEF digs_startGetTransfer, Path
<1>5. ASSUME NEW t \in Id, dataCallback(t) \/ Completion(t)
      PROVE  FInv'
  BY <1>5, DataTidy, ReplicateTidy, CompleteTidy DEF Completion
<1>6. ASSUME NEW t \in Id, \/ endFailed(t) \/ endGet(t) \/ endPut(t)
                           \/ cancelGet(t) \/ cancelPut(t)
      PROVE  FInv'
  BY <1>6, EndPutTidy, EndGetTidy, CancelGetTidy, CancelPutTidy
<1>7. QED
  BY <1>1, <1>2, <1>3, <1>4, <1>5, <1>6, CallTidy, CallReturnsTidy, ChecksumTidy, MoveReturnsTidy,
     RemovalTidy
  DEF Next, Waiting

LEMMA InitTidy == Init => FInv
<1>1. SUFFICES ASSUME Init PROVE FInv
  OBVIOUS
<1>2. /\ \A t \in Id : ~trans[t].running
      /\ handles = {} /\ main.op = none /\ main.t = none /\ main.at = "idle"
      /\ \A p \in Path : locked[p] = none /\ final[p] = none /\ told[p] = none
  BY <1>1, IdleMain DEF Init, blank
<1>3. Apart
  BY <1>2 DEF Apart
<1>4. \A p \in Path : Tidy(p)
  BY <1>2 DEF Tidy, Alone, Sent, Moved, Published, moving, onPath, sends
<1>5. QED BY <1>3, <1>4 DEF FInv

LEMMA FilesInvariance == Spec => []FInv
<1>1. IInv /\ IInv' /\ FInv /\ [Next]_vars => FInv'
  BY StepTidy
<1>2. QED BY <1>1, InitTidy, Invariance, PTL DEF Spec

(* A file that has its own name is the whole of one transfer, however data, *)
(* time-outs and late callbacks follow each other, as long as the path is   *)
(* not used again before an abandoned operation on it has ended             *)
(* (digs_endTransfer_globus).                                               *)
THEOREM OnlyWholeFiles == Spec => []PublishedWhole
<1>1. FInv => PublishedWhole
  BY DEF FInv, Tidy, Published, PublishedWhole
<1>2. QED BY <1>1, FilesInvariance, PTL

(* What digs_endTransfer_globus has reported is at the path, or a later     *)
(* transfer is, unless the last thing reported is a get that could not be   *)
(* renamed, or the path was used again under an abandoned operation.        *)
THEOREM ReportsAreTrue == Spec => []ReportedThere
<1>1. FInv => ReportedThere
  BY DEF FInv, Tidy, Published, ReportedThere
<1>2. QED BY <1>1, FilesInvariance, PTL
===============================================================================
