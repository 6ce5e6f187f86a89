--------------------------- MODULE Prekeys_proofs ---------------------------
(***************************************************************************)
(* That no one-time prekey is handed out twice, for any number of peers,   *)
(* tasks and restarts and any stock.  The invariant follows a key from its *)
(* task by way of the row to the peer who gets it: it is in one place only.*)
(* And that the key file has the private key of every OPK a peer can use,  *)
(* as long as the client's tasks come one after the other.                 *)
(***************************************************************************)
EXTENDS Prekeys, SequenceTheorems, TLAPS

(* The types.                                                              *)
RequestRecord ==
  [pc : {"idle", "selected", "answered", "begun"},
   row : Seq(Entry), opk : Entry \cup {Null}]

TaskRecord ==
  [pc : {"idle", "count", "upload", "append", "write"},
   kind : {"replenish", "login", "delete", Null},
   bundle : Seq(Nat), row : Seq(Entry), new : Seq(Nat),
   used : Entry \cup {Null}]

Types ==
  /\ generated \in Nat
  /\ pool \in Seq(Entry)
  /\ keyFile \in Seq(Nat)
  /\ memory = Null \/ memory \in Seq(Nat)
  /\ request \in [Requests -> RequestRecord]
  /\ task \in [Tasks -> TaskRecord]

(* What a transaction has read is what is there.                           *)
Locks ==
  /\ holder \in Requests \cup Tasks \cup {Null}
  /\ \A r \in Requests :
       /\ request[r].pc = "selected" <=> holder = r
       /\ request[r].pc = "selected" => request[r].row = pool
  /\ \A t \in Tasks :
       /\ task[t].pc = "append" <=> holder = t
       /\ task[t].pc = "append" => task[t].row = pool

(* All keys are keys the client has made.                                  *)
Made(s) == \A i \in DOMAIN s : s[i] <= generated
Bundle(s) == Made(s) /\ NUM_ONE_TIME_PREKEYS <= Len(s)

Bounds ==
  /\ \A i \in DOMAIN pool : pool[i].key <= generated
  /\ Bundle(keyFile)
  /\ memory # Null => Made(memory)
  /\ \A r \in Answered : request[r].opk.key <= generated
  /\ \A t \in Tasks :
       /\ task[t].pc # "idle" => Bundle(task[t].bundle)
       /\ Made(task[t].new)
       /\ task[t].pc # "idle" /\ task[t].kind = "delete" =>
            /\ task[t].pc = "write"
            /\ task[t].used # Null /\ task[t].used.key <= generated
  /\ consumed \subseteq 1..generated

(* The keys that are on their way to the server.                           *)
Uploading == {t \in Tasks : task[t].pc \in {"upload", "append"}}

NewApart ==
  /\ \A t \in Uploading : \A i \in DOMAIN task[t].new :
       /\ task[t].new[i] # Zero
       /\ \A j \in DOMAIN task[t].new :
            task[t].new[i] = task[t].new[j] => i = j
       /\ \A j \in DOMAIN pool : pool[j].key # task[t].new[i]
       /\ \A r \in Answered : request[r].opk.key # task[t].new[i]
  /\ \A t1, t2 \in Uploading : t1 # t2 =>
       \A i \in DOMAIN task[t1].new, j \in DOMAIN task[t2].new :
         task[t1].new[i] # task[t2].new[j]

PoolApart ==
  \A i, j \in DOMAIN pool : pool[i].key = pool[j].key => i = j

PrekeysInv == Types /\ Locks /\ Bounds /\ NewApart /\ PoolApart /\ OpkHandedOnce

---------------------------------------------------------------------------
(* After the registration.                                                 *)
LEMMA InitOK == Init => PrekeysInv
<1> SUFFICES ASSUME Init PROVE PrekeysInv
  OBVIOUS
<1> USE StockAssumption, HoldersAssumption
<1>1. /\ keyFile = [i \in 1..NUM_ONE_TIME_PREKEYS |-> i]
      /\ memory = [i \in 1..NUM_ONE_TIME_PREKEYS |-> i]
      /\ pool = [i \in 1..NUM_ONE_TIME_PREKEYS |-> [id |-> i - 1, key |-> i]]
      /\ generated = NUM_ONE_TIME_PREKEYS
      /\ consumed = {}
      /\ holder = Null
  BY DEF Init
<1>2. keyFile \in Seq(Nat) /\ memory \in Seq(Nat) /\ Len(keyFile) = NUM_ONE_TIME_PREKEYS
  BY <1>1
<1>3. pool \in Seq(Entry) /\ DOMAIN pool = 1..NUM_ONE_TIME_PREKEYS
  BY <1>1 DEF Entry, Zero
<1>4. \A i \in DOMAIN pool : pool[i].key = i
  BY <1>1
<1>5. \A r \in Requests :
        request[r] = [pc |-> "idle", row |-> <<>>, opk |-> Null]
  BY DEF Init, NoRequest
<1>6. \A t \in Tasks :
        task[t] = [pc |-> "idle", kind |-> Null, bundle |-> <<>>, row |-> <<>>,
                   new |-> <<>>, used |-> Null]
  BY DEF Init, NoTask
<1>7. Types
  BY <1>1, <1>2, <1>3 DEF Types, Init, NoRequest, NoTask, RequestRecord, TaskRecord
<1>8. Locks
  BY <1>1, <1>5, <1>6 DEF Locks
<1>9. Bounds
  BY <1>1, <1>2, <1>3, <1>4, <1>5, <1>6 DEF Bounds, Bundle, Made, Answered
<1>10. NewApart /\ OpkHandedOnce
  BY <1>5, <1>6 DEF NewApart, Uploading, OpkHandedOnce, Answered
<1>11. PoolApart
  BY <1>3, <1>4 DEF PoolApart
<1> QED
  BY <1>7, <1>8, <1>9, <1>10, <1>11 DEF PrekeysInv

---------------------------------------------------------------------------
(* The server.                                                             *)

LEMMA SelectBundleOK ==
  ASSUME PrekeysInv, NEW r \in Requests, SelectBundle(r)
  PROVE  PrekeysInv'
<1> USE HoldersAssumption DEF PrekeysInv
<1> DEFINE now == [request[r] EXCEPT !.pc = "selected", !.row = pool]
<1>1. /\ request[r].pc = "idle" /\ holder = Null /\ holder' = r
      /\ request' = [request EXCEPT ![r] = now]
      /\ UNCHANGED <<pool, keyFile, memory, task, generated, consumed>>
  BY DEF SelectBundle, selectedForUpdate
<1>2. /\ now \in RequestRecord
      /\ now.pc = "selected" /\ now.row = pool /\ now.opk = request[r].opk
  BY DEF Types, RequestRecord
<1> HIDE DEF now
<1>3. Answered' = Answered /\ \A q \in Requests : request'[q].opk = request[q].opk
  BY <1>1, <1>2 DEF Answered, Types
<1>4. Types'
  BY <1>1, <1>2 DEF Types
<1>5. Locks'
  BY <1>1, <1>2 DEF Locks, Types
<1>6. Bounds' /\ NewApart' /\ PoolApart' /\ OpkHandedOnce'
  BY <1>1, <1>3
  DEF Bounds, Bundle, Made, NewApart, Uploading, PoolApart, OpkHandedOnce, Answered
<1> QED
  BY <1>4, <1>5, <1>6

(* The key of the OPK that is taken was nowhere else.                      *)
LEMMA PopOpkOK ==
  ASSUME PrekeysInv, NEW r \in Requests, PopOpk(r)
  PROVE  PrekeysInv'
<1> USE HoldersAssumption DEF PrekeysInv
<1> DEFINE opk == IF pool = <<>> THEN Null ELSE Head(pool)
           rest == IF pool = <<>> THEN pool ELSE Tail(pool)
<1>1. /\ request[r].pc = "selected" /\ holder = r /\ request[r].row = pool
      /\ holder' = Null
      /\ UNCHANGED <<keyFile, memory, task, generated, consumed>>
  BY DEF PopOpk, Locks
<1>2. /\ request' = [request EXCEPT ![r] =
                       [pc |-> "answered", row |-> <<>>, opk |-> opk]]
      /\ pool' = rest
  BY <1>1 DEF PopOpk
<1>3. rest \in Seq(Entry) /\ opk \in Entry \cup {Null}
  BY DEF Types
<1>4. \A i \in DOMAIN rest :
        \/ i + 1 \in DOMAIN pool /\ i \in Nat /\ rest[i] = pool[i + 1]
        \/ pool = <<>>
  BY DEF Types
<1>5. opk # Null => 1 \in DOMAIN pool /\ opk = pool[1]
  BY DEF Types, RequestRecord
<1> HIDE DEF opk, rest
<1>6. Types'
  BY <1>1, <1>2, <1>3 DEF Types, RequestRecord
<1>7. Locks'
  BY <1>1, <1>2 DEF Locks, Types
<1>8. \A i \in DOMAIN pool' : \E k \in DOMAIN pool : k # 1 /\ pool'[i] = pool[k]
  BY <1>2, <1>4 DEF rest, Types
<1>9. \A q \in Answered' : \/ q = r /\ request'[q].opk = pool[1] /\ 1 \in DOMAIN pool
                           \/ q # r /\ q \in Answered /\ request'[q].opk = request[q].opk
  BY <1>2, <1>5 DEF Answered, Types
<1>10. Bounds'
  BY <1>1, <1>8, <1>9 DEF Bounds, Bundle, Made
<1>11. NewApart'
  BY <1>1, <1>8, <1>9 DEF NewApart, Uploading
<1>12. PoolApart'
  BY <1>2, <1>4 DEF PoolApart, rest, Types
<1>13. OpkHandedOnce'
  BY <1>8, <1>9 DEF OpkHandedOnce, PoolApart
<1> QED
  BY <1>6, <1>7, <1>10, <1>11, <1>12, <1>13

LEMMA SelectRowOK ==
  ASSUME PrekeysInv, NEW t \in Tasks, SelectRow(t)
  PROVE  PrekeysInv'
<1> USE HoldersAssumption DEF PrekeysInv
<1> DEFINE now == [task[t] EXCEPT !.pc = "append", !.row = pool]
<1>1. /\ task[t].pc = "upload" /\ holder = Null /\ holder' = t
      /\ UNCHANGED <<pool, request, keyFile, memory, generated, consumed>>
  BY DEF SelectRow, selectedForUpdate
<1>2. task' = [task EXCEPT ![t] = now]
  BY DEF SelectRow
<1>8. /\ now \in TaskRecord
      /\ now.pc = "append" /\ now.row = pool /\ now.kind = task[t].kind
      /\ now.bundle = task[t].bundle /\ now.new = task[t].new
      /\ now.used = task[t].used
  BY DEF Types, TaskRecord
<1> HIDE DEF now
<1>3. Types'
  BY <1>1, <1>2, <1>8 DEF Types
<1>4. Locks'
  BY <1>1, <1>2, <1>8 DEF Locks, Types
<1>5. /\ Uploading' = Uploading
      /\ \A u \in Tasks : /\ task'[u].new = task[u].new
                          /\ task'[u].bundle = task[u].bundle
                          /\ \/ task'[u].pc = task[u].pc
                             \/ task[u].pc = "upload" /\ task'[u].pc = "append"
                          /\ task'[u].kind = task[u].kind
                          /\ task'[u].used = task[u].used
  BY <1>1, <1>2, <1>8 DEF Uploading, Types
<1>6. Bounds'
  BY <1>1, <1>5 DEF Bounds, Bundle, Made, Answered
<1>7. NewApart' /\ PoolApart' /\ OpkHandedOnce'
  BY <1>1, <1>5 DEF NewApart, Uploading, PoolApart, OpkHandedOnce, Answered
<1> QED
  BY <1>3, <1>4, <1>6, <1>7

(* The keys that are appended were in the task only, and are no longer on  *)
(* their way.                                                              *)
LEMMA AppendOpksOK ==
  ASSUME PrekeysInv, NEW t \in Tasks, AppendOpks(t)
  PROVE  PrekeysInv'
<1> USE HoldersAssumption DEF PrekeysInv
<1> DEFINE new == task[t].new
           more == [i \in DOMAIN new |-> [id |-> newId(t, i), key |-> new[i]]]
<1> DEFINE now == [task[t] EXCEPT !.pc = "write", !.row = <<>>]
<1>1. /\ task[t].pc = "append" /\ holder = t /\ task[t].row = pool
      /\ t \in Uploading
      /\ holder' = Null
      /\ pool' = pool \o more
      /\ UNCHANGED <<request, keyFile, memory, generated, consumed>>
  BY DEF AppendOpks, Locks, Uploading
<1>2. task' = [task EXCEPT ![t] = now]
  BY DEF AppendOpks
<1>14. /\ now \in TaskRecord
       /\ now.pc = "write" /\ now.kind = task[t].kind
       /\ now.bundle = task[t].bundle /\ now.new = task[t].new
       /\ now.used = task[t].used
  <2>1. task[t] \in TaskRecord /\ <<>> \in Seq(Entry)
    BY DEF Types
  <2> QED
    BY <2>1 DEF TaskRecord
<1> HIDE DEF now
<1>3. /\ new \in Seq(Nat) /\ task[t].bundle \in Seq(Nat)
      /\ DOMAIN new = 1..Len(new) /\ Len(new) \in Nat
  BY DEF Types, TaskRecord
<1>15. \A i \in DOMAIN new :
         /\ new[i] # Zero
         /\ \A j \in DOMAIN new : new[i] = new[j] => i = j
         /\ \A j \in DOMAIN pool : pool[j].key # new[i]
         /\ \A r \in Answered : request[r].opk.key # new[i]
  BY <1>1 DEF NewApart
<1>16. /\ \A i \in DOMAIN new : new[i] <= generated
       /\ \A u \in Uploading \ {t} :
            \A i \in DOMAIN new, j \in DOMAIN task[u].new :
              task[u].new[j] # new[i]
  BY <1>1 DEF Bounds, Made, NewApart, Uploading
<1>4. /\ more \in Seq(Entry) /\ Len(more) = Len(new)
      /\ \A i \in DOMAIN new : more[i].key = new[i]
  <2>1. \A i \in DOMAIN new : newId(t, i) \in Nat
    BY <1>3 DEF newId
  <2>2. \A i \in DOMAIN new : more[i] \in Entry
    BY <1>3, <1>15, <2>1 DEF Entry
  <2>3. more = [i \in 1..Len(new) |-> more[i]]
    BY <1>3
  <2>4. \A i \in DOMAIN new : more[i].key = new[i]
    OBVIOUS
  <2> HIDE DEF more
  <2>5. more \in [1..Len(new) -> Entry]
    BY <1>3, <2>2, <2>3
  <2>6. more \in Seq(Entry)
    <3>1. Len(new) \in Nat
      BY <1>3
    <3>2. more \in UNION {[1..n -> Entry] : n \in Nat}
      BY <2>5, <3>1, Zenon
    <3> QED
      BY <3>2, SeqDef, Zenon
  <2>7. Len(more) = Len(new)
    BY <1>3, <2>5, <2>6, LenProperties
  <2> QED
    BY <2>4, <2>6, <2>7
<1> HIDE DEF more, new
<1>5. pool \in Seq(Entry)
  BY DEF Types
<1>6. /\ pool' \in Seq(Entry)
      /\ \A i \in DOMAIN pool' :
           \/ i \in DOMAIN pool /\ pool'[i] = pool[i]
           \/ /\ i \notin DOMAIN pool /\ i - Len(pool) \in DOMAIN new
              /\ pool'[i].key = new[i - Len(pool)]
  BY <1>1, <1>3, <1>4, <1>5
<1>7. Types'
  BY <1>1, <1>2, <1>6, <1>14 DEF Types
<1>8. Locks'
  BY <1>1, <1>2, <1>14 DEF Locks, Types
<1>9. /\ Uploading' = Uploading \ {t}
      /\ \A u \in Tasks : task'[u].new = task[u].new
  BY <1>2, <1>14 DEF Uploading, Types
<1>10. Bounds'
  <2>1. \A u \in Tasks : u # t => task'[u] = task[u]
    BY <1>2 DEF Types
  <2>2. task'[t] = now
    BY <1>2 DEF Types
  <2>3. \A i \in DOMAIN pool' : pool'[i].key <= generated
    BY <1>6, <1>16 DEF Bounds
  <2>4. /\ Bundle(now.bundle) /\ Made(now.new)
        /\ now.kind # "delete"
    BY <1>1, <1>14 DEF Bounds
  <2> QED
    BY <1>1, <2>1, <2>2, <2>3, <2>4 DEF Bounds, Bundle, Made, Answered
<1>11. NewApart'
  <2>1. \A u \in Uploading' : \A i \in DOMAIN task[u].new :
          /\ task[u].new[i] # Zero
          /\ \A j \in DOMAIN task[u].new :
               task[u].new[i] = task[u].new[j] => i = j
          /\ \A r \in Answered : request[r].opk.key # task[u].new[i]
    BY <1>9 DEF NewApart
  <2>2. \A u \in Uploading' : \A i \in DOMAIN task[u].new :
          \A j \in DOMAIN pool' : pool'[j].key # task[u].new[i]
    BY <1>6, <1>9, <1>16 DEF NewApart
  <2>3. \A t1, t2 \in Uploading' : t1 # t2 =>
          \A i \in DOMAIN task[t1].new, j \in DOMAIN task[t2].new :
            task[t1].new[i] # task[t2].new[j]
    BY <1>9 DEF NewApart
  <2>4. Answered' = Answered /\ Uploading' \subseteq Tasks
    BY <1>1, <1>9 DEF Answered, Uploading
  <2> QED
    BY <1>1, <1>9, <2>1, <2>2, <2>3, <2>4 DEF NewApart
<1>12. PoolApart'
  <2> SUFFICES ASSUME NEW i \in DOMAIN pool', NEW j \in DOMAIN pool',
                      pool'[i].key = pool'[j].key
               PROVE  i = j
    BY DEF PoolApart
  <2>1. CASE i \in DOMAIN pool /\ j \in DOMAIN pool
    BY <1>6, <2>1 DEF PoolApart
  <2>2. CASE i \notin DOMAIN pool /\ j \notin DOMAIN pool
    <3>1. i - Len(pool) = j - Len(pool)
      BY <1>6, <1>15, <2>2
    <3> QED
      BY <1>5, <1>6, <3>1
  <2>3. CASE i \in DOMAIN pool /\ j \notin DOMAIN pool
    BY <1>6, <1>15, <2>3
  <2>4. CASE i \notin DOMAIN pool /\ j \in DOMAIN pool
    BY <1>6, <1>15, <2>4
  <2> QED
    BY <2>1, <2>2, <2>3, <2>4
<1>13. OpkHandedOnce'
  BY <1>1, <1>6, <1>15 DEF OpkHandedOnce, Answered
<1> QED
  BY <1>7, <1>8, <1>10, <1>11, <1>12, <1>13

---------------------------------------------------------------------------
(* The client.                                                             *)

(* A step in which no key moves at the server keeps the invariant when it  *)
(* keeps the types and bounds.                                             *)
LEMMA NoKeyMoves ==
  ASSUME PrekeysInv, Types', Bounds', UNCHANGED <<pool, holder>>,
         \A r \in Requests :
           /\ request'[r].opk = request[r].opk
           /\ request'[r].row = request[r].row
           /\ (request'[r].pc = "selected") = (request[r].pc = "selected"),
         \A t \in Tasks :
           \/ task'[t] = task[t]
           \/ task[t].pc # "append" /\ task'[t].pc \notin {"upload", "append"}
  PROVE  PrekeysInv'
<1>1. Answered' = Answered /\ Uploading' \subseteq Uploading
  BY DEF Answered, Uploading
<1>2. \A t \in Uploading' : task'[t] = task[t]
  BY DEF Uploading
<1>3. Locks'
  BY DEF PrekeysInv, Locks
<1>4. NewApart'
  BY <1>1, <1>2 DEF PrekeysInv, NewApart, Answered
<1>5. PoolApart' /\ OpkHandedOnce'
  BY <1>1 DEF PrekeysInv, PoolApart, OpkHandedOnce, Answered
<1> QED
  BY <1>3, <1>4, <1>5 DEF PrekeysInv

(* A task that begins has read the key file.                               *)
LEMMA BeginOK ==
  ASSUME PrekeysInv, NEW t \in Tasks, NEW now \in TaskRecord,
         task[t].pc = "idle",
         task' = [task EXCEPT ![t] = now],
         now.pc \in {"count", "write"}, now.bundle = keyFile, now.new = <<>>,
         now.kind = "delete" =>
           now.pc = "write" /\ now.used # Null /\ now.used.key <= generated,
         \A r \in Requests :
           /\ request'[r].opk = request[r].opk
           /\ request'[r].row = request[r].row
           /\ (request'[r].pc = "selected") = (request[r].pc = "selected"),
         request' \in [Requests -> RequestRecord],
         UNCHANGED <<pool, holder, keyFile, memory, generated, consumed>>
  PROVE  PrekeysInv'
<1>1. Types'
  BY DEF PrekeysInv, Types
<1>2. Bounds'
  <2>1. \A u \in Tasks : u # t => task'[u] = task[u]
    BY DEF PrekeysInv, Types
  <2>2. task'[t] = now
    BY DEF PrekeysInv, Types
  <2>3. Answered' = Answered
    BY DEF Answered
  <2> QED
    BY <2>1, <2>2, <2>3 DEF PrekeysInv, Bounds, Bundle, Made, Answered
<1>3. \A u \in Tasks :
        \/ task'[u] = task[u]
        \/ task[u].pc # "append" /\ task'[u].pc \notin {"upload", "append"}
  BY DEF PrekeysInv, Types
<1> QED
  BY <1>1, <1>2, <1>3, NoKeyMoves

(* replenishOpksIfNeeded and login.                                        *)
LEMMA StartOK ==
  ASSUME PrekeysInv, NEW t \in Tasks, StartReplenish(t) \/ StartLogin(t)
  PROVE  PrekeysInv'
<1> DEFINE now(kind) == [pc |-> "count", kind |-> kind, bundle |-> keyFile,
                         row |-> <<>>, new |-> <<>>, used |-> Null]
<1>1. /\ task[t].pc = "idle"
      /\ UNCHANGED <<pool, holder, request, keyFile, memory, generated, consumed>>
  BY DEF StartReplenish, StartLogin, Begin
<1>2. PICK kind \in {"replenish", "login"} :
        task' = [task EXCEPT ![t] = now(kind)]
  BY DEF StartReplenish, StartLogin, Begin, NoTask
<1>3. now(kind) \in TaskRecord
  BY DEF PrekeysInv, Types, TaskRecord
<1>4. /\ now(kind).pc = "count" /\ now(kind).kind = kind
      /\ now(kind).bundle = keyFile /\ now(kind).new = <<>>
  OBVIOUS
<1>5. request' \in [Requests -> RequestRecord]
  BY <1>1 DEF PrekeysInv, Types
<1> HIDE DEF now
<1> QED
  BY <1>1, <1>2, <1>3, <1>4, <1>5, BeginOK

(* deleteConsumedOpk: the OPK is the one the peer was given.               *)
LEMMA StartDeleteOK ==
  ASSUME PrekeysInv, NEW t \in Tasks, NEW r \in Requests, StartDelete(t, r)
  PROVE  PrekeysInv'
<1> DEFINE opk == request[r].opk
           now == [[NoTask EXCEPT !.pc = "write", !.kind = "delete", !.used = opk]
                     EXCEPT !.bundle = keyFile]
<1>1. /\ task[t].pc = "idle" /\ request[r].pc = "answered" /\ opk # Null
      /\ request' = [request EXCEPT ![r].pc = "begun"]
      /\ UNCHANGED <<pool, holder, keyFile, memory, generated, consumed>>
  BY DEF StartDelete, Begin
<1>2. task' = [task EXCEPT ![t] = now]
  BY DEF StartDelete, Begin
<1>3. opk \in Entry /\ opk.key <= generated
  BY <1>1 DEF PrekeysInv, Types, RequestRecord, Bounds, Answered
<1> HIDE DEF opk
<1>4. now \in TaskRecord
  <2>1. NoTask \in TaskRecord
    BY DEF NoTask, TaskRecord
  <2>2. keyFile \in Seq(Nat)
    BY DEF PrekeysInv, Types
  <2> QED
    BY <1>3, <2>1, <2>2 DEF TaskRecord
<1>5. /\ now.pc = "write" /\ now.kind = "delete" /\ now.bundle = keyFile
      /\ now.new = <<>> /\ now.used = opk
  BY DEF NoTask
<1>6. /\ request' \in [Requests -> RequestRecord]
      /\ \A q \in Requests :
           /\ request'[q].opk = request[q].opk
           /\ request'[q].row = request[q].row
           /\ (request'[q].pc = "selected") = (request[q].pc = "selected")
  BY <1>1 DEF PrekeysInv, Types, RequestRecord
<1> HIDE DEF now
<1> QED
  BY <1>1, <1>2, <1>3, <1>4, <1>5, <1>6, BeginOK

(* A task ends with what it writes to the file or the memory.              *)
LEMMA EndOK ==
  ASSUME PrekeysInv, NEW t \in Tasks,
         task[t].pc \notin {"idle", "append"},
         task' = [task EXCEPT ![t] = NoTask],
         keyFile' \in Seq(Nat), Bundle(keyFile'),
         memory' = Null \/ memory' \in Seq(Nat),
         memory' # Null => Made(memory'),
         consumed' \subseteq 1..generated,
         UNCHANGED <<pool, holder, request, generated>>
  PROVE  PrekeysInv'
<1>1. /\ NoTask \in TaskRecord /\ NoTask.pc = "idle"
      /\ NoTask.new = <<>>
  BY DEF NoTask, TaskRecord
<1>2. Types'
  BY <1>1 DEF PrekeysInv, Types
<1>3. \A u \in Tasks : task'[u] = IF u = t THEN NoTask ELSE task[u]
  BY DEF PrekeysInv, Types
<1>4. Bounds'
  BY <1>1, <1>3 DEF PrekeysInv, Bounds, Bundle, Made, Answered
<1>5. \A u \in Tasks :
        \/ task'[u] = task[u]
        \/ task[u].pc # "append" /\ task'[u].pc \notin {"upload", "append"}
  BY <1>1, <1>3
<1> QED
  BY <1>2, <1>4, <1>5, NoKeyMoves

LEMMA WriteExtendedOK ==
  ASSUME PrekeysInv, NEW t \in Tasks, WriteExtended(t)
  PROVE  PrekeysInv'
<1> DEFINE old == task[t].bundle
           new == task[t].new
           extended == old \o new
<1>1. /\ task[t].pc = "write"
      /\ task' = [task EXCEPT ![t] = NoTask]
      /\ keyFile' = extended
      /\ memory' \in {extended, memory}
      /\ UNCHANGED <<pool, holder, request, generated, consumed>>
  BY DEF WriteExtended, LoggedIn
<1>2. old \in Seq(Nat) /\ new \in Seq(Nat)
  BY DEF PrekeysInv, Types, TaskRecord
<1>3. Bundle(old) /\ Made(new)
  BY <1>1 DEF PrekeysInv, Bounds
<1> HIDE DEF old, new
<1>4. /\ extended \in Seq(Nat) /\ Len(extended) = Len(old) + Len(new)
      /\ \A i \in DOMAIN extended :
           \/ i \in DOMAIN old /\ extended[i] = old[i]
           \/ i - Len(old) \in DOMAIN new /\ extended[i] = new[i - Len(old)]
  BY <1>2
<1> HIDE DEF extended
<1>5. Bundle(extended)
  <2>1. Made(extended)
    BY <1>3, <1>4 DEF Bundle, Made
  <2>2. Len(old) \in Nat /\ Len(new) \in Nat
    BY <1>2
  <2> QED
    BY <1>3, <1>4, <2>1, <2>2, StockAssumption DEF Bundle
<1>6. Bundle(extended) => Made(extended)
  BY DEF Bundle
<1> QED
  BY <1>1, <1>4, <1>5, <1>6, EndOK DEF PrekeysInv, Types, Bounds

LEMMA WriteZeroedOK ==
  ASSUME PrekeysInv, NEW t \in Tasks, WriteZeroed(t)
  PROVE  PrekeysInv'
<1> DEFINE old == task[t].bundle
           at == offset(task[t].used.id)
           zeroed == [old EXCEPT ![at] = Zero]
<1>1. /\ task[t].pc = "write" /\ task[t].kind = "delete"
      /\ task' = [task EXCEPT ![t] = NoTask]
      /\ \/ keyFile' = zeroed /\ consumed' = consumed \cup {task[t].used.key}
         \/ keyFile' = keyFile /\ consumed' = consumed
      /\ UNCHANGED <<pool, holder, request, memory, generated>>
  BY DEF WriteZeroed
<1>2. old \in Seq(Nat) /\ Bundle(old)
  BY <1>1 DEF PrekeysInv, Types, TaskRecord, Bounds
<1>3. task[t].used.key \in 1..generated
  <2>1. task[t].used \in Entry /\ task[t].used.key <= generated
    BY <1>1 DEF PrekeysInv, Types, TaskRecord, Bounds
  <2> QED
    BY <2>1 DEF PrekeysInv, Types, Entry, Zero
<1>4. /\ zeroed \in Seq(Nat) /\ Len(zeroed) = Len(old)
      /\ \A i \in DOMAIN zeroed : i \in DOMAIN old /\ zeroed[i] \in {old[i], 0}
  <2>1. DOMAIN old = 1..Len(old) /\ Len(old) \in Nat
    BY <1>2
  <2> HIDE DEF old, at
  <2>2. /\ DOMAIN zeroed = DOMAIN old
        /\ \A i \in DOMAIN old : zeroed[i] \in {old[i], 0}
    BY <1>2 DEF Zero
  <2>3. zeroed \in [1..Len(old) -> Nat]
    BY <1>2, <2>1, <2>2, LenProperties DEF Zero
  <2> HIDE DEF zeroed
  <2>4. zeroed \in UNION {[1..n -> Nat] : n \in Nat}
    BY <2>1, <2>3, Zenon
  <2>5. zeroed \in Seq(Nat)
    BY <2>4, SeqDef, Zenon
  <2> QED
    BY <2>1, <2>2, <2>3, <2>5, LenProperties
<1> HIDE DEF old, zeroed
<1>5. Bundle(zeroed)
  <2>1. Made(zeroed)
    <3>1. \A i \in DOMAIN old : old[i] <= generated
      BY <1>2 DEF Bundle, Made
    <3>2. 0 <= generated
      BY DEF PrekeysInv, Types
    <3> QED
      BY <1>4, <3>1, <3>2 DEF Made
  <2> QED
    BY <1>2, <1>4, <2>1 DEF Bundle
<1>6. /\ keyFile' \in Seq(Nat) /\ Bundle(keyFile')
      /\ consumed' \subseteq 1..generated
  BY <1>1, <1>3, <1>4, <1>5 DEF PrekeysInv, Types, Bounds
<1> QED
  BY <1>1, <1>6, EndOK DEF PrekeysInv, Types, Bounds

(* New keys are higher than all there were.                                *)
LEMMA GetCountOK ==
  ASSUME PrekeysInv, NEW t \in Tasks, GetCount(t)
  PROVE  PrekeysInv'
<1> DEFINE needed == NUM_ONE_TIME_PREKEYS - Len(pool)
<1>1. task[t].pc = "count" /\ task[t].kind # "delete"
  BY DEF GetCount, PrekeysInv, Bounds
<1>2. Len(pool) \in Nat /\ generated \in Nat
  BY DEF PrekeysInv, Types
<1>3. CASE stockIsLow(t)
  <2> DEFINE new == Fresh(needed)
             now == [task[t] EXCEPT !.pc = "upload", !.new = new]
  <2>1. /\ task' = [task EXCEPT ![t] = now]
        /\ generated' = generated + needed
        /\ UNCHANGED <<pool, holder, request, keyFile, memory, consumed>>
    BY <1>3 DEF GetCount
  <2>2. needed \in Nat
    BY <1>2, <1>3, StockAssumption DEF stockIsLow
  <2> HIDE DEF needed
  <2>3. /\ DOMAIN new = 1..needed
        /\ \A i \in 1..needed : new[i] = generated + i
    BY DEF Fresh
  <2>4. new \in Seq(Nat)
    <3>1. new \in [1..needed -> Nat]
      BY <1>2, <2>2 DEF Fresh
    <3>2. new \in UNION {[1..n -> Nat] : n \in Nat}
      BY <2>2, <3>1, Zenon
    <3> QED
      BY <3>2, SeqDef, Zenon
  <2> HIDE DEF new
  <2>5. /\ now \in TaskRecord
        /\ now.pc = "upload" /\ now.kind = task[t].kind
        /\ now.bundle = task[t].bundle /\ now.new = new
    BY <2>4 DEF PrekeysInv, Types, TaskRecord
  <2> HIDE DEF now
  <2>6. Types'
    BY <1>2, <2>1, <2>2, <2>5 DEF PrekeysInv, Types
  <2>7. \A u \in Tasks : task'[u] = IF u = t THEN now ELSE task[u]
    BY <2>1 DEF PrekeysInv, Types
  <2>8. Locks'
    BY <1>1, <2>1, <2>5, <2>7 DEF PrekeysInv, Locks
  <2>9. Bounds'
    <3>1. generated <= generated'
      BY <1>2, <2>1, <2>2
    <3>2. \A i \in DOMAIN new : new[i] <= generated'
      BY <1>2, <2>1, <2>2, <2>3
    <3>3. Answered' = Answered
      BY <2>1 DEF Answered
    <3>4. /\ \A i \in DOMAIN pool' : pool'[i].key <= generated'
          /\ \A r \in Answered' : request'[r].opk.key <= generated'
      <4>1. /\ \A i \in DOMAIN pool : pool[i].key \in Nat
            /\ \A r \in Answered : request[r].opk.key \in Nat
        <5>1. /\ \A i \in DOMAIN pool : pool[i] \in Entry
              /\ \A r \in Answered : request[r].opk \in Entry
          BY DEF PrekeysInv, Types, RequestRecord, Answered
        <5> QED
          BY <5>1 DEF Entry
      <4> QED
        BY <1>2, <2>1, <2>2, <3>3, <4>1 DEF PrekeysInv, Bounds
    <3>5. \A s \in Seq(Nat) : Made(s) => \A i \in DOMAIN s : s[i] <= generated'
      BY <1>2, <2>1, <2>2 DEF Made
    <3>6. Bundle(keyFile)' /\ (memory' # Null => Made(memory)')
      BY <2>1, <3>5 DEF PrekeysInv, Types, Bounds, Bundle, Made
    <3>7. \A u \in Tasks : task[u] \in TaskRecord
      BY DEF PrekeysInv, Types
    <3>8. \A u \in Tasks : /\ task'[u].pc # "idle" => Bundle(task[u].bundle)'
                           /\ Made(task[u].new)'
      <4> SUFFICES ASSUME NEW u \in Tasks
                   PROVE  /\ task'[u].pc # "idle" => Bundle(task[u].bundle)'
                          /\ Made(task[u].new)'
        OBVIOUS
      <4>1. /\ task[u].bundle \in Seq(Nat) /\ task[u].new \in Seq(Nat)
            /\ task[u].pc # "idle" => Bundle(task[u].bundle)
            /\ Made(task[u].new)
        BY <3>7 DEF PrekeysInv, Bounds, TaskRecord
      <4>2. CASE u = t
        BY <1>1, <2>5, <2>7, <3>2, <3>5, <4>1, <4>2 DEF Bundle, Made
      <4>3. CASE u # t
        BY <2>7, <3>5, <4>1, <4>3 DEF Bundle, Made
      <4> QED
        BY <4>2, <4>3
    <3>9. \A u \in Tasks : task'[u].pc # "idle" /\ task'[u].kind = "delete" =>
            /\ task'[u].pc = "write"
            /\ task'[u].used # Null /\ task'[u].used.key <= generated'
      <4>1. \A u \in Tasks : task[u].used # Null => task[u].used.key \in Nat
        BY <3>7 DEF TaskRecord, Entry
      <4> QED
        BY <1>1, <1>2, <2>1, <2>2, <2>5, <2>7, <4>1 DEF PrekeysInv, Bounds
    <3>10. consumed' \subseteq 1..generated'
      BY <1>2, <2>1, <2>2 DEF PrekeysInv, Bounds
    <3> QED
      BY <3>4, <3>6, <3>8, <3>9, <3>10 DEF Bounds
  <2>10. NewApart'
    <3>1. Answered' = Answered /\ Uploading' = Uploading \cup {t}
      BY <2>1, <2>5, <2>7 DEF Answered, Uploading
    <3>2. \A i \in DOMAIN new : new[i] \in Nat /\ new[i] > generated
      BY <1>2, <2>2, <2>3
    <3>3. /\ \A i \in DOMAIN pool : pool[i].key \in Nat /\ pool[i].key <= generated
          /\ \A r \in Answered : /\ request[r].opk.key \in Nat
                                 /\ request[r].opk.key <= generated
          /\ \A u \in Tasks : \A i \in DOMAIN task[u].new :
               task[u].new[i] \in Nat /\ task[u].new[i] <= generated
      <4>1. \A i \in DOMAIN pool : pool[i] \in Entry /\ pool[i].key <= generated
        BY DEF PrekeysInv, Types, Bounds
      <4>2. \A r \in Answered : /\ request[r].opk \in Entry
                                /\ request[r].opk.key <= generated
        BY DEF PrekeysInv, Types, RequestRecord, Answered, Bounds
      <4>3. \A u \in Tasks : task[u].new \in Seq(Nat) /\ Made(task[u].new)
        BY DEF PrekeysInv, Types, TaskRecord, Bounds
      <4>4. \A s \in Seq(Nat) : \A i \in DOMAIN s : s[i] \in Nat
        OBVIOUS
      <4>5. \A e \in Entry : e.key \in Nat
        BY DEF Entry
      <4> QED
        BY <4>1, <4>2, <4>3, <4>4, <4>5 DEF Made
    <3>4. \A i, j \in DOMAIN new : new[i] = new[j] => i = j
      BY <1>2, <2>2, <2>3
    <3>5. /\ \A i \in DOMAIN new :
               /\ new[i] # Zero
               /\ \A j \in DOMAIN pool : pool[j].key # new[i]
               /\ \A r \in Answered : request[r].opk.key # new[i]
          /\ \A u \in Tasks : \A i \in DOMAIN task[u].new :
               \A j \in DOMAIN new : task[u].new[i] # new[j]
      BY <1>2, <3>2, <3>3 DEF Zero
    <3>6. \A u \in Uploading' : u # t => u \in Uploading /\ task'[u] = task[u]
      BY <2>7, <3>1 DEF Uploading
    <3>7. task'[t].new = new
      BY <2>5, <2>7
    <3>8. \A u \in Uploading' : \A i \in DOMAIN task'[u].new :
            /\ task'[u].new[i] # Zero
            /\ \A j \in DOMAIN task'[u].new :
                 task'[u].new[i] = task'[u].new[j] => i = j
            /\ \A j \in DOMAIN pool : pool[j].key # task'[u].new[i]
            /\ \A r \in Answered : request[r].opk.key # task'[u].new[i]
      BY <3>4, <3>5, <3>6, <3>7 DEF PrekeysInv, NewApart
    <3>9. \A t1, t2 \in Uploading' : t1 # t2 =>
            \A i \in DOMAIN task'[t1].new, j \in DOMAIN task'[t2].new :
              task'[t1].new[i] # task'[t2].new[j]
      BY <3>5, <3>6, <3>7 DEF PrekeysInv, NewApart, Uploading
    <3> QED
      BY <2>1, <3>1, <3>8, <3>9 DEF NewApart
  <2>11. PoolApart' /\ OpkHandedOnce'
    BY <2>1 DEF PrekeysInv, PoolApart, OpkHandedOnce, Answered
  <2> QED
    BY <2>6, <2>8, <2>9, <2>10, <2>11 DEF PrekeysInv
<1>4. CASE ~stockIsLow(t)
  <2>1. /\ task' = [task EXCEPT ![t] = NoTask]
        /\ memory' \in {task[t].bundle, memory}
        /\ UNCHANGED <<pool, holder, request, keyFile, generated, consumed>>
    BY <1>4 DEF GetCount, LoggedIn
  <2>2. task[t].bundle \in Seq(Nat) /\ Made(task[t].bundle)
    BY <1>1 DEF PrekeysInv, Types, TaskRecord, Bounds, Bundle
  <2> QED
    BY <1>1, <2>1, <2>2, EndOK DEF PrekeysInv, Types, Bounds
<1> QED
  BY <1>3, <1>4

(* The client ends: its tasks are gone, and none of them has the row.      *)
LEMMA RestartOK ==
  ASSUME PrekeysInv, Restart
  PROVE  PrekeysInv'
<1>1. /\ holder \notin Tasks
      /\ memory' = Null
      /\ task' = [t \in Tasks |-> NoTask]
      /\ UNCHANGED <<pool, holder, request, keyFile, generated, consumed>>
  BY DEF Restart
<1>2. /\ NoTask \in TaskRecord /\ NoTask.pc = "idle"
      /\ NoTask.new = <<>>
  BY DEF NoTask, TaskRecord
<1>3. Types'
  BY <1>1, <1>2 DEF PrekeysInv, Types
<1>4. Bounds'
  BY <1>1, <1>2 DEF PrekeysInv, Bounds, Bundle, Made, Answered
<1>5. \A t \in Tasks :
        task[t].pc # "append" /\ task'[t].pc \notin {"upload", "append"}
  BY <1>1, <1>2 DEF PrekeysInv, Locks
<1> QED
  BY <1>1, <1>3, <1>4, <1>5, NoKeyMoves

---------------------------------------------------------------------------
(* Every step keeps the invariant.                                         *)
THEOREM PrekeysInvariance == Spec => []PrekeysInv
<1>1. ASSUME PrekeysInv, [Next]_vars PROVE PrekeysInv'
  <2>1. CASE Next
    <3>1. ASSUME NEW r \in Requests, SelectBundle(r) \/ PopOpk(r)
          PROVE  PrekeysInv'
      BY <1>1, <3>1, SelectBundleOK, PopOpkOK
    <3>2. ASSUME NEW t \in Tasks, TaskStep(t)
          PROVE  PrekeysInv'
      BY <1>1, <3>2, GetCountOK, SelectRowOK, AppendOpksOK, WriteExtendedOK,
         WriteZeroedOK DEF TaskStep
    <3>3. ASSUME NEW t \in Tasks, StartReplenish(t) \/ StartLogin(t)
          PROVE  PrekeysInv'
      BY <1>1, <3>3, StartOK
    <3>4. ASSUME NEW t \in Tasks, NEW r \in Requests, StartDelete(t, r)
          PROVE  PrekeysInv'
      BY <1>1, <3>4, StartDeleteOK
    <3>5. CASE Restart
      BY <1>1, <3>5, RestartOK
    <3> QED
      BY <2>1, <3>1, <3>2, <3>3, <3>4, <3>5 DEF Next
  <2>2. CASE UNCHANGED vars
    BY <1>1, <2>2
    DEF vars, PrekeysInv, Types, Locks, Bounds, Bundle, Made, NewApart,
        Uploading, PoolApart, OpkHandedOnce, Answered
  <2> QED
    BY <1>1, <2>1, <2>2
<1> QED
  BY <1>1, InitOK, PTL DEF Spec

(* crud.py:64-68: no OPK is handed to two peers, and none that was handed  *)
(* out is still in the pool.                                               *)
THEOREM HandedOutOnce == Spec => []OpkHandedOnce
<1>1. PrekeysInv => OpkHandedOnce
  BY DEF PrekeysInv
<1> QED
  BY <1>1, PrekeysInvariance, PTL

(* The key file and the memory hold keys the client has made, and the row  *)
(* is held by the one transaction under way.                               *)
THEOREM PrekeysTypeCorrect == Spec => []TypeOK
<1>1. ASSUME PrekeysInv PROVE TypeOK
  <2>1. \A i \in DOMAIN pool : pool[i] \in Entry /\ pool[i].key \in Keys
    <3>1. \A i \in DOMAIN pool : pool[i] \in Entry /\ pool[i].key <= generated
      BY <1>1 DEF PrekeysInv, Types, Bounds
    <3> QED
      BY <1>1, <3>1 DEF PrekeysInv, Types, Entry, Keys, Zero
  <2>2. \A s \in Seq(Nat) : Made(s) => Range(s) \subseteq Keys \cup {Zero}
    BY <1>1 DEF PrekeysInv, Types, Made, Range, Keys, Zero
  <2>3. /\ Range(keyFile) \subseteq Keys \cup {Zero}
        /\ NUM_ONE_TIME_PREKEYS <= Len(keyFile)
        /\ memory = Null \/ Range(memory) \subseteq Keys \cup {Zero}
    BY <1>1, <2>2 DEF PrekeysInv, Types, Bounds, Bundle
  <2>4. /\ holder \in Requests \cup Tasks \cup {Null}
        /\ \A r \in Requests : request[r].pc = "selected" <=> holder = r
        /\ \A t \in Tasks : task[t].pc = "append" <=> holder = t
    BY <1>1 DEF PrekeysInv, Locks
  <2>5. consumed \subseteq Keys
    BY <1>1 DEF PrekeysInv, Bounds, Keys
  <2> QED
    BY <2>1, <2>3, <2>4, <2>5 DEF TypeOK
<1> QED
  BY <1>1, PrekeysInvariance, PTL

---------------------------------------------------------------------------
(* The key file, when the client's tasks come one after the other.         *)

(* A peer has no OPK before it is answered.                                *)
RequestsOK ==
  \A r \in Requests :
    request[r].pc \in {"idle", "selected"} => request[r].opk = Null

(* At the server, or handed out.                                           *)
IsOut(opk) ==
  \/ \E i \in DOMAIN pool : opk = pool[i]
  \/ \E r \in Answered : opk = request[r].opk

(* The file has the key of opk, and a task is about to write it there.     *)
Filed(opk) ==
  /\ opk.id + 1 \in DOMAIN keyFile
  /\ keyFile[opk.id + 1] = IF opk.key \in consumed THEN Zero ELSE opk.key

Unwritten == {t \in Working : task[t].pc = "write" /\ task[t].kind # "delete"}

Extends(t, opk) ==
  \E i \in DOMAIN task[t].new :
    opk.id = newId(t, i) /\ opk.key = task[t].new[i]

OneTask ==
  \A t \in Working : task[t].bundle = keyFile /\ \A u \in Working : u = t

OutFiled ==
  \A opk \in Entry :
    IsOut(opk) => Filed(opk) \/ \E t \in Unwritten : Extends(t, opk)

(* A key is in the file once, and none that was erased.                    *)
FileApart ==
  \A i \in DOMAIN keyFile :
    /\ keyFile[i] \notin consumed
    /\ \A j \in DOMAIN keyFile :
         keyFile[i] = keyFile[j] /\ keyFile[i] # Zero => i = j

(* A new key is in neither.                                                *)
NewKeys ==
  \A t \in Working : \A i \in DOMAIN task[t].new :
    /\ task[t].new[i] \notin consumed \cup {Zero}
    /\ \A j \in DOMAIN task[t].new : task[t].new[i] = task[t].new[j] => i = j
    /\ \A j \in DOMAIN keyFile : keyFile[j] # task[t].new[i]

(* What is erased is the OPK of a peer.                                    *)
DeletesOut ==
  \A t \in Working : task[t].kind = "delete" =>
    \E r \in Answered : task[t].used = request[r].opk

FileOK == OneTask /\ OutFiled /\ FileApart /\ NewKeys /\ DeletesOut

FileInv == RequestsOK /\ (alone => FileOK)

---------------------------------------------------------------------------
(* After the registration.                                                 *)
LEMMA FileInit == Init => FileInv
<1> SUFFICES ASSUME Init PROVE FileInv
  OBVIOUS
<1> DEFINE N == NUM_ONE_TIME_PREKEYS
<1>1. /\ N \in Nat /\ keyFile = [i \in 1..N |-> i]
      /\ pool = [i \in 1..N |-> [id |-> i - 1, key |-> i]] /\ consumed = {}
  BY StockAssumption DEF Init
<1>2. (\A r \in Requests : request[r].opk = Null) /\ Working = {}
  BY DEF Init, NoRequest, NoTask, Working
<1>3. \A i \in DOMAIN pool : Filed(pool[i])
  BY <1>1 DEF Filed
<1>4. OutFiled
  BY <1>2, <1>3 DEF OutFiled, IsOut, Answered
<1>5. FileApart
  BY <1>1 DEF FileApart
<1> QED
  BY <1>2, <1>4, <1>5
  DEF FileInv, FileOK, RequestsOK, OneTask, NewKeys, DeletesOut

---------------------------------------------------------------------------
(* A step that writes no file and has no more keys out than before.        *)
LEMMA FileStays ==
  ASSUME FileOK, UNCHANGED <<keyFile, consumed>>,
         \A t \in Working' :
           /\ t \in Working
           /\ task'[t].bundle = task[t].bundle /\ task'[t].new = task[t].new
           /\ task'[t].kind = task[t].kind /\ task'[t].used = task[t].used,
         \A t \in Unwritten : t \in Working' /\ task'[t].pc = "write",
         \A opk \in Entry : IsOut(opk)' => IsOut(opk),
         \A r \in Answered : request'[r].opk = request[r].opk
  PROVE  FileOK'
<1>1. OneTask' /\ FileApart' /\ NewKeys'
  BY DEF FileOK, OneTask, FileApart, NewKeys
<1>2. Answered \subseteq Answered'
  BY DEF Answered
<1>3. DeletesOut'
  BY <1>2 DEF FileOK, DeletesOut
<1>4. \A t \in Unwritten : t \in Unwritten'
  BY DEF Unwritten
<1>5. \A opk : Filed(opk)' = Filed(opk)
  BY DEF Filed
<1>6. \A t \in Unwritten : \A opk : Extends(t, opk)' = Extends(t, opk)
  BY DEF Extends, newId
<1>7. OutFiled'
  BY <1>4, <1>5, <1>6 DEF FileOK, OutFiled
<1> QED
  BY <1>1, <1>3, <1>7 DEF FileOK

(* The server hands out what it had.                                       *)
LEMMA ServerFile ==
  ASSUME PrekeysInv, FileInv, NEW r \in Requests, SelectBundle(r) \/ PopOpk(r)
  PROVE  FileInv'
<1>1. /\ UNCHANGED <<keyFile, consumed, task, alone>>
      /\ request[r].pc \in {"idle", "selected"}
      /\ \A q \in Requests \ {r} : request'[q] = request[q]
  BY DEF SelectBundle, PopOpk, PrekeysInv, Types
<1>2. CASE SelectBundle(r)
  <2>1. /\ request'[r].pc = "selected" /\ request'[r].opk = request[r].opk
        /\ pool' = pool
    BY <1>2 DEF SelectBundle, PrekeysInv, Types, RequestRecord
  <2>2. \A q \in Requests : request'[q].opk = request[q].opk
    BY <1>1, <2>1
  <2>3. RequestsOK'
    BY <1>1, <2>1 DEF FileInv, RequestsOK
  <2>4. \A opk : IsOut(opk)' => IsOut(opk)
    BY <2>1, <2>2 DEF IsOut, Answered
  <2> QED
    BY <1>1, <2>2, <2>3, <2>4, FileStays DEF FileInv, Working, Unwritten, Answered
<1>3. CASE PopOpk(r)
  <2>1. request[r].opk = Null /\ request[r].row = pool
    BY <1>1, <1>3 DEF FileInv, RequestsOK, PopOpk, PrekeysInv, Locks
  <2>2. /\ request'[r].pc = "answered"
        /\ request'[r].opk = IF pool = <<>> THEN Null ELSE Head(pool)
        /\ pool' = IF pool = <<>> THEN pool ELSE Tail(pool)
    BY <1>3, <2>1 DEF PopOpk, PrekeysInv, Types
  <2>3. RequestsOK'
    BY <1>1, <2>2 DEF FileInv, RequestsOK
  <2>4. pool # <<>> => /\ 1 \in DOMAIN pool /\ Head(pool) = pool[1]
                       /\ \A i \in DOMAIN Tail(pool) : i + 1 \in DOMAIN pool
                                              /\ Tail(pool)[i] = pool[i + 1]
    BY DEF PrekeysInv, Types
  <2>5. \A opk : IsOut(opk)' => IsOut(opk)
    BY <1>1, <2>2, <2>4 DEF IsOut, Answered
  <2>6. \A q \in Answered : request'[q].opk = request[q].opk
    BY <1>1, <2>1 DEF Answered
  <2> QED
    BY <1>1, <2>3, <2>5, <2>6, FileStays DEF FileInv, Working, Unwritten
<1> QED
  BY <1>2, <1>3

(* A task that begins, alone, has read the file as it is.                  *)
LEMMA BeginFile ==
  ASSUME PrekeysInv, FileInv, NEW t \in Tasks, NEW now,
         task' = [task EXCEPT ![t] = now], alone' = (alone /\ Working = {}),
         now.bundle = keyFile, now.new = <<>>,
         now.kind = "delete" => \E r \in Answered : now.used = request[r].opk,
         UNCHANGED <<pool, keyFile, consumed>>,
         \A r \in Requests : /\ request'[r].opk = request[r].opk
                             /\ \/ request'[r].pc = request[r].pc
                                \/ request'[r].pc = "begun"
  PROVE  FileInv'
<1>1. RequestsOK'
  BY DEF FileInv, RequestsOK
<1> SUFFICES ASSUME alone' PROVE FileOK'
  BY <1>1 DEF FileInv
<1>2. FileOK /\ Working = {} /\ Answered' = Answered
  BY DEF FileInv, Answered
<1>3. task'[t] = now /\ Working' \subseteq {t}
  BY <1>2 DEF Working, PrekeysInv, Types
<1>4. OneTask' /\ NewKeys' /\ DeletesOut'
  <2>1. OneTask'
    BY <1>3 DEF OneTask
  <2>2. NewKeys'
    BY <1>3 DEF NewKeys
  <2>3. DeletesOut'
    BY <1>2, <1>3 DEF DeletesOut, Answered
  <2> QED
    BY <2>1, <2>2, <2>3
<1>5. FileApart'
  BY <1>2 DEF FileOK, FileApart
<1>6. \A opk \in Entry : IsOut(opk)' => Filed(opk)'
  BY <1>2 DEF FileOK, OutFiled, Unwritten, IsOut, Filed, Answered
<1> QED
  BY <1>4, <1>5, <1>6 DEF FileOK, OutFiled

LEMMA StartFile ==
  ASSUME PrekeysInv, FileInv, NEW t \in Tasks,
         \/ StartReplenish(t) \/ StartLogin(t)
         \/ \E r \in Requests : StartDelete(t, r)
  PROVE  FileInv'
<1>1. CASE StartReplenish(t) \/ StartLogin(t)
  <2>1. PICK kind \in {"replenish", "login"} :
          task' = [task EXCEPT ![t] =
                    [pc |-> "count", kind |-> kind, bundle |-> keyFile,
                     row |-> <<>>, new |-> <<>>, used |-> Null]]
    BY <1>1 DEF StartReplenish, StartLogin, Begin, NoTask
  <2> DEFINE now == [pc |-> "count", kind |-> kind, bundle |-> keyFile,
                     row |-> <<>>, new |-> <<>>, used |-> Null]
  <2>2. now.bundle = keyFile /\ now.new = <<>> /\ now.kind # "delete"
    OBVIOUS
  <2> HIDE DEF now
  <2>3. /\ alone' = (alone /\ Working = {})
        /\ UNCHANGED <<pool, keyFile, consumed, request>>
    BY <1>1 DEF StartReplenish, StartLogin, Begin
  <2>4. task' = [task EXCEPT ![t] = now]
    BY <2>1 DEF now
  <2> QED
    BY <2>2, <2>3, <2>4, BeginFile
<1>2. ASSUME NEW r \in Requests, StartDelete(t, r) PROVE FileInv'
  <2> DEFINE now == [[NoTask EXCEPT !.pc = "write", !.kind = "delete",
                                    !.used = request[r].opk]
                       EXCEPT !.bundle = keyFile]
  <2>1. /\ task' = [task EXCEPT ![t] = now] /\ request[r].opk # Null
        /\ alone' = (alone /\ Working = {})
        /\ request' = [request EXCEPT ![r].pc = "begun"]
        /\ UNCHANGED <<pool, keyFile, consumed>>
    BY <1>2 DEF StartDelete, Begin
  <2>2. now.bundle = keyFile /\ now.new = <<>> /\ now.used = request[r].opk
    BY DEF NoTask
  <2> HIDE DEF now
  <2>3. \A q \in Requests : /\ request'[q].opk = request[q].opk
                            /\ \/ request'[q].pc = request[q].pc
                               \/ request'[q].pc = "begun"
    BY <2>1 DEF PrekeysInv, Types, RequestRecord
  <2>4. r \in Answered
    BY <2>1 DEF Answered
  <2> QED
    BY <2>1, <2>2, <2>3, <2>4, BeginFile
<1> QED
  BY <1>1, <1>2

---------------------------------------------------------------------------
(* New keys are higher than all in the file.                               *)
LEMMA CountFile ==
  ASSUME PrekeysInv, FileInv, NEW t \in Tasks, GetCount(t)
  PROVE  FileInv'
<1> DEFINE needed == NUM_ONE_TIME_PREKEYS - Len(pool)
<1>1. /\ task[t].pc = "count" /\ t \in Working /\ t \notin Unwritten
      /\ UNCHANGED <<pool, request, keyFile, consumed, alone>>
  BY DEF GetCount, Working, Unwritten
<1>2. RequestsOK'
  BY <1>1 DEF FileInv, RequestsOK
<1> SUFFICES ASSUME alone PROVE FileOK'
  BY <1>1, <1>2 DEF FileInv
<1>3. FileOK
  BY DEF FileInv
<1>4. CASE stockIsLow(t)
  <2> DEFINE new == Fresh(needed)
             now == [task[t] EXCEPT !.pc = "upload", !.new = new]
  <2>1. task' = [task EXCEPT ![t] = now]
    BY <1>4 DEF GetCount
  <2>2. needed \in Nat /\ generated \in Nat
    BY <1>4, StockAssumption DEF stockIsLow, PrekeysInv, Types
  <2> HIDE DEF needed
  <2>3. \A i \in DOMAIN new : i \in Nat \ {0} /\ new[i] = generated + i
    BY <2>2 DEF Fresh
  <2> HIDE DEF new
  <2>4. /\ now.pc = "upload" /\ now.kind = task[t].kind /\ now.new = new
        /\ now.bundle = task[t].bundle /\ now.used = task[t].used
    BY DEF PrekeysInv, Types, TaskRecord
  <2> HIDE DEF now
  <2>5. \A u \in Tasks : task'[u] = IF u = t THEN now ELSE task[u]
    BY <2>1 DEF PrekeysInv, Types
  <2>6. Working' = Working /\ Unwritten' = Unwritten
    BY <1>1, <2>4, <2>5 DEF Working, Unwritten
  <2>7. OneTask' /\ DeletesOut' /\ FileApart'
    BY <1>1, <1>3, <2>4, <2>5, <2>6
    DEF FileOK, OneTask, DeletesOut, FileApart, Answered, Working
  <2>8. OutFiled'
    <3>1. \A opk : IsOut(opk)' = IsOut(opk) /\ Filed(opk)' = Filed(opk)
      BY <1>1 DEF IsOut, Filed, Answered
    <3>2. \A u \in Unwritten : \A opk : Extends(u, opk)' = Extends(u, opk)
      BY <1>1, <2>5 DEF Unwritten, Working, Extends, newId
    <3> QED
      BY <1>3, <2>6, <3>1, <3>2 DEF FileOK, OutFiled
  <2>9. NewKeys'
    <3>1. \A j \in DOMAIN keyFile : keyFile[j] \in Nat /\ keyFile[j] <= generated
      BY DEF PrekeysInv, Types, Bounds, Bundle, Made
    <3>2. consumed \subseteq 1..generated
      BY DEF PrekeysInv, Bounds
    <3>3. \A i \in DOMAIN new :
            /\ new[i] \notin consumed \cup {Zero}
            /\ \A j \in DOMAIN new : new[i] = new[j] => i = j
            /\ \A j \in DOMAIN keyFile : keyFile[j] # new[i]
      BY <2>2, <2>3, <3>1, <3>2 DEF Zero
    <3>4. \A u \in Working' : u = t
      BY <1>1, <1>3, <2>6 DEF FileOK, OneTask
    <3> QED
      BY <1>1, <2>4, <2>5, <3>3, <3>4 DEF NewKeys
  <2> QED
    BY <2>7, <2>8, <2>9 DEF FileOK
<1>5. CASE ~stockIsLow(t)
  <2>1. task' = [task EXCEPT ![t] = NoTask] /\ NoTask.pc = "idle"
    BY <1>5 DEF GetCount, NoTask
  <2>2. \A u \in Tasks : task'[u] = IF u = t THEN NoTask ELSE task[u]
    BY <2>1 DEF PrekeysInv, Types
  <2>3. \A u \in Working' : u \in Working /\ task'[u] = task[u]
    BY <2>1, <2>2 DEF Working
  <2>4. \A u \in Unwritten : u \in Working' /\ task'[u].pc = "write"
    BY <1>1, <2>2 DEF Unwritten, Working
  <2> QED
    BY <1>1, <1>3, <2>3, <2>4, FileStays DEF IsOut, Answered
<1> QED
  BY <1>4, <1>5

LEMMA SelectRowFile ==
  ASSUME PrekeysInv, FileInv, NEW t \in Tasks, SelectRow(t)
  PROVE  FileInv'
<1> DEFINE now == [task[t] EXCEPT !.pc = "append", !.row = pool]
<1>1. /\ task[t].pc = "upload" /\ task' = [task EXCEPT ![t] = now]
      /\ UNCHANGED <<pool, request, keyFile, consumed, alone>>
  BY DEF SelectRow
<1>2. /\ now.pc = "append" /\ now.kind = task[t].kind /\ now.new = task[t].new
      /\ now.bundle = task[t].bundle /\ now.used = task[t].used
  BY DEF PrekeysInv, Types, TaskRecord
<1> HIDE DEF now
<1>3. \A u \in Tasks : task'[u] = IF u = t THEN now ELSE task[u]
  BY <1>1 DEF PrekeysInv, Types
<1>4. \A u \in Working' :
        /\ u \in Working
        /\ task'[u].bundle = task[u].bundle /\ task'[u].new = task[u].new
        /\ task'[u].kind = task[u].kind /\ task'[u].used = task[u].used
  BY <1>1, <1>2, <1>3 DEF Working
<1>5. \A u \in Unwritten : u \in Working' /\ task'[u].pc = "write"
  BY <1>1, <1>3 DEF Unwritten, Working
<1> QED
  BY <1>1, <1>4, <1>5, FileStays DEF FileInv, RequestsOK, IsOut, Answered

(* The keys that go out are the ones the task is about to write, under     *)
(* the ids at which it will write them.                                    *)
LEMMA AppendFile ==
  ASSUME PrekeysInv, FileInv, NEW t \in Tasks, AppendOpks(t)
  PROVE  FileInv'
<1> DEFINE new == task[t].new
           more == [i \in DOMAIN new |-> [id |-> newId(t, i), key |-> new[i]]]
           now == [task[t] EXCEPT !.pc = "write", !.row = <<>>]
<1>1. /\ task[t].pc = "append" /\ pool' = pool \o more
      /\ task' = [task EXCEPT ![t] = now]
      /\ UNCHANGED <<request, keyFile, consumed, alone>>
  BY DEF AppendOpks, PrekeysInv, Locks
<1>2. RequestsOK'
  BY <1>1 DEF FileInv, RequestsOK
<1> SUFFICES ASSUME alone PROVE FileOK'
  BY <1>1, <1>2 DEF FileInv
<1>3. FileOK
  BY DEF FileInv
<1>4. /\ now.pc = "write" /\ now.kind = task[t].kind /\ now.new = new
      /\ now.bundle = task[t].bundle /\ now.used = task[t].used
  BY DEF PrekeysInv, Types, TaskRecord
<1>5. \A i \in DOMAIN pool' :
        \/ i \in DOMAIN pool /\ pool'[i] = pool[i]
        \/ \E k \in DOMAIN new :
             pool'[i].id = newId(t, k) /\ pool'[i].key = new[k]
  <2>1. new \in Seq(Nat) /\ pool \in Seq(Entry)
    BY DEF PrekeysInv, Types, TaskRecord
  <2>2. /\ DOMAIN new = 1..Len(new) /\ Len(new) \in Nat
        /\ DOMAIN pool = 1..Len(pool) /\ Len(pool) \in Nat
    BY <2>1
  <2>3. /\ \A k \in DOMAIN new : more[k].id = newId(t, k) /\ more[k].key = new[k]
        /\ more = [k \in 1..Len(new) |-> more[k]]
    BY <2>2
  <2> HIDE DEF more, new
  <2>4. Len(more) = Len(new)
    BY <2>2, <2>3
  <2>5. \A i \in DOMAIN pool' :
          \/ i \in DOMAIN pool /\ pool'[i] = pool[i]
          \/ i - Len(pool) \in DOMAIN new /\ pool'[i] = more[i - Len(pool)]
    BY <1>1, <2>1, <2>2, <2>4
  <2> QED
    BY <2>3, <2>5
<1> HIDE DEF now, more
<1>6. \A u \in Tasks : task'[u] = IF u = t THEN now ELSE task[u]
  BY <1>1 DEF PrekeysInv, Types
<1>7. /\ Working' = Working /\ Unwritten \subseteq Unwritten' /\ t \in Unwritten'
  BY <1>1, <1>4, <1>6 DEF Working, Unwritten, PrekeysInv, Bounds
<1>8. \A u \in Tasks :
        /\ task'[u].bundle = task[u].bundle /\ task'[u].new = task[u].new
        /\ task'[u].kind = task[u].kind /\ task'[u].used = task[u].used
  BY <1>4, <1>6
<1>9. OneTask' /\ DeletesOut' /\ FileApart' /\ NewKeys'
  BY <1>1, <1>3, <1>7, <1>8
  DEF FileOK, OneTask, DeletesOut, FileApart, NewKeys, Answered, Working
<1>10. OutFiled'
  <2>1. \A opk : Filed(opk)' = Filed(opk)
    BY <1>1 DEF Filed
  <2>2. \A u \in Tasks : \A opk : Extends(u, opk)' = Extends(u, opk)
    BY <1>8 DEF Extends, newId
  <2>3. \A opk : IsOut(opk)' => IsOut(opk) \/ Extends(t, opk)
    BY <1>1, <1>5 DEF IsOut, Answered, Extends
  <2> QED
    BY <1>3, <1>7, <2>1, <2>2, <2>3 DEF FileOK, OutFiled, Unwritten, Working
<1> QED
  BY <1>9, <1>10 DEF FileOK

(* The keys that were out before they were in the file are in it now.      *)
LEMMA WriteExtendedFile ==
  ASSUME PrekeysInv, FileInv, NEW t \in Tasks, WriteExtended(t)
  PROVE  FileInv'
<1> DEFINE new == task[t].new
<1>1. /\ task[t].pc = "write" /\ keyFile' = task[t].bundle \o new
      /\ task' = [task EXCEPT ![t] = NoTask] /\ t \in Working
      /\ UNCHANGED <<pool, request, consumed, alone>>
  BY DEF WriteExtended, Working
<1>2. RequestsOK'
  BY <1>1 DEF FileInv, RequestsOK
<1> SUFFICES ASSUME alone PROVE FileOK'
  BY <1>1, <1>2 DEF FileInv
<1>3. FileOK /\ task[t].bundle = keyFile /\ \A u \in Working : u = t
  BY <1>1 DEF FileInv, FileOK, OneTask
<1>4. keyFile \in Seq(Nat) /\ new \in Seq(Nat)
  BY DEF PrekeysInv, Types, TaskRecord
<1>5. /\ Len(keyFile) \in Nat /\ DOMAIN keyFile = 1..Len(keyFile)
      /\ DOMAIN new = 1..Len(new)
      /\ \A i \in DOMAIN keyFile : i \in DOMAIN keyFile' /\ keyFile'[i] = keyFile[i]
      /\ \A i \in DOMAIN new : /\ Len(keyFile) + i \in DOMAIN keyFile'
                               /\ keyFile'[Len(keyFile) + i] = new[i]
      /\ \A i \in DOMAIN keyFile' :
           \/ i \in DOMAIN keyFile
           \/ \E k \in DOMAIN new : i = Len(keyFile) + k
  <2>1. /\ Len(new) \in Nat /\ DOMAIN new = 1..Len(new)
        /\ Len(keyFile) \in Nat /\ DOMAIN keyFile = 1..Len(keyFile)
    BY <1>4
  <2>2. DOMAIN keyFile' = 1..(Len(keyFile) + Len(new))
    BY <1>1, <1>3, <1>4
  <2> HIDE DEF new
  <2>3. /\ \A i \in DOMAIN keyFile : keyFile'[i] = keyFile[i]
        /\ \A i \in DOMAIN new : keyFile'[Len(keyFile) + i] = new[i]
    <3>1. \A a, b \in Seq(Nat) :
            /\ \A i \in 1..Len(a) : (a \o b)[i] = a[i]
            /\ \A i \in 1..Len(b) : (a \o b)[Len(a) + i] = b[i]
      OBVIOUS
    <3>2. keyFile' = keyFile \o new
      BY <1>1, <1>3
    <3> QED
      BY <1>4, <2>1, <3>1, <3>2
  <2>4. \A i \in DOMAIN keyFile' :
          i \in DOMAIN keyFile \/ i - Len(keyFile) \in DOMAIN new
    BY <2>1, <2>2
  <2>5. \A i \in DOMAIN keyFile' : i = Len(keyFile) + (i - Len(keyFile))
    BY <2>1, <2>2
  <2> QED
    BY <2>1, <2>2, <2>3, <2>4, <2>5
<1>6. Working' = {}
  <2>1. \A u \in Tasks : task'[u] = IF u = t THEN NoTask ELSE task[u]
    BY <1>1 DEF PrekeysInv, Types
  <2> QED
    BY <1>3, <2>1 DEF Working, NoTask
<1>7. \A i \in DOMAIN new :
        /\ new[i] \notin consumed \cup {Zero}
        /\ \A j \in DOMAIN new : new[i] = new[j] => i = j
        /\ \A j \in DOMAIN keyFile : keyFile[j] # new[i]
  BY <1>1, <1>3 DEF FileOK, NewKeys
<1> HIDE DEF new
<1>8. FileApart'
  <2>1. \A i \in DOMAIN keyFile' : keyFile'[i] \notin consumed'
    BY <1>1, <1>3, <1>5, <1>7 DEF FileOK, FileApart
  <2> SUFFICES ASSUME NEW i \in DOMAIN keyFile', NEW j \in DOMAIN keyFile',
                      keyFile'[i] = keyFile'[j], keyFile'[i] # Zero
               PROVE  i = j
    BY <2>1 DEF FileApart
  <2>2. CASE i \in DOMAIN keyFile /\ j \in DOMAIN keyFile
    BY <1>3, <1>5, <2>2 DEF FileOK, FileApart
  <2>3. CASE i \notin DOMAIN keyFile
    BY <1>5, <1>7, <2>3
  <2>4. CASE j \notin DOMAIN keyFile
    BY <1>5, <1>7, <2>4
  <2> QED
    BY <2>2, <2>3, <2>4
<1>9. \A opk \in Entry : IsOut(opk)' => Filed(opk)'
  <2> SUFFICES ASSUME NEW opk \in Entry, IsOut(opk) PROVE Filed(opk)'
    BY <1>1 DEF IsOut, Answered
  <2>1. CASE Filed(opk)
    BY <1>1, <1>5, <2>1 DEF Filed
  <2>2. ASSUME NEW u \in Unwritten, Extends(u, opk) PROVE Filed(opk)'
    <3>1. u = t
      BY <1>3 DEF Unwritten
    <3>2. PICK i \in DOMAIN new :
            opk.id = Len(keyFile) + i - 1 /\ opk.key = new[i]
      BY <1>3, <2>2, <3>1 DEF Extends, newId, new
    <3>3. opk.id + 1 = Len(keyFile) + i
      BY <1>5, <3>2
    <3> QED
      BY <1>1, <1>5, <1>7, <3>2, <3>3 DEF Filed
  <2> QED
    BY <1>3, <2>1, <2>2 DEF FileOK, OutFiled
<1> QED
  BY <1>6, <1>8, <1>9
  DEF FileOK, OneTask, OutFiled, NewKeys, DeletesOut

(* The key that is erased belongs to one peer, and is nowhere else.        *)
LEMMA WriteZeroedFile ==
  ASSUME PrekeysInv, FileInv, NEW t \in Tasks, WriteZeroed(t)
  PROVE  FileInv'
<1>0. PICK used, at : used = task[t].used /\ at = offset(used.id)
  OBVIOUS
<1>1. /\ task[t].pc = "write" /\ task[t].kind = "delete" /\ t \in Working
      /\ task' = [task EXCEPT ![t] = NoTask]
      /\ UNCHANGED <<pool, request, alone>>
  BY DEF WriteZeroed, Working
<1>2. RequestsOK'
  BY <1>1 DEF FileInv, RequestsOK
<1> SUFFICES ASSUME alone PROVE FileOK'
  BY <1>1, <1>2 DEF FileInv
<1>3. FileOK /\ task[t].bundle = keyFile /\ \A u \in Working : u = t
  BY <1>1 DEF FileInv, FileOK, OneTask
<1>4. Working' = {} /\ Unwritten = {}
  <2>1. \A u \in Tasks : task'[u] = IF u = t THEN NoTask ELSE task[u]
    BY <1>1 DEF PrekeysInv, Types
  <2> QED
    BY <1>1, <1>3, <2>1 DEF Working, Unwritten, NoTask
<1>5. PICK r \in Answered : used = request[r].opk
  BY <1>0, <1>1, <1>3 DEF FileOK, DeletesOut
<1>6. CASE keyFile' = keyFile /\ consumed' = consumed
  BY <1>1, <1>3, <1>4, <1>6, FileStays DEF IsOut, Answered
<1>7. CASE /\ keyFile' = [keyFile EXCEPT ![at] = Zero]
           /\ consumed' = consumed \cup {used.key}
  <2>1. /\ used \in Entry /\ used.key # Zero /\ IsOut(used)
        /\ consumed \subseteq 1..generated
    BY <1>5 DEF PrekeysInv, Types, RequestRecord, Answered, Entry, IsOut, Bounds
  <2>2. /\ at \in DOMAIN keyFile
        /\ keyFile[at] = IF used.key \in consumed THEN Zero ELSE used.key
    BY <1>0, <1>3, <1>4, <2>1 DEF FileOK, OutFiled, Filed, offset
  <2>3. /\ DOMAIN keyFile' = DOMAIN keyFile
        /\ \A i \in DOMAIN keyFile :
             keyFile'[i] = IF i = at THEN Zero ELSE keyFile[i]
    BY <1>7
  <2>4. Zero \notin consumed'
    BY <1>7, <2>1 DEF Zero, PrekeysInv, Types
  <2>5. \A i \in DOMAIN keyFile : i # at => keyFile[i] # used.key
    BY <1>3, <2>1, <2>2 DEF FileOK, FileApart
  <2>6. FileApart'
    BY <1>3, <1>7, <2>3, <2>4, <2>5 DEF FileOK, FileApart
  <2>7. \A opk \in Entry : IsOut(opk)' => Filed(opk)'
    <3> SUFFICES ASSUME NEW opk \in Entry, IsOut(opk) PROVE Filed(opk)'
      BY <1>1 DEF IsOut, Answered
    <3>1. opk = used \/ opk.key # used.key
      BY <1>5 DEF IsOut, PrekeysInv, OpkHandedOnce
    <3>2. Filed(opk) /\ opk.key # Zero
      BY <1>3, <1>4 DEF FileOK, OutFiled, Entry
    <3>3. CASE opk = used
      BY <1>0, <1>7, <2>2, <2>3, <3>3 DEF Filed, offset
    <3>4. CASE opk.key # used.key
      BY <1>7, <2>2, <2>3, <3>2, <3>4 DEF Filed
    <3> QED
      BY <3>1, <3>3, <3>4
  <2> QED
    BY <1>4, <2>6, <2>7 DEF FileOK, OneTask, OutFiled, NewKeys, DeletesOut
<1> QED
  BY <1>0, <1>3, <1>6, <1>7 DEF WriteZeroed

(* When no task is cut off, a restart changes nothing.                     *)
LEMMA RestartFile ==
  ASSUME PrekeysInv, FileInv, Restart
  PROVE  FileInv'
<1>1. /\ task' = [u \in Tasks |-> NoTask] /\ alone' = (alone /\ Working = {})
      /\ UNCHANGED <<pool, request, keyFile, consumed>>
  BY DEF Restart
<1>2. RequestsOK'
  BY <1>1 DEF FileInv, RequestsOK
<1> SUFFICES ASSUME alone' PROVE FileOK'
  BY <1>2 DEF FileInv
<1>3. FileOK /\ Working = {} /\ Unwritten = {}
  BY <1>1 DEF FileInv, Unwritten
<1>4. Working' = {}
  BY <1>1 DEF Working, NoTask
<1> QED
  BY <1>1, <1>3, <1>4, FileStays DEF IsOut, Answered

---------------------------------------------------------------------------
(* As long as the tasks came one after the other, the file has the private *)
(* key of each OPK that is at the server or was handed out, under its id,  *)
(* and none that a session has consumed.                                   *)
THEOREM KeyFileStaysExact == Spec => []KeyFileExact
<1>1. ASSUME PrekeysInv, FileInv, [Next]_vars PROVE FileInv'
  <2>1. CASE Next
    <3>1. ASSUME NEW r \in Requests, SelectBundle(r) \/ PopOpk(r)
          PROVE  FileInv'
      BY <1>1, <3>1, ServerFile
    <3>2. ASSUME NEW t \in Tasks, TaskStep(t)
          PROVE  FileInv'
      BY <1>1, <3>2, CountFile, SelectRowFile, AppendFile, WriteExtendedFile,
         WriteZeroedFile DEF TaskStep
    <3>3. ASSUME NEW t \in Tasks,
                 \/ StartReplenish(t) \/ StartLogin(t)
                 \/ \E r \in Requests : StartDelete(t, r)
          PROVE  FileInv'
      BY <1>1, <3>3, StartFile
    <3>4. CASE Restart
      BY <1>1, <3>4, RestartFile
    <3> QED
      BY <2>1, <3>1, <3>2, <3>3, <3>4 DEF Next
  <2>2. CASE UNCHANGED vars
    BY <1>1, <2>2, FileStays
    DEF vars, FileInv, RequestsOK, Working, Unwritten, IsOut, Answered
  <2> QED
    BY <1>1, <2>1, <2>2
<1>2. ASSUME PrekeysInv, FileInv PROVE KeyFileExact
  <2> SUFFICES ASSUME alone, Working = {}
               PROVE  /\ \A opk \in Range(pool) \cup {request[r].opk : r \in Answered} :
                           Filed(opk)
                      /\ Range(keyFile) \cap consumed = {}
    BY DEF KeyFileExact, Filed
  <2>1. FileOK /\ Unwritten = {}
    BY <1>2 DEF FileInv, Unwritten
  <2>2. \A opk \in Range(pool) \cup {request[r].opk : r \in Answered} :
          opk \in Entry /\ IsOut(opk)
    BY <1>2 DEF Range, IsOut, PrekeysInv, Types, RequestRecord, Answered
  <2>3. \A opk \in Range(pool) \cup {request[r].opk : r \in Answered} : Filed(opk)
    BY <2>1, <2>2 DEF FileOK, OutFiled
  <2>4. Range(keyFile) \cap consumed = {}
    BY <2>1 DEF FileOK, FileApart, Range
  <2> QED
    BY <2>3, <2>4
<1> QED
  BY <1>1, <1>2, FileInit, PrekeysInvariance, PTL DEF Spec
=============================================================================
