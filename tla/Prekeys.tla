------------------------------ MODULE Prekeys ------------------------------
(***************************************************************************)
(* The one-time prekeys (OPKs) of one user: the public keys in the user's  *)
(* row at the server (crud.py), the private keys in the client's key file  *)
(* and in its memory (account.js), and who works on them at the same time. *)
(*                                                                         *)
(* The server runs each request in a thread of its own; a transaction      *)
(* holds the user's row from its SELECT ... FOR UPDATE to its end.  The    *)
(* client's tasks are replenishOpksIfNeeded, which msg:fetch starts and    *)
(* does not await, deleteConsumedOpk, and the login.  Each of them reads   *)
(* the key file, awaits the derivation of the file's key, and at its end   *)
(* writes the whole file from what it had read.                            *)
(*                                                                         *)
(* A key pair is a number.  The key file is the sequence of the private    *)
(* OPKs: the one with id i is at i + 1, or Zero once it is erased.         *)
(***************************************************************************)
EXTENDS Integers, Sequences, SequencesExt, FiniteSets

CONSTANTS
  Requests,                \* the requests for the user's bundle, each by one peer
  Tasks,                   \* the client's tasks that can be under way at once
  NUM_ONE_TIME_PREKEYS,    \* account.js: how far the server is stocked
  OPK_REPLENISH_THRESHOLD, \* account.js: stocked when it has fewer
  MaxRestarts,             \* bound: how often the client is started again
  Null

ASSUME StockAssumption ==
  /\ NUM_ONE_TIME_PREKEYS \in Nat /\ OPK_REPLENISH_THRESHOLD \in Nat
  /\ OPK_REPLENISH_THRESHOLD <= NUM_ONE_TIME_PREKEYS

(* Who can hold the row.                                                   *)
ASSUME HoldersAssumption ==
  Requests \cap Tasks = {} /\ Null \notin Requests \cup Tasks

VARIABLES
  pool,      \* opk_pubs in the user's row, committed: a sequence of [id, key]
  holder,    \* the request or task whose transaction has the row, or Null
  request,   \* request[r]: the request of peer r and the message it led to
  keyFile,   \* <username>_private_keys.bin
  memory,    \* currentUser.keys.opkPrivates, or Null before the login
  task,      \* task[t]: where the client's task t is
  generated, \* how many OPKs the client has made
  restarts,  \* how often it was started again
  consumed,  \* history: the keys that deleteConsumedOpk has erased
  alone      \* history: no two tasks overlapped so far, and none was cut off

vars == <<pool, holder, request, keyFile, memory, task, generated, restarts,
          consumed, alone>>

Zero == 0
Fresh(n) == [i \in 1..n |-> generated + i]
Entry == [id : Nat, key : Nat \ {Zero}]
NoTask == [pc |-> "idle", kind |-> Null, bundle |-> <<>>, row |-> <<>>,
           new |-> <<>>, used |-> Null]
NoRequest == [pc |-> "idle", row |-> <<>>, opk |-> Null]

(* createUser has filled the file and the row, login the memory.           *)
Init ==
  LET keys == [i \in 1..NUM_ONE_TIME_PREKEYS |-> i]
  IN  /\ pool = [i \in DOMAIN keys |-> [id |-> i - 1, key |-> keys[i]]]
      /\ keyFile = keys
      /\ memory = keys
      /\ holder = Null
      /\ request = [r \in Requests |-> NoRequest]
      /\ task = [t \in Tasks |-> NoTask]
      /\ generated = NUM_ONE_TIME_PREKEYS
      /\ restarts = 0
      /\ consumed = {}
      /\ alone = TRUE

---------------------------------------------------------------------------
(* The server.                                                             *)

(* SELECT ... FOR UPDATE waits for the row.  Fault: a SELECT does not.     *)
selected == TRUE
selectedForUpdate == holder = Null

(* get_prekey_bundle_with_opk.  The UPDATE writes back what the SELECT had *)
(* read, less the first OPK.                                               *)
SelectBundle(r) ==
  /\ request[r].pc = "idle"
  /\ selectedForUpdate
  /\ holder' = r
  /\ request' = [request EXCEPT ![r] = [@ EXCEPT !.pc = "selected", !.row = pool]]
  /\ UNCHANGED <<pool, keyFile, memory, task, generated, restarts, consumed,
                 alone>>

PopOpk(r) ==
  LET row == request[r].row
  IN  /\ request[r].pc = "selected"
      /\ pool' = IF row = <<>> THEN pool ELSE Tail(row)
      /\ holder' = Null
      /\ request' = [request EXCEPT ![r] =
           [pc |-> "answered", row |-> <<>>,
            opk |-> IF row = <<>> THEN Null ELSE Head(row)]]
      /\ UNCHANGED <<keyFile, memory, task, generated, restarts, consumed,
                     alone>>

(* append_one_time_prekeys, called by POST /api/users/me/opks.             *)
SelectRow(t) ==
  /\ task[t].pc = "upload"
  /\ selectedForUpdate
  /\ holder' = t
  /\ task' = [task EXCEPT ![t] = [@ EXCEPT !.pc = "append", !.row = pool]]
  /\ UNCHANGED <<pool, request, keyFile, memory, generated, restarts, consumed,
                 alone>>

(* The ids the client gave its new keys: they go on from the end of the    *)
(* key file it had read.  Fault: from the number of keys at the server.    *)
idsFromServer(t, i) == Len(task[t].row) + i - 1
newId(t, i) == Len(task[t].bundle) + i - 1

AppendOpks(t) ==
  LET new == task[t].new
  IN  /\ task[t].pc = "append"
      /\ pool' = task[t].row \o
                 [i \in DOMAIN new |-> [id |-> newId(t, i), key |-> new[i]]]
      /\ holder' = Null
      /\ task' = [task EXCEPT ![t] = [@ EXCEPT !.pc = "write", !.row = <<>>]]
      /\ UNCHANGED <<request, keyFile, memory, generated, restarts, consumed,
                     alone>>

---------------------------------------------------------------------------
(* The client.                                                             *)

Working == {t \in Tasks : task[t].pc # "idle"}

(* A task begins with reading the key file.                                *)
Begin(t, start) ==
  /\ task[t].pc = "idle"
  /\ task' = [task EXCEPT ![t] = [start EXCEPT !.bundle = keyFile]]
  /\ alone' = (alone /\ Working = {})

(* replenishOpksIfNeeded at the end of a msg:fetch.                        *)
StartReplenish(t) ==
  /\ memory # Null
  /\ Begin(t, [NoTask EXCEPT !.pc = "count", !.kind = "replenish"])
  /\ UNCHANGED <<pool, holder, request, keyFile, memory, generated, restarts,
                 consumed>>

(* login, in a client that was just started.                               *)
StartLogin(t) ==
  /\ memory = Null
  /\ Working = {}
  /\ Begin(t, [NoTask EXCEPT !.pc = "count", !.kind = "login"])
  /\ UNCHANGED <<pool, holder, request, keyFile, memory, generated, restarts,
                 consumed>>

(* msg:fetch gets the first message of the peer r, whose X3DH used an OPK. *)
(* Without the private key in memory it throws; with it, it calls          *)
(* deleteConsumedOpk.                                                      *)
StartDelete(t, r) ==
  LET opk == request[r].opk
  IN  /\ request[r].pc = "answered"
      /\ opk # Null
      /\ memory # Null
      /\ opk.id + 1 \in DOMAIN memory
      /\ memory[opk.id + 1] # Zero
      /\ Begin(t, [NoTask EXCEPT !.pc = "write", !.kind = "delete", !.used = opk])
      /\ request' = [request EXCEPT ![r].pc = "begun"]
      /\ UNCHANGED <<pool, holder, keyFile, memory, generated, restarts,
                     consumed>>

(* Whether the server's stock is too low.  Fault: the client counts the    *)
(* keys of its own file.                                                   *)
lowInFile(t) == Len(task[t].bundle) < OPK_REPLENISH_THRESHOLD
stockIsLow(t) == Len(pool) < OPK_REPLENISH_THRESHOLD

(* What the login leaves in memory.                                        *)
LoggedIn(t, bundle) ==
  memory' = IF task[t].kind = "login" THEN bundle ELSE memory

(* _replenish asks for the count, a plain SELECT, and makes new keys.      *)
GetCount(t) ==
  LET needed == NUM_ONE_TIME_PREKEYS - Len(pool)
  IN  /\ task[t].pc = "count"
      /\ IF stockIsLow(t)
         THEN /\ task' = [task EXCEPT ![t] =
                             [@ EXCEPT !.pc = "upload", !.new = Fresh(needed)]]
              /\ generated' = generated + needed
              /\ UNCHANGED memory
         ELSE /\ task' = [task EXCEPT ![t] = NoTask]
              /\ LoggedIn(t, task[t].bundle)
              /\ UNCHANGED generated
      /\ UNCHANGED <<pool, holder, request, keyFile, restarts, consumed, alone>>

(* _replenish writes the file: what it had read, and the new keys.         *)
WriteExtended(t) ==
  LET extended == task[t].bundle \o task[t].new
  IN  /\ task[t].pc = "write"
      /\ task[t].kind # "delete"
      /\ keyFile' = extended
      /\ LoggedIn(t, extended)
      /\ task' = [task EXCEPT ![t] = NoTask]
      /\ UNCHANGED <<pool, holder, request, generated, restarts, consumed,
                     alone>>

(* Where the key with an id is in the file.  Fault: one key too far.       *)
offsetOfNext(id) == id + 2
offset(id) == id + 1

(* deleteConsumedOpk writes the file: what it had read, one key zeroed.    *)
(* An id past the end throws and leaves the file alone.                    *)
WriteZeroed(t) ==
  LET at == offset(task[t].used.id)
      inRange == at <= Len(task[t].bundle)
  IN  /\ task[t].pc = "write"
      /\ task[t].kind = "delete"
      /\ keyFile' = IF inRange THEN [task[t].bundle EXCEPT ![at] = Zero]
                    ELSE keyFile
      /\ consumed' = IF inRange THEN consumed \cup {task[t].used.key}
                     ELSE consumed
      /\ task' = [task EXCEPT ![t] = NoTask]
      /\ UNCHANGED <<pool, holder, request, memory, generated, restarts, alone>>

(* The client ends and is started again.  What the server has begun it     *)
(* finishes: the client's end comes before that or after it.               *)
Restart ==
  /\ restarts < MaxRestarts
  /\ holder \notin Tasks
  /\ restarts' = restarts + 1
  /\ memory' = Null
  /\ task' = [t \in Tasks |-> NoTask]
  /\ alone' = (alone /\ Working = {})
  /\ UNCHANGED <<pool, holder, request, keyFile, generated, consumed>>

---------------------------------------------------------------------------
TaskStep(t) ==
  \/ GetCount(t) \/ SelectRow(t) \/ AppendOpks(t)
  \/ WriteExtended(t) \/ WriteZeroed(t)

Next ==
  \/ \E r \in Requests : SelectBundle(r) \/ PopOpk(r)
  \/ \E t \in Tasks :
       \/ TaskStep(t) \/ StartReplenish(t) \/ StartLogin(t)
       \/ \E r \in Requests : StartDelete(t, r)
  \/ Restart

Spec == Init /\ [][Next]_vars

(* The server answers; a task under way goes on; the user logs in, and     *)
(* msg:fetch, which the poll timer calls, starts replenishing.  That peers *)
(* ask for the bundle or write is not assumed.                             *)
FairSpec ==
  /\ Spec
  /\ \A r \in Requests : WF_vars(PopOpk(r))
  /\ \A t \in Tasks : WF_vars(TaskStep(t)) /\ WF_vars(StartLogin(t))
  /\ WF_vars(\E t \in Tasks : StartReplenish(t))

---------------------------------------------------------------------------
(* Properties.                                                             *)

Keys == 1..generated
Answered == {r \in Requests : request[r].opk # Null}

(* The stored keys are keys the client has made or the erased one, the row *)
(* is held by the one transaction under way, and the file never shrinks    *)
(* below what registration put there.                                      *)
TypeOK ==
  /\ \A i \in DOMAIN pool : pool[i] \in Entry /\ pool[i].key \in Keys
  /\ Range(keyFile) \subseteq Keys \cup {Zero}
  /\ NUM_ONE_TIME_PREKEYS <= Len(keyFile)
  /\ memory = Null \/ Range(memory) \subseteq Keys \cup {Zero}
  /\ holder \in Requests \cup Tasks \cup {Null}
  /\ \A r \in Requests : request[r].pc = "selected" <=> holder = r
  /\ \A t \in Tasks : task[t].pc = "append" <=> holder = t
  /\ consumed \subseteq Keys

(* crud.py:64-68: no OPK is handed to two peers, and none that was handed  *)
(* out is still in the pool, whoever takes and whoever appends at the same *)
(* time.                                                                   *)
OpkHandedOnce ==
  /\ \A r1, r2 \in Answered :
       r1 # r2 => request[r1].opk.key # request[r2].opk.key
  /\ \A r \in Answered, i \in DOMAIN pool : pool[i].key # request[r].opk.key

(* As long as the client's tasks came one after the other, the key file is *)
(* exact: under the id of each OPK that is at the server or was handed out *)
(* it has the private key, so that the peer's first message can be read;   *)
(* and it has no key any more that a session has consumed.                 *)
KeyFileExact ==
  (alone /\ Working = {}) =>
    /\ \A opk \in Range(pool) \cup {request[r].opk : r \in Answered} :
         /\ opk.id + 1 \in DOMAIN keyFile
         /\ keyFile[opk.id + 1] =
              IF opk.key \in consumed THEN Zero ELSE opk.key
    /\ Range(keyFile) \cap consumed = {}

(* A stock below the threshold is filled up again, though tasks overlap    *)
(* and the client may be started anew in the middle.                       *)
StockRefilled ==
  (Len(pool) < OPK_REPLENISH_THRESHOLD)
    ~> (Len(pool) >= OPK_REPLENISH_THRESHOLD)

(* account.js:233-234: deleteConsumedOpk is called "to ensure the OPK is   *)
(* never reused".  An erased key does not come back to the key file.       *)
ConsumedOpkStaysZero == Range(keyFile) \cap consumed = {}
============================================================================
