---------------------------- MODULE Anchor_proofs ----------------------------
(***************************************************************************)
(* What a lookup of Anchor answers, for any number of messages, workers    *)
(* and restarts: the right content, and once an answer always one; and     *)
(* that nothing is recorded twice.  One invariant ties a stored hash to    *)
(* its own message and an event to the transaction that logged it, the     *)
(* other follows a message from the queue to the contract.                 *)
(***************************************************************************)
EXTENDS Anchor, FiniteSetTheorems, TLAPS

(* The jobs are about messages that were posted.                           *)
JobsOK ==
  /\ posted \subseteq Messages
  /\ queue \in Seq(Messages)
  /\ \A i \in DOMAIN queue : queue[i] \in posted
  /\ worker \in [Workers -> [pc : {"free", "build", "send", "wait"},
                             msg : Messages \cup {Null}, nonce : Nat]]

(* A stored hash is that of a transaction for this very message.           *)
RowsOK == \A m \in DOMAIN rows : rows[m] = Null \/ rows[m].msg = m

(* An event has the digest of the message its transaction is for.          *)
ChainOK ==
  /\ chain \in Seq([tx : Transaction, logs : SUBSET [id : Nat, hash : Contents]])
  /\ records \in Seq(Contents)
  /\ \A i \in DOMAIN chain :
       \A event \in chain[i].logs : event.hash = Digest[chain[i].tx.msg]

AnchorInv == TypeOK /\ JobsOK /\ RowsOK /\ ChainOK

---------------------------------------------------------------------------
(* At the start there is nothing.                                          *)
LEMMA InitOK == Init => AnchorInv
<1> SUFFICES ASSUME Init PROVE AnchorInv
  OBVIOUS
<1>1. DOMAIN rows = {} /\ Range(rows) = {}
  BY DEF Init, Range
<1>2. JobsOK
  BY DEF Init, JobsOK, Free
<1>3. RowsOK /\ ChainOK
  BY <1>1 DEF Init, RowsOK, ChainOK
<1>4. \A w \in Workers : Job(w, "free")
  BY DEF Init, Job, Free
<1>5. Logged = {} /\ Recorded = {}
  BY DEF Init, Logged, Recorded
<1>6. TypeOK
  BY <1>1, <1>4, <1>5
  DEF Init, TypeOK, HashesAreTransactions, JobsArePosted, NoncesAgree
<1> QED
  BY <1>2, <1>3, <1>6 DEF AnchorInv

(* What a worker does without the table and the chain: it takes a job,     *)
(* ends it, or goes on to the next call.                                   *)
LEMMA WorkerOK ==
  ASSUME AnchorInv,
         worker' \in [Workers -> [pc : {"free", "build", "send", "wait"},
                                  msg : Messages \cup {Null}, nonce : Nat]],
         \A w \in Workers : Job(w, "free")' \/ worker'[w].msg \in posted,
         queue' \in Seq(Messages),
         \A i \in DOMAIN queue' : queue'[i] \in posted,
         UNCHANGED <<rows, posted, pending, chain, owner, records>>
  PROVE  AnchorInv'
<1>1. JobsOK' /\ RowsOK' /\ ChainOK'
  BY DEF AnchorInv, JobsOK, RowsOK, ChainOK
<1>2. JobsArePosted'
  BY DEF JobsArePosted
<1>3. TypeOK'
  BY <1>2
  DEF AnchorInv, TypeOK, HashesAreTransactions, NoncesAgree, Logged, Recorded
<1> QED
  BY <1>1, <1>3 DEF AnchorInv

---------------------------------------------------------------------------
(* One lemma for each action, or for several that do alike.                *)

LEMMA SendMessageOK ==
  ASSUME AnchorInv, NEW m \in Messages, send_message(m)
  PROVE  AnchorInv'
<1>1. /\ DOMAIN rows' = DOMAIN rows \cup {m}
      /\ \A x \in DOMAIN rows' : rows'[x] = IF x = m THEN Null ELSE rows[x]
  BY DEF send_message
<1>2. RowsOK'
  BY <1>1 DEF AnchorInv, RowsOK
<1>3. Range(rows') \subseteq Range(rows) \cup {Null}
  BY <1>1 DEF Range
<1>4. posted' = posted \cup {m} /\ queue' = Append(queue, m)
  BY DEF send_message
<1>5. JobsOK'
  BY <1>4 DEF AnchorInv, JobsOK, send_message
<1>6. ChainOK'
  BY DEF AnchorInv, ChainOK, send_message
<1>7. HashesAreTransactions'
  BY <1>1, <1>3, <1>4 DEF AnchorInv, TypeOK, HashesAreTransactions
<1>8. JobsArePosted'
  BY <1>4 DEF AnchorInv, TypeOK, JobsArePosted, Job, send_message
<1>9. NoncesAgree' /\ Logged' = Logged /\ Recorded' = Recorded
  BY DEF AnchorInv, TypeOK, NoncesAgree, Logged, Recorded, send_message
<1> QED
  BY <1>2, <1>5, <1>6, <1>7, <1>8, <1>9 DEF AnchorInv, TypeOK

(* A row less.                                                             *)
LEMMA DeleteMessageOK ==
  ASSUME AnchorInv, NEW m \in Messages, delete_message(m)
  PROVE  AnchorInv'
<1>1. /\ DOMAIN rows' = DOMAIN rows \ {m}
      /\ \A x \in DOMAIN rows' : rows'[x] = rows[x]
  BY DEF delete_message, Restrict
<1>2. RowsOK' /\ Range(rows') \subseteq Range(rows)
  BY <1>1 DEF AnchorInv, RowsOK, Range
<1>3. JobsOK' /\ ChainOK'
  BY DEF AnchorInv, JobsOK, ChainOK, delete_message
<1>4. HashesAreTransactions'
  BY <1>1, <1>2
  DEF AnchorInv, TypeOK, HashesAreTransactions, delete_message
<1>5. JobsArePosted' /\ NoncesAgree' /\ Logged' = Logged /\ Recorded' = Recorded
  BY DEF AnchorInv, TypeOK, JobsArePosted, Job, NoncesAgree, Logged, Recorded,
         delete_message
<1> QED
  BY <1>2, <1>3, <1>4, <1>5 DEF AnchorInv, TypeOK

(* A job that ends leaves nothing behind.                                  *)
LEMMA LeaveOK ==
  ASSUME AnchorInv, NEW w \in Workers, Leave(w),
         UNCHANGED <<rows, posted, queue, pending, chain, owner, records>>
  PROVE  AnchorInv'
<1>1. worker' = [worker EXCEPT ![w] = [pc |-> "free", msg |-> Null, nonce |-> 0]]
  BY DEF Leave, Free
<1>2. worker' \in [Workers -> [pc : {"free", "build", "send", "wait"},
                               msg : Messages \cup {Null}, nonce : Nat]]
  BY <1>1 DEF AnchorInv, JobsOK
<1>3. \A v \in Workers : Job(v, "free")' \/ worker'[v].msg \in posted
  BY <1>1 DEF AnchorInv, JobsOK, TypeOK, JobsArePosted, Job
<1> QED
  BY <1>2, <1>3, WorkerOK DEF AnchorInv, JobsOK

(* The first job of the queue is about a message that was posted.          *)
LEMMA TakeOK ==
  ASSUME AnchorInv, NEW w \in Workers, Take(w)
  PROVE  AnchorInv'
<1> DEFINE head == Head(queue)
<1>1. /\ head \in posted /\ head \in Messages
      /\ queue' \in Seq(Messages)
      /\ \A i \in DOMAIN queue' : queue'[i] \in posted
  BY DEF AnchorInv, JobsOK, Take
<1>2. worker' = [worker EXCEPT ![w] = [pc |-> "build", msg |-> head, nonce |-> 0]]
  BY DEF Take
<1> HIDE DEF head
<1>3. worker' \in [Workers -> [pc : {"free", "build", "send", "wait"},
                               msg : Messages \cup {Null}, nonce : Nat]]
  BY <1>1, <1>2 DEF AnchorInv, JobsOK
<1>4. \A v \in Workers : Job(v, "free")' \/ worker'[v].msg \in posted
  BY <1>1, <1>2 DEF AnchorInv, JobsOK, TypeOK, JobsArePosted, Job
<1> QED
  BY <1>1, <1>3, <1>4, WorkerOK DEF Take

(* A nonce is the length of the chain when it was read.                    *)
LEMMA BuildOK ==
  ASSUME AnchorInv, NEW w \in Workers, Build(w)
  PROVE  AnchorInv'
<1>1. Len(chain) \in Nat
  BY DEF AnchorInv, ChainOK
<1>2. worker' = [worker EXCEPT ![w].pc = "send", ![w].nonce = Len(chain)]
  BY DEF Build
<1>3. worker' \in [Workers -> [pc : {"free", "build", "send", "wait"},
                               msg : Messages \cup {Null}, nonce : Nat]]
  BY <1>1, <1>2 DEF AnchorInv, JobsOK
<1>4. \A v \in Workers : Job(v, "free")' \/ worker'[v].msg \in posted
  BY <1>2 DEF AnchorInv, JobsOK, TypeOK, JobsArePosted, Job, Build
<1> QED
  BY <1>3, <1>4, WorkerOK DEF Build, AnchorInv, JobsOK

(* The node takes a transaction with the next nonce in place of any other. *)
LEMMA AcceptedOK ==
  ASSUME AnchorInv, NEW w \in Workers, Job(w, "send"),
         worker[w].nonce = Len(chain),
         pending' = {tx \in pending : tx.nonce # worker[w].nonce} \cup {Tx(w)},
         worker' = [worker EXCEPT ![w].pc = "wait"] \/ Leave(w),
         UNCHANGED <<rows, posted, queue, chain, owner, records>>
  PROVE  AnchorInv'
<1>1. /\ worker[w].msg \in Messages /\ worker[w].msg \in posted
      /\ worker[w].nonce \in Nat
  BY DEF AnchorInv, JobsOK, TypeOK, JobsArePosted, Job
<1>2. Tx(w) \in Transaction /\ Tx(w).nonce = Len(chain)
  BY <1>1 DEF Tx, Transaction
<1>3. pending' = {Tx(w)}
  BY DEF AnchorInv, TypeOK, NoncesAgree
<1>4. HashesAreTransactions' /\ NoncesAgree' /\ Logged' = Logged /\ Recorded' = Recorded
  BY <1>2, <1>3
  DEF AnchorInv, TypeOK, HashesAreTransactions, NoncesAgree, Logged, Recorded
<1>5. CASE Leave(w)
  <2>1. worker' = [worker EXCEPT ![w] = [pc |-> "free", msg |-> Null, nonce |-> 0]]
    BY <1>5 DEF Leave, Free
  <2>2. JobsOK' /\ RowsOK' /\ ChainOK'
    BY <2>1 DEF AnchorInv, JobsOK, RowsOK, ChainOK
  <2>3. JobsArePosted'
    BY <2>1 DEF AnchorInv, TypeOK, JobsArePosted, JobsOK, Job
  <2> QED
    BY <1>4, <2>2, <2>3 DEF AnchorInv, TypeOK
<1>6. CASE worker' = [worker EXCEPT ![w].pc = "wait"]
  <2>1. JobsOK' /\ RowsOK' /\ ChainOK'
    BY <1>6 DEF AnchorInv, JobsOK, RowsOK, ChainOK
  <2>2. JobsArePosted'
    BY <1>1, <1>6 DEF AnchorInv, TypeOK, JobsArePosted, JobsOK, Job
  <2> QED
    BY <1>4, <2>1, <2>2 DEF AnchorInv, TypeOK
<1> QED
  BY <1>5, <1>6

(* The transaction is refused, or it is accepted.                          *)
LEMMA SendOK ==
  ASSUME AnchorInv, NEW w \in Workers, Send(w)
  PROVE  AnchorInv'
<1>1. CASE Leave(w) /\ UNCHANGED pending
  BY <1>1, LeaveOK DEF Send
<1>2. CASE /\ worker[w].nonce = Len(chain)
           /\ pending' = (pending \ {tx \in pending : tx.nonce = worker[w].nonce})
                           \cup {Tx(w)}
           /\ worker' = [worker EXCEPT ![w].pc = "wait"]
  <2>1. pending \ {tx \in pending : tx.nonce = worker[w].nonce}
          = {tx \in pending : tx.nonce # worker[w].nonce}
    OBVIOUS
  <2> QED
    BY <1>2, <2>1, AcceptedOK DEF Send
<1> QED
  BY <1>1, <1>2 DEF Send

(* A failed call is one that did not reach the node, or an accepted one.   *)
LEMMA FailOK ==
  ASSUME AnchorInv, NEW w \in Workers, Fail(w)
  PROVE  AnchorInv'
<1>1. CASE UNCHANGED pending
  BY <1>1, LeaveOK DEF Fail
<1>2. CASE ~UNCHANGED pending
  BY <1>2, AcceptedOK DEF Fail
<1> QED
  BY <1>1, <1>2

(* The hash that is stored is that of the job's own transaction.           *)
LEMMA ConfirmOK ==
  ASSUME AnchorInv, NEW w \in Workers, Confirm(w)
  PROVE  AnchorInv'
<1>1. PICK tx \in receipt(w) :
        rows' = [m \in DOMAIN rows |-> IF m = worker[w].msg THEN tx ELSE rows[m]]
  BY DEF Confirm
<1>2. tx = Tx(w) /\ tx \in Transaction
  <2>1. PICK i \in DOMAIN chain : tx = chain[i].tx /\ tx = Tx(w)
    BY DEF receipt, Mined
  <2>2. \A S : chain \in Seq(S) => chain[i] \in S
    OBVIOUS
  <2>3. chain[i] \in [tx : Transaction, logs : SUBSET [id : Nat, hash : Contents]]
    BY <2>2 DEF AnchorInv, ChainOK
  <2> QED
    BY <2>1, <2>3
<1>3. tx.msg = worker[w].msg
  BY <1>2 DEF Tx
<1>4. RowsOK'
  BY <1>1, <1>3 DEF AnchorInv, RowsOK
<1>5. Range(rows') \subseteq Range(rows) \cup {tx} /\ DOMAIN rows' = DOMAIN rows
  BY <1>1 DEF Range
<1>6. worker' = [worker EXCEPT ![w] = [pc |-> "free", msg |-> Null, nonce |-> 0]]
  BY DEF Confirm, Leave, Free
<1>7. JobsOK' /\ ChainOK'
  BY <1>6 DEF AnchorInv, JobsOK, ChainOK, Confirm
<1>8. HashesAreTransactions'
  BY <1>2, <1>5 DEF AnchorInv, TypeOK, HashesAreTransactions, Confirm
<1>9. JobsArePosted'
  BY <1>6 DEF AnchorInv, TypeOK, JobsArePosted, JobsOK, Job, Confirm
<1>10. NoncesAgree' /\ Logged' = Logged /\ Recorded' = Recorded
  BY DEF AnchorInv, TypeOK, NoncesAgree, Logged, Recorded, Confirm
<1> QED
  BY <1>4, <1>7, <1>8, <1>9, <1>10 DEF AnchorInv, TypeOK

(* After a restart all workers are free and the queue is empty.            *)
LEMMA RestartOK == AnchorInv /\ Restart => AnchorInv'
<1> SUFFICES ASSUME AnchorInv, Restart PROVE AnchorInv'
  OBVIOUS
<1>1. worker' = [w \in Workers |-> [pc |-> "free", msg |-> Null, nonce |-> 0]]
  BY DEF Restart, Free
<1>2. \A w \in Workers : Job(w, "free")'
  BY <1>1 DEF Job
<1> QED
  BY <1>1, <1>2, WorkerOK DEF Restart

(* The next transaction is mined: one event and one record more, or none.  *)
LEMMA MineOK ==
  ASSUME AnchorInv, NEW tx \in pending, Mine(tx)
  PROVE  AnchorInv'
<1> DEFINE digest == Digest[tx.msg]
           event == [id |-> recordId, hash |-> digest]
           entry == [tx |-> tx, logs |-> IF owner = "server" THEN {event} ELSE {}]
           Entry == [tx : Transaction, logs : SUBSET [id : Nat, hash : Contents]]
<1>1. /\ tx \in Transaction /\ tx.nonce = Len(chain)
      /\ pending' = {}
  BY DEF AnchorInv, TypeOK, NoncesAgree, Mine
<1>2. /\ chain \in Seq(Entry) /\ records \in Seq(Contents)
      /\ Len(chain) \in Nat /\ Len(records) \in Nat
  BY DEF AnchorInv, ChainOK
<1>3. /\ digest \in Contents /\ event \in [id : Nat, hash : Contents]
      /\ event.hash = digest
  BY <1>1, <1>2, DigestAssumption DEF Transaction, recordId
<1> HIDE DEF event
<1>4. entry \in Entry /\ entry.tx = tx
  BY <1>1, <1>3
<1>5. chain' = Append(chain, entry)
  BY DEF Mine, event
<1>6. \A e \in entry.logs : e.hash = Digest[entry.tx.msg]
  BY <1>3
<1> HIDE DEF entry
<1>7. /\ chain' \in Seq(Entry) /\ DOMAIN chain' = DOMAIN chain \cup {Len(chain) + 1}
      /\ Len(chain) + 1 \notin DOMAIN chain
      /\ \A i \in DOMAIN chain : chain'[i] = chain[i]
      /\ chain'[Len(chain) + 1] = entry
  BY <1>2, <1>4, <1>5
<1>8. records' = IF owner = "server" THEN Append(records, digest) ELSE records
  BY DEF Mine
<1>9. records' \in Seq(Contents)
  BY <1>2, <1>3, <1>8
<1>10. ChainOK'
  BY <1>6, <1>7, <1>9 DEF AnchorInv, ChainOK
<1>11. NoncesAgree'
  BY <1>1, <1>2, <1>4, <1>7 DEF AnchorInv, TypeOK, NoncesAgree
<1>12. Logged' = Logged \cup entry.logs
  BY <1>7 DEF Logged
<1>13. Recorded' = Recorded \cup entry.logs
  <2>1. CASE owner = "server"
    <3>1. /\ DOMAIN records' = DOMAIN records \cup {Len(records) + 1}
          /\ \A i \in DOMAIN records : records'[i] = records[i]
          /\ records'[Len(records) + 1] = digest
          /\ Len(records) + 1 \notin DOMAIN records
      BY <1>2, <1>3, <1>8, <2>1
    <3>2. event = [id |-> (Len(records) + 1) - 1, hash |-> digest]
      BY <1>2 DEF event, recordId
    <3>3. entry.logs = {event}
      BY <2>1 DEF entry
    <3> HIDE DEF digest
    <3> QED
      BY <3>1, <3>2, <3>3 DEF Recorded
  <2>2. CASE owner # "server"
    BY <1>8, <2>2 DEF Recorded, entry
  <2> QED
    BY <2>1, <2>2
<1>14. JobsOK' /\ RowsOK' /\ HashesAreTransactions' /\ JobsArePosted'
  BY DEF AnchorInv, TypeOK, JobsOK, RowsOK, HashesAreTransactions,
         JobsArePosted, Job, Mine
<1> QED
  BY <1>10, <1>11, <1>12, <1>13, <1>14 DEF AnchorInv, TypeOK

(* Nothing changes when no variable does.                                  *)
LEMMA StutterOK == AnchorInv /\ UNCHANGED vars => AnchorInv'
<1> SUFFICES ASSUME AnchorInv, UNCHANGED vars PROVE AnchorInv'
  OBVIOUS
<1>1. TypeOK'
  BY DEF AnchorInv, TypeOK, HashesAreTransactions, JobsArePosted, NoncesAgree,
         Logged, Recorded, vars, Job
<1>2. JobsOK' /\ RowsOK' /\ ChainOK'
  BY DEF AnchorInv, JobsOK, RowsOK, ChainOK, vars
<1> QED
  BY <1>1, <1>2 DEF AnchorInv

(* Every step keeps the invariant.                                         *)
LEMMA NextOK == AnchorInv /\ [Next]_vars => AnchorInv'
<1> SUFFICES ASSUME AnchorInv, Next PROVE AnchorInv'
  BY StutterOK
<1>1. ASSUME NEW w \in Workers, Timeout(w) PROVE AnchorInv'
  BY <1>1, LeaveOK DEF Timeout
<1>2. CASE \E m \in Messages : send_message(m) \/ delete_message(m)
  BY <1>2, SendMessageOK, DeleteMessageOK
<1>3. CASE \E w \in Workers : JobStep(w) \/ Fail(w)
  BY <1>1, <1>3, TakeOK, BuildOK, SendOK, ConfirmOK, FailOK DEF JobStep
<1>4. CASE \E tx \in pending : Mine(tx)
  BY <1>4, MineOK
<1> QED
  BY <1>2, <1>3, <1>4, RestartOK DEF Next

---------------------------------------------------------------------------
(* Lookups.                                                                *)

(* The digest is in an event on the chain.                                 *)
OnChain(digest) ==
  \E i \in DOMAIN chain : \E event \in chain[i].logs : event.hash = digest

(* An answer is empty or the content that was asked for.                   *)
LEMMA AnswerRight ==
  ASSUME AnchorInv, NEW digest \in Contents,
         NEW answer \in verify_by_content(digest)
  PROVE  answer \subseteq {digest}
<1>1. get_record_by_digest(digest) \subseteq {digest}
  BY DEF get_record_by_digest
<1>2. ASSUME NEW tx \in get_tx_hash_by_digest(digest), tx # Null
      PROVE  get_record_by_tx(tx) \subseteq {digest}
  <2>1. PICK m \in DOMAIN rows : tx = rows[m] /\ Digest[m] = digest
    BY <1>2 DEF get_tx_hash_by_digest
  <2>2. tx.msg = m
    BY <1>2, <2>1 DEF AnchorInv, RowsOK
  <2>3. \A i \in Mined(tx) : \A event \in chain[i].logs : event.hash = digest
    BY <2>1, <2>2 DEF Mined, AnchorInv, ChainOK
  <2> QED
    BY <2>3 DEF get_record_by_tx
<1>3. PICK tx \in get_tx_hash_by_digest(digest) :
        \/ tx # Null /\ answer = get_record_by_tx(tx)
        \/ answer = get_record_by_digest(digest)
  BY DEF verify_by_content
<1> QED
  BY <1>1, <1>2, <1>3

(* A lookup that never says 404 has the digest on the chain.               *)
LEMMA FoundIsOnChain ==
  ASSUME AnchorInv, NEW digest \in Contents, {} \notin verify_by_content(digest)
  PROVE  OnChain(digest)
<1>1. PICK tx : tx \in get_tx_hash_by_digest(digest)
  BY DEF get_tx_hash_by_digest
<1> DEFINE stored == IF tx = Null THEN {} ELSE get_record_by_tx(tx)
           answer == IF stored # {} THEN stored ELSE get_record_by_digest(digest)
<1>2. answer \in verify_by_content(digest)
  BY <1>1 DEF verify_by_content
<1>3. PICK hash : hash \in answer
  BY <1>2
<1>4. hash = digest
  BY <1>2, <1>3, AnswerRight
<1>5. \E i \in DOMAIN chain : \E event \in chain[i].logs : event.hash = hash
  BY <1>3 DEF get_record_by_tx, get_record_by_digest, Mined
<1> QED
  BY <1>4, <1>5 DEF OnChain

(* What is on the chain is found, in this state and in the next.           *)
LEMMA OnChainIsFound ==
  ASSUME NEW digest \in Contents
  PROVE  OnChain(digest)' => {} \notin verify_by_content(digest)'
<1> SUFFICES ASSUME OnChain(digest)' PROVE {} \notin verify_by_content(digest)'
  OBVIOUS
<1>1. get_record_by_digest(digest)' # {}
  BY DEF OnChain, get_record_by_digest
<1> QED
  BY <1>1 DEF verify_by_content

(* Mined transactions and their events stay.                               *)
LEMMA ChainGrows ==
  ASSUME AnchorInv, [Next]_vars, NEW digest \in Contents, OnChain(digest)
  PROVE  OnChain(digest)'
<1>1. PICK i \in DOMAIN chain : \E event \in chain[i].logs : event.hash = digest
  BY DEF OnChain
<1>2. i \in DOMAIN chain' /\ chain'[i] = chain[i]
  <2>1. CASE UNCHANGED chain
    BY <2>1
  <2>2. ASSUME NEW entry, chain' = Append(chain, entry)
        PROVE  i \in DOMAIN chain' /\ chain'[i] = chain[i]
    BY <2>2 DEF AnchorInv, ChainOK
  <2>3. UNCHANGED chain \/ \E entry : chain' = Append(chain, entry)
    BY DEF Next, send_message, delete_message, JobStep, Take, Build, Send,
           Confirm, Timeout, Fail, Restart, Mine, vars
  <2> QED
    BY <2>1, <2>2, <2>3
<1> QED
  BY <1>1, <1>2 DEF OnChain

---------------------------------------------------------------------------
(* The rows, the jobs and the chain agree whatever fails: a stored hash is *)
(* that of a transaction and the contract's records are its events.        *)
THEOREM AnchorTypeCorrect == Spec => []TypeOK
<1>1. AnchorInv => TypeOK
  BY DEF AnchorInv
<1> QED
  BY <1>1, InitOK, NextOK, PTL DEF Spec

(* A lookup never shows the record of another content.                     *)
THEOREM AnswersRight == Spec => []VerdictRight
<1>1. AnchorInv => VerdictRight
  BY AnswerRight DEF VerdictRight
<1> QED
  BY <1>1, InitOK, NextOK, PTL DEF Spec

(* A content once found is found ever after.                               *)
THEOREM AnswersStay == Spec => VerdictStays
<1>1. AnchorInv /\ [Next]_vars =>
        [\A digest \in Contents :
           {} \notin verify_by_content(digest)
             => {} \notin verify_by_content(digest)']_vars
  BY FoundIsOnChain, ChainGrows, OnChainIsFound
<1> QED
  BY <1>1, InitOK, NextOK, PTL DEF Spec, VerdictStays

---------------------------------------------------------------------------
(* Nothing is recorded twice.                                              *)

(* No transaction for the message is pending or mined.                     *)
Unsent(m) ==
  /\ \A tx \in pending : tx.msg # m
  /\ \A i \in DOMAIN chain : chain[i].tx.msg # m

(* The workers that have still to send.                                    *)
Sending == {w \in Workers : worker[w].pc \in {"build", "send"}}

(* A message that is in the queue is there once and at no worker that has  *)
(* still to send; one at such a worker is at no other; and neither is sent.*)
JobsApart ==
  /\ \A i, j \in DOMAIN queue : queue[i] = queue[j] => i = j
  /\ \A i \in DOMAIN queue :
       Unsent(queue[i]) /\ \A w \in Sending : worker[w].msg # queue[i]
  /\ \A w \in Sending :
       Unsent(worker[w].msg)
       /\ \A v \in Sending : worker[v].msg = worker[w].msg => v = w

(* A message is mined once, and not pending any more.                      *)
MinedApart ==
  /\ \A tx \in pending : tx.msg \in posted
  /\ \A i \in DOMAIN chain :
       /\ chain[i].tx.msg \in posted
       /\ \A tx \in pending : tx.msg # chain[i].tx.msg
       /\ \A j \in DOMAIN chain : chain[i].tx.msg = chain[j].tx.msg => i = j

(* The contract has a record for each mined transaction, or none.          *)
RecordsOK ==
  /\ DOMAIN records \subseteq DOMAIN chain
  /\ owner = "server" => Len(records) = Len(chain)
  /\ owner # "server" => records = <<>>
  /\ \A i \in DOMAIN records : records[i] = Digest[chain[i].tx.msg]

OnceInv == JobsApart /\ MinedApart /\ RecordsOK /\ IsFiniteSet(posted)

(* A job that ends, or goes on without sending.                            *)
LEMMA OnceStays ==
  ASSUME AnchorInv, OnceInv, UNCHANGED <<posted, pending, chain, owner, records>>,
         queue' = queue \/ queue' = <<>>,
         \A w \in Sending' : w \in Sending /\ worker'[w].msg = worker[w].msg
  PROVE  OnceInv'
<1>1. MinedApart' /\ RecordsOK' /\ IsFiniteSet(posted)'
  BY DEF OnceInv, MinedApart, RecordsOK
<1>2. JobsApart'
  BY DEF OnceInv, JobsApart, Unsent
<1> QED
  BY <1>1, <1>2 DEF OnceInv

(* What is posted is in no other place yet.                                *)
LEMMA OncePosted ==
  ASSUME AnchorInv, OnceInv, NEW m \in Messages, send_message(m)
  PROVE  OnceInv'
<1>1. /\ m \notin posted /\ posted' = posted \cup {m} /\ queue' = Append(queue, m)
      /\ UNCHANGED <<worker, pending, chain, owner, records>>
  BY DEF send_message
<1>2. IsFiniteSet(posted')
  BY <1>1, FS_AddElement DEF OnceInv
<1>3. MinedApart' /\ RecordsOK'
  BY <1>1 DEF OnceInv, MinedApart, RecordsOK
<1>4. Unsent(m) /\ (\A w \in Sending : worker[w].msg # m)
      /\ \A i \in DOMAIN queue : queue[i] # m
  BY <1>1
  DEF AnchorInv, TypeOK, JobsArePosted, Job, JobsOK, OnceInv, MinedApart,
      Unsent, Sending
<1>5. /\ DOMAIN queue' = DOMAIN queue \cup {Len(queue) + 1}
      /\ \A i \in DOMAIN queue : queue'[i] = queue[i]
      /\ queue'[Len(queue) + 1] = m
  BY <1>1 DEF AnchorInv, JobsOK
<1>6. Sending' = Sending /\ \A x : Unsent(x)' = Unsent(x)
  BY <1>1 DEF Sending, Unsent
<1>7. JobsApart'
  BY <1>1, <1>4, <1>5, <1>6 DEF OnceInv, JobsApart
<1> QED
  BY <1>2, <1>3, <1>7 DEF OnceInv

(* What a worker takes leaves the queue.                                   *)
LEMMA OnceTaken ==
  ASSUME AnchorInv, OnceInv, NEW w \in Workers, Take(w)
  PROVE  OnceInv'
<1>1. PICK m : m = Head(queue)
  OBVIOUS
<1>2. /\ queue # <<>> /\ queue' = Tail(queue)
      /\ worker' = [worker EXCEPT ![w] = [pc |-> "build", msg |-> m, nonce |-> 0]]
      /\ UNCHANGED <<posted, pending, chain, owner, records>>
  BY <1>1 DEF Take
<1>3. /\ 1 \in DOMAIN queue /\ queue[1] = m
      /\ \A i \in DOMAIN queue' : i + 1 \in DOMAIN queue /\ i \in Nat \ {0}
                                  /\ queue'[i] = queue[i + 1]
  BY <1>1, <1>2 DEF AnchorInv, JobsOK
<1>4. Unsent(m) /\ (\A v \in Sending : worker[v].msg # m)
      /\ \A i \in DOMAIN queue' : queue'[i] # m
  BY <1>3 DEF OnceInv, JobsApart
<1>5. /\ Sending' \subseteq Sending \cup {w} /\ worker'[w].msg = m
      /\ \A v \in Sending' : v # w => worker'[v].msg = worker[v].msg
      /\ \A x : Unsent(x)' = Unsent(x)
  BY <1>2 DEF AnchorInv, JobsOK, Sending, Unsent
<1>6. \A i, j \in DOMAIN queue' : queue'[i] = queue'[j] => i = j
  BY <1>3 DEF OnceInv, JobsApart
<1>7. (\A i \in DOMAIN queue :
         Unsent(queue[i]) /\ \A v \in Sending : worker[v].msg # queue[i])'
  <2> SUFFICES ASSUME NEW i \in DOMAIN queue', NEW x, x = queue'[i]
               PROVE  Unsent(x)' /\ \A v \in Sending' : worker'[v].msg # x
    OBVIOUS
  <2>1. PICK k \in DOMAIN queue : x = queue[k] /\ x # m
    BY <1>3, <1>4
  <2>2. Unsent(x) /\ \A v \in Sending : worker[v].msg # x
    BY <2>1 DEF OnceInv, JobsApart
  <2> QED
    BY <1>5, <2>1, <2>2
<1>8. (\A v \in Sending :
         Unsent(worker[v].msg)
         /\ \A u \in Sending : worker[u].msg = worker[v].msg => u = v)'
  <2> SUFFICES ASSUME NEW v \in Sending', NEW x, x = worker'[v].msg
               PROVE  /\ Unsent(x)'
                      /\ \A u \in Sending' : worker'[u].msg = x => u = v
    OBVIOUS
  <2>1. CASE v = w
    BY <1>4, <1>5, <2>1
  <2>2. CASE v # w
    <3>1. v \in Sending /\ x = worker[v].msg /\ x # m
      BY <1>4, <1>5, <2>2
    <3>2. Unsent(x) /\ \A u \in Sending : worker[u].msg = x => u = v
      BY <3>1 DEF OnceInv, JobsApart
    <3> QED
      BY <1>5, <3>1, <3>2
  <2> QED
    BY <2>1, <2>2
<1>9. JobsApart'
  BY <1>6, <1>7, <1>8 DEF JobsApart
<1> QED
  BY <1>2, <1>9 DEF OnceInv, MinedApart, RecordsOK

(* What is accepted is at no worker any more that could send it.           *)
LEMMA OnceAccepted ==
  ASSUME AnchorInv, OnceInv, NEW w \in Workers, Job(w, "send"),
         pending' \subseteq pending \cup {Tx(w)},
         worker' = [worker EXCEPT ![w].pc = "wait"] \/ Leave(w),
         UNCHANGED <<posted, queue, chain, owner, records>>
  PROVE  OnceInv'
<1>1. PICK m : m = worker[w].msg /\ m = Tx(w).msg
  BY DEF Tx
<1>2. w \in Sending /\ m \in posted
  BY <1>1 DEF AnchorInv, TypeOK, JobsArePosted, Job, Sending
<1>3. Unsent(m) /\ (\A v \in Sending : v # w => worker[v].msg # m)
      /\ \A i \in DOMAIN queue : queue[i] # m
  BY <1>1, <1>2 DEF OnceInv, JobsApart
<1>4. \A v \in Sending' :
        v \in Sending /\ v # w /\ worker'[v].msg = worker[v].msg
  BY DEF AnchorInv, JobsOK, Sending, Leave, Free
<1>5. \A x : Unsent(x) /\ x # m => Unsent(x)'
  BY <1>1 DEF Unsent
<1>6. JobsApart'
  BY <1>3, <1>4, <1>5 DEF OnceInv, JobsApart
<1>7. MinedApart'
  BY <1>1, <1>2, <1>3 DEF OnceInv, MinedApart, Unsent
<1> QED
  BY <1>6, <1>7 DEF OnceInv, RecordsOK

(* What is mined is not pending any more.                                  *)
LEMMA OnceMined ==
  ASSUME AnchorInv, OnceInv, NEW tx \in pending, Mine(tx)
  PROVE  OnceInv'
<1>1. PICK entry : /\ chain' = Append(chain, entry) /\ entry.tx = tx
  BY DEF Mine
<1>2. /\ pending' = {} /\ UNCHANGED <<posted, queue, worker, owner>>
  BY DEF AnchorInv, TypeOK, NoncesAgree, Mine
<1>3. Len(chain) \in Nat /\ Len(records) \in Nat
  BY DEF AnchorInv, ChainOK
<1>4. /\ DOMAIN chain' = DOMAIN chain \cup {Len(chain) + 1}
      /\ Len(chain) + 1 \notin DOMAIN chain
      /\ \A i \in DOMAIN chain : chain'[i] = chain[i]
      /\ chain'[Len(chain) + 1].tx = tx
      /\ Len(chain') = Len(chain) + 1
  BY <1>1 DEF AnchorInv, ChainOK
<1>5. Sending' = Sending /\ \A x : Unsent(x) => Unsent(x)'
  BY <1>2, <1>4 DEF Sending, Unsent
<1>6. JobsApart'
  BY <1>2, <1>5 DEF OnceInv, JobsApart
<1>7. MinedApart'
  BY <1>2, <1>4 DEF OnceInv, MinedApart
<1>8. RecordsOK'
  <2>1. CASE owner = "server"
    <3>1. records' = Append(records, Digest[tx.msg])
      BY <2>1 DEF Mine
    <3>2. Len(records) = Len(chain)
      BY <2>1 DEF OnceInv, RecordsOK
    <3>3. /\ DOMAIN records' = DOMAIN records \cup {Len(records) + 1}
          /\ \A i \in DOMAIN records : records'[i] = records[i]
          /\ records'[Len(records) + 1] = Digest[tx.msg]
          /\ Len(records') = Len(records) + 1
      BY <3>1 DEF AnchorInv, ChainOK
    <3> QED
      BY <1>2, <1>4, <2>1, <3>2, <3>3 DEF OnceInv, RecordsOK
  <2>2. CASE owner # "server"
    BY <1>2, <1>4, <2>2 DEF OnceInv, RecordsOK, Mine
  <2> QED
    BY <2>1, <2>2
<1> QED
  BY <1>2, <1>6, <1>7, <1>8 DEF OnceInv

(* Every step keeps it.                                                    *)
LEMMA OnceNext == AnchorInv /\ OnceInv /\ [Next]_vars => OnceInv'
<1> SUFFICES ASSUME AnchorInv, OnceInv, [Next]_vars PROVE OnceInv'
  OBVIOUS
<1>1. ASSUME NEW w \in Workers, Leave(w),
             UNCHANGED <<posted, queue, pending, chain, owner, records>>
      PROVE  OnceInv'
  BY <1>1, OnceStays DEF Leave, Free, Sending, AnchorInv, JobsOK
<1>2. ASSUME NEW m \in Messages, delete_message(m) PROVE OnceInv'
  BY <1>2, OnceStays DEF delete_message, Sending
<1>3. ASSUME NEW w \in Workers, Build(w) PROVE OnceInv'
  BY <1>3, OnceStays DEF Build, Job, Sending, AnchorInv, JobsOK
<1>4. ASSUME NEW w \in Workers, Send(w) PROVE OnceInv'
  BY <1>1, <1>4, OnceAccepted DEF Send
<1>5. ASSUME NEW w \in Workers, Confirm(w) \/ Timeout(w) PROVE OnceInv'
  BY <1>1, <1>5 DEF Confirm, Timeout
<1>6. ASSUME NEW w \in Workers, Fail(w) PROVE OnceInv'
  BY <1>1, <1>6, OnceAccepted DEF Fail
<1>7. CASE Restart
  BY <1>7, OnceStays DEF Restart, Free, Sending
<1>8. CASE UNCHANGED vars
  BY <1>8, OnceStays DEF vars, Sending
<1> QED
  BY <1>2, <1>3, <1>4, <1>5, <1>6, <1>7, <1>8, OncePosted, OnceTaken, OnceMined
  DEF Next, JobStep

(* A record belongs to a message of its own.                               *)
LEMMA RecordsOfMessages ==
  ASSUME AnchorInv, OnceInv, NEW digest \in Contents
  PROVE  Cardinality({i \in DOMAIN records : records[i] = digest})
           <= Cardinality({m \in posted : Digest[m] = digest})
<1> DEFINE its == {i \in DOMAIN records : records[i] = digest}
           whose == {m \in posted : Digest[m] = digest}
           sender == [i \in its |-> chain[i].tx.msg]
<1>1. IsFiniteSet(whose)
  BY FS_Subset DEF OnceInv
<1>2. \A i \in its : i \in DOMAIN chain /\ chain[i].tx.msg \in whose
  BY DEF OnceInv, RecordsOK, MinedApart
<1>3. \A i, j \in its : chain[i].tx.msg = chain[j].tx.msg => i = j
  BY <1>2 DEF OnceInv, MinedApart
<1>4. sender \in Injection(its, whose)
  BY <1>2, <1>3 DEF Injection, IsInjective
<1> HIDE DEF its, whose, sender
<1>5. Cardinality(its) <= Cardinality(whose)
  BY <1>1, <1>4, FS_Injection
<1> QED
  BY <1>5 DEF its, whose

(* A content is recorded at most as often as it was posted: no job sends   *)
(* twice, whatever fails, is replaced or is cut off by a restart.          *)
THEOREM NothingRecordedTwice == Spec => []RecordedOnce
<1>1. Init => OnceInv
  BY FS_EmptySet
  DEF Init, Free, OnceInv, JobsApart, MinedApart, RecordsOK, Unsent, Sending
<1>2. AnchorInv /\ OnceInv => RecordedOnce
  BY RecordsOfMessages DEF RecordedOnce
<1> QED
  BY <1>1, <1>2, InitOK, NextOK, OnceNext, PTL DEF Spec
=============================================================================
