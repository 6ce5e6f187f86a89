------------------------------- MODULE Anchor -------------------------------
(***************************************************************************)
(* How the server anchors the digests of messages: the jobs that POST      *)
(* /api/messages submits (server/api.py), what they do with the chain      *)
(* (server/blockchain_service.py), the contract (blockchain/contracts/     *)
(* MessageDigest.sol), and the lookup of a digest.                         *)
(*                                                                         *)
(* A job builds its transaction with the account's nonce, the number of    *)
(* its transactions that are mined.  The node holds one pending            *)
(* transaction for each nonce: another one with the same nonce is refused, *)
(* or takes its place when it pays enough more.                            *)
(*                                                                         *)
(* session.js computes the digest of the plaintext, so two messages can    *)
(* have the same one.                                                      *)
(***************************************************************************)
EXTENDS Naturals, Sequences, FiniteSets, Functions

CONSTANTS
  Messages,     \* what can be sent
  Contents,     \* the digests
  Digest,       \* Digest[m]: the digest of m
  Workers,      \* the threads of _executor
  Deployers,    \* who may have deployed the contract: "server", "other"
  RpcMayFail,   \* whether a call to the node can fail
  MaxRestarts,  \* bound: how often the server is started again
  Null

ASSUME DigestAssumption == Digest \in [Messages -> Contents]

VARIABLES
  rows,      \* the messages table: from messages to blockchain_tx_hash or Null
  posted,    \* history: the messages that were stored
  queue,     \* the jobs no worker has taken
  worker,    \* worker[w]: the job of w and how far it is
  pending,   \* the transactions the node has accepted and not mined
  chain,     \* the account's mined transactions, each with the events it logged
  owner,     \* owner of the contract
  records,   \* records of the contract: the hash with the id i is at i + 1
  restarts   \* how often the server was started again

vars == <<rows, posted, queue, worker, pending, chain, owner, records, restarts>>

Free == [pc |-> "free", msg |-> Null, nonce |-> 0]

Init ==
  /\ rows = [m \in {} |-> Null]
  /\ posted = {}
  /\ queue = <<>>
  /\ worker = [w \in Workers |-> Free]
  /\ pending = {}
  /\ chain = <<>>
  /\ owner \in Deployers
  /\ records = <<>>
  /\ restarts = 0

---------------------------------------------------------------------------
(* Requests.                                                               *)

(* POST /api/messages: create_message, then the job.                       *)
send_message(m) ==
  /\ m \notin posted
  /\ rows' = [x \in DOMAIN rows \cup {m} |-> IF x = m THEN Null ELSE rows[x]]
  /\ posted' = posted \cup {m}
  /\ queue' = Append(queue, m)
  /\ UNCHANGED <<worker, pending, chain, owner, records, restarts>>

(* DELETE /api/messages/{message_id}.                                      *)
delete_message(m) ==
  /\ m \in DOMAIN rows
  /\ rows' = Restrict(rows, DOMAIN rows \ {m})
  /\ UNCHANGED <<posted, queue, worker, pending, chain, owner, records, restarts>>

---------------------------------------------------------------------------
(* anchor() and record_digest_on_chain.                                    *)

Job(w, pc) == worker[w].pc = pc
Leave(w) == worker' = [worker EXCEPT ![w] = Free]
Tx(w) == [msg |-> worker[w].msg, nonce |-> worker[w].nonce]
Mined(tx) == {i \in DOMAIN chain : chain[i].tx = tx}

Take(w) ==
  /\ Job(w, "free")
  /\ queue # <<>>
  /\ queue' = Tail(queue)
  /\ worker' = [worker EXCEPT ![w] =
                  [pc |-> "build", msg |-> Head(queue), nonce |-> 0]]
  /\ UNCHANGED <<rows, posted, pending, chain, owner, records, restarts>>

(* build_transaction, with get_transaction_count.                          *)
Build(w) ==
  /\ Job(w, "build")
  /\ worker' = [worker EXCEPT ![w].pc = "send", ![w].nonce = Len(chain)]
  /\ UNCHANGED <<rows, posted, queue, pending, chain, owner, records, restarts>>

(* send_raw_transaction; when the node refuses, the job ends.              *)
Send(w) ==
  LET rivals == {tx \in pending : tx.nonce = worker[w].nonce}
      Accepted == /\ pending' = (pending \ rivals) \cup {Tx(w)}
                  /\ worker' = [worker EXCEPT ![w].pc = "wait"]
      Refused == Leave(w) /\ UNCHANGED pending
  IN  /\ Job(w, "send")
      /\ \/ worker[w].nonce = Len(chain) /\ Accepted
         \/ (worker[w].nonce < Len(chain) \/ rivals # {}) /\ Refused
      /\ UNCHANGED <<rows, posted, queue, chain, owner, records, restarts>>

(* What the wait ends with.  Fault: whatever is mined under its nonce.     *)
minedUnderNonce(w) ==
  {chain[i].tx : i \in {i \in DOMAIN chain : i = worker[w].nonce + 1}}
receipt(w) == {chain[i].tx : i \in Mined(Tx(w))}

(* wait_for_transaction_receipt returns: update_blockchain_tx_hash changes *)
(* the row, if it is still there.  A reverted transaction has a receipt.   *)
Confirm(w) ==
  /\ Job(w, "wait")
  /\ \E tx \in receipt(w) :
       rows' = [m \in DOMAIN rows |->
                  IF m = worker[w].msg THEN tx ELSE rows[m]]
  /\ Leave(w)
  /\ UNCHANGED <<posted, queue, pending, chain, owner, records, restarts>>

(* Faults: it never gives up; and it begins again.                         *)
waitForever(w) == FALSE
timeoutAndRetry(w) ==
  /\ Job(w, "wait") /\ receipt(w) = {}
  /\ worker' = [worker EXCEPT ![w].pc = "build"]
  /\ UNCHANGED <<rows, posted, queue, pending, chain, owner, records, restarts>>

(* Nothing after 300 seconds: the wait throws, and the job ends.           *)
Timeout(w) ==
  /\ Job(w, "wait") /\ receipt(w) = {}
  /\ Leave(w)
  /\ UNCHANGED <<rows, posted, queue, pending, chain, owner, records, restarts>>

(* A call fails: anchor() prints it, and the job ends.  What was sent may  *)
(* have reached the node.                                                  *)
Fail(w) ==
  /\ RpcMayFail
  /\ worker[w].pc # "free"
  /\ Leave(w)
  /\ \/ UNCHANGED pending
     \/ /\ Job(w, "send") /\ worker[w].nonce = Len(chain)
        /\ pending' = {tx \in pending : tx.nonce # worker[w].nonce}
                        \cup {Tx(w)}
  /\ UNCHANGED <<rows, posted, queue, chain, owner, records, restarts>>

(* The server is killed and started again: the queue of jobs is lost.      *)
Restart ==
  /\ restarts < MaxRestarts
  /\ restarts' = restarts + 1
  /\ queue' = <<>>
  /\ worker' = [w \in Workers |-> Free]
  /\ UNCHANGED <<rows, posted, pending, chain, owner, records>>

---------------------------------------------------------------------------
(* The chain.                                                              *)

(* uint256 id = recordCount++.  Fault: ++recordCount.                      *)
countedBefore == Len(records) + 1
recordId == Len(records)

(* External: a block with the pending transaction that is next.  It runs   *)
(* recordDigest, which reverts unless the sender is the owner.             *)
Mine(tx) ==
  LET digest == Digest[tx.msg]
      event == [id |-> recordId, hash |-> digest]
  IN  /\ tx \in pending
      /\ tx.nonce = Len(chain)
      /\ pending' = pending \ {tx}
      /\ IF owner = "server"
         THEN /\ records' = Append(records, digest)
              /\ chain' = Append(chain, [tx |-> tx, logs |-> {event}])
         ELSE /\ chain' = Append(chain, [tx |-> tx, logs |-> {}])
              /\ UNCHANGED records
      /\ UNCHANGED <<rows, posted, queue, worker, owner, restarts>>

---------------------------------------------------------------------------
(* GET /api/verify/by-content.  The answers are the hashes it can return;  *)
(* none is 404.                                                            *)

(* Any of the rows with the digest: LIMIT 1 without an ORDER BY.           *)
get_tx_hash_by_digest(digest) ==
  LET matches == {m \in DOMAIN rows : Digest[m] = digest}
  IN  IF matches = {} THEN {Null} ELSE {rows[m] : m \in matches}

get_record_by_tx(tx) ==
  UNION {{event.hash : event \in chain[i].logs} : i \in Mined(tx)}

get_record_by_digest(digest) ==
  UNION {{event.hash : event \in {e \in chain[i].logs : e.hash = digest}} :
           i \in DOMAIN chain}

(* Fault: there is no scan of the events.                                  *)
storedHashOnly(digest) ==
  {get_record_by_tx(tx) : tx \in get_tx_hash_by_digest(digest)}

(* One set of answers for each row the query can choose.                   *)
verify_by_content(digest) ==
  {LET stored == IF tx = Null THEN {} ELSE get_record_by_tx(tx)
   IN  IF stored # {} THEN stored ELSE get_record_by_digest(digest) :
     tx \in get_tx_hash_by_digest(digest)}

---------------------------------------------------------------------------
JobStep(w) == Take(w) \/ Build(w) \/ Send(w) \/ Confirm(w) \/ Timeout(w)

Next ==
  \/ \E m \in Messages : send_message(m) \/ delete_message(m)
  \/ \E w \in Workers : JobStep(w) \/ Fail(w)
  \/ \E tx \in pending : Mine(tx)
  \/ Restart

Spec == Init /\ [][Next]_vars

(* The threads of the executor go on, a wait ends after its timeout, and   *)
(* what is pending is mined.  Nobody has to send, and a failure is neither *)
(* assumed nor ruled out.                                                  *)
FairSpec ==
  /\ Spec
  /\ \A w \in Workers : WF_vars(JobStep(w))
  /\ WF_vars(\E tx \in pending : Mine(tx))

---------------------------------------------------------------------------
(* Properties.                                                             *)

Transaction == [msg : Messages, nonce : Nat]

HashesAreTransactions ==
  DOMAIN rows \subseteq posted /\ Range(rows) \subseteq Transaction \cup {Null}

JobsArePosted == \A w \in Workers : Job(w, "free") \/ worker[w].msg \in posted

NoncesAgree ==
  /\ \A tx \in pending : tx \in Transaction /\ tx.nonce = Len(chain)
  /\ \A tx1, tx2 \in pending : tx1.nonce = tx2.nonce => tx1 = tx2
  /\ \A i \in DOMAIN chain : chain[i].tx.nonce = i - 1

Logged == UNION {chain[i].logs : i \in DOMAIN chain}
Recorded == {[id |-> i - 1, hash |-> records[i]] : i \in DOMAIN records}

(* A stored hash is that of a transaction, the node has one transaction    *)
(* for a nonce at most and none for a mined one, and the contract's        *)
(* records are what its events say.                                        *)
TypeOK ==
  HashesAreTransactions /\ JobsArePosted /\ NoncesAgree /\ Logged = Recorded

(* A lookup never shows the record of another content, though transactions *)
(* take each other's place, jobs end halfway and rows share a digest.      *)
VerdictRight == \A digest \in Contents :
  \A answer \in verify_by_content(digest) : answer \subseteq {digest}

(* A content once found is found ever after, whichever row the query picks *)
(* and also when the message is deleted before its job has stored a hash   *)
(* (api.py:215-218).                                                       *)
VerdictStays ==
  [][\A digest \in Contents :
       {} \notin verify_by_content(digest)
         => {} \notin verify_by_content(digest)']_vars

(* No message is recorded twice, for no job sends twice.                   *)
RecordedOnce == \A digest \in Contents :
  Cardinality({i \in DOMAIN records : records[i] = digest})
    <= Cardinality({m \in posted : Digest[m] = digest})

(* Each job ends and leaves its worker to the next, even when another      *)
(* transaction has taken the place of its own: two jobs that wait for ever *)
(* would end all anchoring.                                                *)
JobsEnd == \A m \in Messages :
  (m \in Range(queue) \/ \E w \in Workers : worker[w].msg = m)
    ~> ~(m \in Range(queue) \/ \E w \in Workers : worker[w].msg = m)

(* api.py:225: when a digest is not found, "blockchain anchoring may still *)
(* be pending" and one should "try again in a few seconds".                *)
EventuallyVerified == \A m \in Messages :
  m \in posted ~> {} \notin verify_by_content(Digest[m])
=============================================================================
