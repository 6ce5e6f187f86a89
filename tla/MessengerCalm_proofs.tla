----------------------- MODULE MessengerCalm_proofs -----------------------
(***************************************************************************)
(* A conversation that nothing disturbs, for all numbers of messages and   *)
(* one-time keys and every MAX_SKIP: NothingDropped, ReceivedIsPrefix and  *)
(* SavedBeforeDeleted, from an inductive invariant that follows each       *)
(* message from the state that encrypts it to the one that will open it.   *)
(***************************************************************************)
EXTENDS Messenger_proofs

---------------------------------------------------------------------------
(* A conversation that nothing disturbs.                                   *)

(* No faults, one user who writes first, and one msg:fetch at a time.      *)
Calm ==
  /\ Faults = {}
  /\ \E u \in User : Writers \subseteq {u}
  /\ \E f \in Polls : Polls = {f}

Starter == CHOOSE u \in User : Writers \subseteq {u}
Answerer == Peer(Starter)
Poll == CHOOSE f \in Polls : TRUE

(* How many messages u has opened, and the rows of those it has not.       *)
Taken(u) ==
  Len(received[u]) +
    (IF fetch[u][Poll].pc = "delete" THEN 0 ELSE Len(fetch[u][Poll].done))

Unread(u) == {m \in ToSet(mailbox[u]) : m.text.n >= Taken(u)}
KeysRead(u) ==
  {m.messageKey : m \in {m \in ToSet(mailbox[u]) : m.text.n < Taken(u)}}

(* The mailbox is in the order of writing and has all that is unread, and  *)
(* the rest of it is what msg:fetch has opened and not deleted yet.        *)
BoxInOrder(u) ==
  /\ Taken(u) <= written[Peer(u)]
  /\ \A i, j \in DOMAIN mailbox[u] :
       i < j => mailbox[u][i].text.n < mailbox[u][j].text.n
  /\ \A n \in Taken(u)..(written[Peer(u)] - 1) :
       \E m \in ToSet(mailbox[u]) : m.text.n = n
  /\ \A m \in ToSet(mailbox[u]) :
       m.text.n < Taken(u) => m.text \in ToSet(fetch[u][Poll].done)

(* The n-th text of the peer of u.                                         *)
Nth(u, n) == [from |-> Peer(u), n |-> n]

(* msg:fetch goes on where the received log ends.                          *)
CallInOrder(u) ==
  LET call == fetch[u][Poll]
      length == Len(received[u])
  IN  /\ \A i \in DOMAIN call.queue :
           /\ call.queue[i].text.n = Taken(u) + i - 1
           /\ call.queue[i] \in ToSet(mailbox[u])
      /\ call.pc # "delete" =>
           \A i \in DOMAIN call.done : call.done[i] = Nth(u, length + i - 1)
      /\ call.pc = "delete" =>
           \A text \in ToSet(call.done) : text.n < length
      /\ call.pc \in {"idle", "log", "delete"} => call.queue = <<>>
      /\ call.pc = "idle" => call.done = <<>>

LogInOrder(u) ==
  /\ \A i \in DOMAIN received[u] : received[u][i] = Nth(u, i - 1)
  /\ dropped[u] = <<>>
  /\ opkMemory[u] = OpkId

(* The header h is that of the message after the first n on the chain pub, *)
(* or of the first on the chain after it.                                  *)
Continues(pub, n, h) ==
  \/ h.ratchetPublic = pub /\ h.Ns = n
  \/ h.ratchetPublic # pub /\ h.Ns = 0 /\ h.PN = n

(* The header that o would send next.                                      *)
NextHeader(o) == [ratchetPublic |-> o.localRatchet, Ns |-> o.Ns, PN |-> o.PN]

(* The reader st is on the chain that o writes on.                         *)
OnChain(st, o) ==
  /\ st.remoteRatchetPublic = o.localRatchet
  /\ st.receivingChainKey # Null
  /\ st.receivingChainKey.id = o.rootKey

(* The writer o is one step ahead of the reader.                           *)
Leads(o, st) ==
  /\ OnChain(o, st)
  /\ o.localRatchet # st.remoteRatchetPublic
  /\ o.rootKey =
       Append(st.rootKey, <<agree(o.localRatchet, st.localRatchet)>>)

(* The messages box, of numbers lo to hi - 1, continue what the reader has *)
(* heard without a gap up to where the writer is, and it can make their    *)
(* keys.                                                                   *)
Flows(st, o, box, lo, hi) ==
  /\ DOMAIN st.MKSKIPPED = {}
  /\ \A m \in box : m.text.n \in lo..(hi - 1)
  /\ \A m \in box : m.text.n = lo => Continues(st.remoteRatchetPublic, st.Nr, m)
  /\ \A m, x \in box :
       x.text.n = m.text.n + 1 => Continues(m.ratchetPublic, m.Ns + 1, x)
  /\ \A m \in box :
       m.text.n = hi - 1 => Continues(m.ratchetPublic, m.Ns + 1, NextHeader(o))
  /\ lo = hi => Continues(st.remoteRatchetPublic, st.Nr, NextHeader(o))
  /\ \A m, x \in box :
       m.text.n < x.text.n /\ m.ratchetPublic = o.localRatchet
         => x.ratchetPublic = o.localRatchet
  /\ \A m \in box :
       \/ /\ m.ratchetPublic = st.remoteRatchetPublic
          /\ st.receivingChainKey # Null
          /\ m.messageKey = [id |-> st.receivingChainKey.id, step |-> m.Ns]
       \/ /\ m.ratchetPublic = o.localRatchet
          /\ m.ratchetPublic # st.remoteRatchetPublic
          /\ m.messageKey = [id |-> o.rootKey, step |-> m.Ns]

WritesOn(o) == o.sendingChainKey = [id |-> o.rootKey, step |-> o.Ns]

(* The reader st has not answered o yet.                                   *)
Listens(st, o) ==
  /\ OnChain(st, o)
  /\ st.sendingChainKey = Null /\ st.rootKey = o.rootKey /\ st.Ns = 0
  /\ o.remoteRatchetPublic = st.localRatchet

(* The state that a first message m begins at its reader u.                *)
Greeted(u, m) ==
  initRatchetReceiver(
    x3dhReceive(KeysOf(u), [id \in OpkId |-> OpkOf(u, id)], m.x3dh),
    m, KeysOf(u).spk)

(* st is the state of u: that of its only session, that of the session     *)
(* which waits for deleteConsumedOpk, or that which the first message will *)
(* begin.                                                                  *)
Filed(u, st) ==
  /\ DOMAIN sessions[u] # {}
  /\ \E ref \in DOMAIN heap[u] :
       heap[u][ref] = st /\ \A k \in DOMAIN sessions[u] : sessions[u][k] = ref

Awaited(u, st) ==
  /\ DOMAIN sessions[u] = {} /\ Taken(u) = 0
  /\ fetch[u][Poll].pc = "opk" /\ st = heap[u][fetch[u][Poll].ref]

Heralded(u, st) ==
  /\ DOMAIN sessions[u] = {} /\ Taken(u) = 0
  /\ fetch[u][Poll].pc # "opk"
  /\ \E m \in ToSet(mailbox[u]) :
       m.text.n = 0 /\ m.x3dh # Null /\ st = Greeted(u, m)

(* A key pair that u has made.                                             *)
Made(u, key) == key[1] = u /\ key[2] \in 0..(generated[u] - 1)

Talk(a, b) ==
  /\ Filed(Starter, a)
  /\ Filed(Answerer, b) \/ Awaited(Answerer, b) \/ Heralded(Answerer, b)
  /\ Flows(b, a, Unread(Answerer), Taken(Answerer), written[Starter])
  /\ Flows(a, b, Unread(Starter), Taken(Starter), written[Answerer])
  /\ WritesOn(a)
  /\ \/ WritesOn(b) /\ (Leads(a, b) \/ Leads(b, a))
     \/ Listens(b, a) /\ written[Answerer] = 0
  /\ Made(Starter, a.localRatchet) /\ Made(Starter, b.remoteRatchetPublic)
  /\ Made(Answerer, b.localRatchet) /\ Made(Answerer, a.remoteRatchetPublic)

Silence ==
  \A u \in User : written[u] = 0 /\ DOMAIN sessions[u] = {}

InTouch ==
  \/ Silence
  \/ written[Starter] > 0 /\ \E a, b : Talk(a, b)

(* What was read is not to be had any more.                                *)
PastGone(u) ==
  /\ \A k \in DOMAIN sessions[u] : StateOK(heap[u][sessions[u][k]], KeysRead(u))
  /\ fetch[u][Poll].pc \in {"log", "delete"} =>
       \A k \in DOMAIN disk[u] : StateOK(disk[u][k], KeysRead(u))

ReaderOK(u) ==
  BoxInOrder(u) /\ CallInOrder(u) /\ LogInOrder(u) /\ PastGone(u)

QuietInv ==
  /\ \A u \in User : ReaderOK(u)
  /\ DOMAIN sessions[Answerer] \subseteq {"name"}
  /\ ~sending[Answerer]
  /\ fetch[Starter][Poll].pc # "opk"
  /\ fetch[Answerer][Poll].pc = "opk" => DOMAIN sessions[Answerer] = {}
  /\ InTouch

---------------------------------------------------------------------------
(* One message after the other, under ratchetEncrypt and ratchetDecrypt.   *)

(* What ratchetEncrypt changes.                                            *)
LEMMA EncryptMoves ==
  ASSUME NEW o, IsRatchetState(o), WritesOn(o)
  PROVE  LET enc == ratchetEncrypt(o)
             new == enc.st
         IN  /\ enc.messageKey = [id |-> o.rootKey, step |-> o.Ns]
             /\ enc.header = NextHeader(o)
             /\ WritesOn(new) /\ new.Ns = o.Ns + 1 /\ new.Ns \in Nat
             /\ new.rootKey = o.rootKey /\ new.localRatchet = o.localRatchet
             /\ new.remoteRatchetPublic = o.remoteRatchetPublic
             /\ new.receivingChainKey = o.receivingChainKey
             /\ new.Nr = o.Nr /\ new.PN = o.PN /\ new.MKSKIPPED = o.MKSKIPPED
<1> DEFINE ck == [id |-> o.rootKey, step |-> o.Ns]
           next == [id |-> o.rootKey, step |-> o.Ns + 1]
           count == o.Ns + 1
           new == [o EXCEPT !.sendingChainKey = next, !.Ns = count]
<1>1. o.sendingChainKey = ck /\ o.Ns \in Nat
  BY DEF WritesOn, IsRatchetState
<1>2. [ck EXCEPT !.step = @ + 1] = next
  OBVIOUS
<1>3. /\ ratchetEncrypt(o).messageKey = ck
      /\ ratchetEncrypt(o).st =
           [o EXCEPT !.sendingChainKey = next, !.Ns = @ + 1]
      /\ ratchetEncrypt(o).header = NextHeader(o)
  BY <1>1, <1>2 DEF ratchetEncrypt, kdfCk, NextHeader
<1>4. ratchetEncrypt(o).st = new
  BY <1>3
<1>5. /\ new.sendingChainKey = next /\ new.Ns = count
      /\ new.rootKey = o.rootKey /\ new.localRatchet = o.localRatchet
      /\ new.remoteRatchetPublic = o.remoteRatchetPublic
      /\ new.receivingChainKey = o.receivingChainKey
      /\ new.Nr = o.Nr /\ new.PN = o.PN /\ new.MKSKIPPED = o.MKSKIPPED
  <2> HIDE DEF next, count
  <2> QED
    BY DEF IsRatchetState
<1> HIDE DEF new
<1>6. WritesOn(new) /\ new.Ns \in Nat
  BY <1>1, <1>5 DEF WritesOn
<1> QED
  BY <1>3, <1>4, <1>5, <1>6

(* The numbers and the headers of the messages in box.                     *)
Lettered(box) ==
  \A m \in box : m.text.n \in Nat /\ m.ratchetPublic \in Key
                 /\ m.Ns \in Nat /\ m.PN \in Nat

(* A new message continues the flow.                                       *)
LEMMA PostFlows ==
  ASSUME NEW o, IsRatchetState(o), WritesOn(o),
         NEW st, NEW box, Lettered(box), NEW lo \in Nat, NEW hi \in Nat,
         lo <= hi, Flows(st, o, box, lo, hi), OnChain(st, o) \/ Leads(o, st),
         NEW m, m.text.n = hi, m.ratchetPublic = o.localRatchet,
         m.Ns = o.Ns, m.PN = o.PN, m.messageKey = ratchetEncrypt(o).messageKey
  PROVE  Flows(st, ratchetEncrypt(o).st, box \cup {m}, lo, hi + 1)
<1> DEFINE new == ratchetEncrypt(o).st
           all == box \cup {m}
<1>1. /\ m.messageKey = [id |-> o.rootKey, step |-> o.Ns]
      /\ new.Ns = o.Ns + 1 /\ o.Ns \in Nat
      /\ new.rootKey = o.rootKey /\ new.localRatchet = o.localRatchet
      /\ new.PN = o.PN
  BY EncryptMoves DEF IsRatchetState
<1> HIDE DEF new
<1>2. /\ \A x \in box : x.text.n \in lo..(hi - 1)
      /\ DOMAIN st.MKSKIPPED = {}
  BY DEF Flows
<1>3. \A x \in all : x.text.n \in lo..hi /\ (x.text.n = hi => x = m)
  BY <1>2
<1>4. NextHeader(o).ratchetPublic = m.ratchetPublic
      /\ NextHeader(o).Ns = m.Ns /\ NextHeader(o).PN = m.PN
  BY DEF NextHeader
<1>5. \A pub, n : Continues(pub, n, NextHeader(o)) => Continues(pub, n, m)
  BY <1>4 DEF Continues
<1>6. ASSUME NEW x \in all, x.text.n = lo
      PROVE  Continues(st.remoteRatchetPublic, st.Nr, x)
  <2>1. CASE x \in box
    BY <1>6, <2>1 DEF Flows
  <2>2. CASE x = m
    BY <1>5, <1>6, <2>2 DEF Flows
  <2> QED
    BY <2>1, <2>2
<1>7. ASSUME NEW x \in all, NEW y \in all, y.text.n = x.text.n + 1
      PROVE  Continues(x.ratchetPublic, x.Ns + 1, y)
  <2>1. x.text.n # hi /\ x \in box
    BY <1>3, <1>7
  <2>2. CASE y \in box
    BY <1>7, <2>1, <2>2 DEF Flows
  <2>3. CASE y = m
    <3>1. x.text.n = hi - 1
      BY <1>3, <1>7, <2>3
    <3> QED
      BY <1>5, <2>1, <2>3, <3>1 DEF Flows
  <2> QED
    BY <2>2, <2>3
<1>8. ASSUME NEW x \in all, x.text.n = (hi + 1) - 1
      PROVE  Continues(x.ratchetPublic, x.Ns + 1, NextHeader(new))
  <2>1. x = m
    BY <1>3, <1>8
  <2> QED
    BY <1>1, <2>1 DEF Continues, NextHeader
<1>9. ASSUME NEW x \in all, NEW y \in all, x.text.n < y.text.n,
             x.ratchetPublic = new.localRatchet
      PROVE  y.ratchetPublic = new.localRatchet
  <2>1. x.text.n # hi /\ x \in box
    BY <1>3, <1>9
  <2> QED
    BY <1>1, <1>9, <2>1 DEF Flows
<1>10. ASSUME NEW x \in all
       PROVE  \/ /\ x.ratchetPublic = st.remoteRatchetPublic
                 /\ st.receivingChainKey # Null
                 /\ x.messageKey =
                      [id |-> st.receivingChainKey.id, step |-> x.Ns]
              \/ /\ x.ratchetPublic = new.localRatchet
                 /\ x.ratchetPublic # st.remoteRatchetPublic
                 /\ x.messageKey = [id |-> new.rootKey, step |-> x.Ns]
  <2>1. CASE x \in box
    BY <1>1, <2>1 DEF Flows
  <2>2. CASE x = m
    BY <1>1, <2>2 DEF OnChain, Leads
  <2> QED
    BY <2>1, <2>2
<1>11. \A x \in all : x.text.n \in lo..((hi + 1) - 1)
  BY <1>3
<1>12. lo # hi + 1
  OBVIOUS
<1> HIDE DEF all
<1>13. Flows(st, new, all, lo, hi + 1)
  BY <1>2, <1>6, <1>7, <1>8, <1>9, <1>10, <1>11, <1>12 DEF Flows
<1> QED
  BY <1>13 DEF new, all

(* What the writer reads is not changed by its writing.                    *)
LEMMA PostReads ==
  ASSUME NEW o, IsRatchetState(o), WritesOn(o), NEW st
  PROVE  LET new == ratchetEncrypt(o).st
         IN  /\ \A box, lo, hi : Flows(o, st, box, lo, hi)
                                   => Flows(new, st, box, lo, hi)
             /\ OnChain(st, o) => OnChain(st, new)
             /\ Leads(o, st) => Leads(new, st)
             /\ Leads(st, o) => Leads(st, new)
             /\ Listens(st, o) => Listens(st, new)
<1> DEFINE new == ratchetEncrypt(o).st
<1>1. /\ new.rootKey = o.rootKey /\ new.localRatchet = o.localRatchet
      /\ new.remoteRatchetPublic = o.remoteRatchetPublic
      /\ new.receivingChainKey = o.receivingChainKey
      /\ new.Nr = o.Nr /\ new.MKSKIPPED = o.MKSKIPPED
  BY EncryptMoves
<1> HIDE DEF new
<1>2. OnChain(st, o) => OnChain(st, new)
  BY <1>1 DEF OnChain
<1>3. OnChain(o, st) => OnChain(new, st)
  BY <1>1 DEF OnChain
<1>4. ASSUME NEW box, NEW lo, NEW hi, Flows(o, st, box, lo, hi)
      PROVE  Flows(new, st, box, lo, hi)
  BY <1>1, <1>4 DEF Flows
<1> QED
  BY <1>1, <1>2, <1>3, <1>4 DEF Leads, Listens, new

(* The next message of the reader's chain opens.                           *)
LEMMA OpenOnChain ==
  ASSUME NEW st, NEW used, StateOK(st, used), DOMAIN st.MKSKIPPED = {},
         NEW m, m.ratchetPublic = st.remoteRatchetPublic, m.Ns = st.Nr,
         st.receivingChainKey # Null,
         m.messageKey = [id |-> st.receivingChainKey.id, step |-> m.Ns]
  PROVE  LET result == decryptOnChain(st, m)
             new == result.st
         IN  /\ result.outcome = "opened"
             /\ SameRatchet(st, new)
             /\ new.Nr = st.Nr + 1 /\ new.MKSKIPPED = st.MKSKIPPED
             /\ new.receivingChainKey # Null
             /\ new.receivingChainKey.id = st.receivingChainKey.id
<1> DEFINE rc == st.receivingChainKey
           next == [rc EXCEPT !.step = @ + 1]
           count == st.Nr + 1
           new == [st EXCEPT !.receivingChainKey = next, !.Nr = count]
<1>1. /\ IsRatchetState(st) /\ st.Nr \in Nat
      /\ rc \in ChainKey /\ rc.step = st.Nr
  BY DEF StateOK, IsRatchetState, ChainsOK, IsChainOf
<1>2. ~skipRefused(st, m.Ns)
  BY <1>1, MaxSkipAssumption DEF skipRefused
<1>3. {<<m.ratchetPublic, n>> : n \in st.Nr .. (m.Ns - 1)} = {}
  BY <1>1
<1>4. skipMessageKeys(st, m.ratchetPublic, m.Ns) = st
  BY <1>3 DEF skipMessageKeys
<1>5. rc = m.messageKey
  BY <1>1 DEF ChainKey
<1>6. /\ decryptOnChain(st, m).outcome = "opened"
      /\ decryptOnChain(st, m).st =
           [st EXCEPT !.receivingChainKey = next, !.Nr = @ + 1]
  BY <1>2, <1>4, <1>5 DEF decryptOnChain, kdfCk, gcmDecrypt
<1>7. decryptOnChain(st, m).st = new
  BY <1>6
<1>8. next \in ChainKey /\ next.id = rc.id
  BY <1>1 DEF ChainKey
<1>9. /\ new.Nr = count /\ new.MKSKIPPED = st.MKSKIPPED
      /\ new.receivingChainKey = next
  <2> HIDE DEF next, count
  <2> QED
    BY <1>1 DEF IsRatchetState
<1>10. SameRatchet(st, new)
  BY <1>1, <1>7, OnChainSameRatchet
<1> QED
  BY <1>6, <1>7, <1>8, <1>9, <1>10, NullAssumption

(* The first message of the writer's new chain opens, when the reader has  *)
(* read all of the chain before.                                           *)
LEMMA OpenNewChain ==
  ASSUME NEW st, NEW used, StateOK(st, used), DOMAIN st.MKSKIPPED = {},
         NEW o, Leads(o, st), NEW key \in Key,
         NEW m, m.ratchetPublic = o.localRatchet, m.ratchetPublic \in Key,
         m.Ns = 0, m.PN = st.Nr, m.messageKey = [id |-> o.rootKey, step |-> 0]
  PROVE  LET result == decryptNewChain(st, m, key)
             new == result.st
         IN  /\ result.outcome = "opened"
             /\ Stepped(st, new, m, key)
             /\ new.Nr = 1 /\ DOMAIN new.MKSKIPPED = {}
             /\ OnChain(new, o)
<1> DEFINE adv == advanceRatchet(st, m.ratchetPublic, key)
<1>1. /\ IsRatchetState(st) /\ st.Nr \in Nat
      /\ st.rootKey \in RootKey /\ st.localRatchet \in Key
  BY DEF StateOK, IsRatchetState
<1>2. ~skipRefused(st, m.PN)
  BY <1>1, MaxSkipAssumption DEF skipRefused
<1>3. {<<st.remoteRatchetPublic, n>> : n \in st.Nr .. (m.PN - 1)} = {}
  BY <1>1
<1>4. skipMessageKeys(st, st.remoteRatchetPublic, m.PN) = st
  BY <1>3 DEF skipMessageKeys
<1>5. decryptNewChain(st, m, key) = decryptOnChain(adv, m)
  BY <1>2, <1>4 DEF decryptNewChain
<1>6. StateOK(adv, used) /\ adv.remoteRatchetPublic = m.ratchetPublic
  BY AdvanceRatchetOK
<1>7. Stepped(st, adv, m, key)
  BY <1>1, AdvanceSteps DEF Leads
<1>8. /\ adv.Nr = 0 /\ adv.MKSKIPPED = st.MKSKIPPED
      /\ adv.receivingChainKey =
           kdfRk(st.rootKey, agree(st.localRatchet, m.ratchetPublic)).chainKey
  BY <1>1 DEF advanceRatchet, IsRatchetState
<1>9. agree(st.localRatchet, m.ratchetPublic)
        = agree(o.localRatchet, st.localRatchet)
  BY DEF agree
<1>10. adv.receivingChainKey = [id |-> o.rootKey, step |-> 0]
  BY <1>8, <1>9 DEF kdfRk, Leads
<1>11. kdfRk(st.rootKey, agree(st.localRatchet, m.ratchetPublic)).chainKey
         \in ChainKey
  BY <1>1, RootKeyGrows
<1>12. adv.receivingChainKey # Null /\ adv.receivingChainKey.id = o.rootKey
  BY <1>8, <1>10, <1>11, NullAssumption
<1> HIDE DEF adv
<1> DEFINE result == decryptOnChain(adv, m)
<1>13. /\ result.outcome = "opened" /\ SameRatchet(adv, result.st)
       /\ result.st.Nr = adv.Nr + 1 /\ result.st.MKSKIPPED = adv.MKSKIPPED
       /\ result.st.receivingChainKey # Null
       /\ result.st.receivingChainKey.id = adv.receivingChainKey.id
  BY <1>6, <1>8, <1>12, OpenOnChain
<1> HIDE DEF result
<1>14. Stepped(st, result.st, m, key)
  BY <1>7, <1>13 DEF Stepped, SameRatchet
<1>15. OnChain(result.st, o)
  BY <1>6, <1>12, <1>13 DEF OnChain, SameRatchet
<1> QED
  BY <1>5, <1>8, <1>13, <1>14, <1>15 DEF result

(* No other message in box has the number of m.                            *)
Alone(m, box) == \A x \in box : x.text.n = m.text.n => x = m

(* The message m opens, and the rest of box continues from there.          *)
Opens(st, o, box, lo, hi, m, key) ==
  LET result == ratchetDecrypt(st, m, key)
      new == result.st
  IN  /\ result.outcome = "opened"
      /\ Flows(new, o, box \ {m}, lo + 1, hi)
      /\ \/ /\ SameRatchet(st, new)
            /\ OnChain(st, o) => OnChain(new, o)
         \/ /\ Stepped(st, new, m, key)
            /\ Leads(o, st) /\ OnChain(new, o)
            /\ m.ratchetPublic = o.localRatchet

(* The next message does.                                                  *)
LEMMA OpenFlows ==
  ASSUME NEW st, NEW used, StateOK(st, used), NEW o, NEW key \in Key,
         NEW box, Lettered(box), NEW lo \in Nat, NEW hi \in Nat,
         Flows(st, o, box, lo, hi), OnChain(st, o) \/ Leads(o, st),
         NEW m \in box, m.text.n = lo, Alone(m, box)
  PROVE  Opens(st, o, box, lo, hi, m, key)
<1> DEFINE result == ratchetDecrypt(st, m, key)
           new == result.st
           rest == box \ {m}
<1>1. /\ DOMAIN st.MKSKIPPED = {}
      /\ Continues(st.remoteRatchetPublic, st.Nr, m)
      /\ \A x \in box : x.text.n \in lo..(hi - 1)
      /\ \A x \in box : x.text.n = lo => x = m
  BY DEF Flows, Alone
<1>2. m.ratchetPublic \in Key /\ m.Ns \in Nat
  BY DEF Lettered
<1>3. \A x \in rest : x \in box /\ x.text.n \in (lo + 1)..(hi - 1)
  BY <1>1
<1>4. ASSUME new.remoteRatchetPublic = m.ratchetPublic,
             new.Nr = m.Ns + 1, DOMAIN new.MKSKIPPED = {},
             \A x \in rest :
               \/ /\ x.ratchetPublic = new.remoteRatchetPublic
                  /\ new.receivingChainKey # Null
                  /\ x.messageKey =
                       [id |-> new.receivingChainKey.id, step |-> x.Ns]
               \/ /\ x.ratchetPublic = o.localRatchet
                  /\ x.ratchetPublic # new.remoteRatchetPublic
                  /\ x.messageKey = [id |-> o.rootKey, step |-> x.Ns]
      PROVE  Flows(new, o, rest, lo + 1, hi)
  <2> HIDE DEF new
  <2>1. ASSUME NEW x \in rest, x.text.n = lo + 1
        PROVE  Continues(new.remoteRatchetPublic, new.Nr, x)
    BY <1>3, <1>4, <2>1 DEF Flows
  <2>2. ASSUME lo + 1 = hi
        PROVE  Continues(new.remoteRatchetPublic, new.Nr, NextHeader(o))
    <3>1. m.text.n = hi - 1
      BY <2>2
    <3> QED
      BY <1>4, <3>1 DEF Flows
  <2>3. /\ \A x, y \in rest : y.text.n = x.text.n + 1 =>
             Continues(x.ratchetPublic, x.Ns + 1, y)
        /\ \A x \in rest : x.text.n = hi - 1 =>
             Continues(x.ratchetPublic, x.Ns + 1, NextHeader(o))
        /\ \A x, y \in rest :
             x.text.n < y.text.n /\ x.ratchetPublic = o.localRatchet
               => y.ratchetPublic = o.localRatchet
    BY <1>3 DEF Flows
  <2> QED
    BY <1>3, <1>4, <2>1, <2>2, <2>3 DEF Flows
<1>5. CASE m.ratchetPublic = st.remoteRatchetPublic
  <2>1. /\ m.Ns = st.Nr /\ st.receivingChainKey # Null
        /\ m.messageKey = [id |-> st.receivingChainKey.id, step |-> m.Ns]
    BY <1>1, <1>5 DEF Continues, Flows
  <2>2. result = decryptOnChain(st, m)
    BY <1>1, <1>5 DEF ratchetDecrypt
  <2>3. /\ result.outcome = "opened" /\ SameRatchet(st, new)
        /\ new.Nr = st.Nr + 1 /\ new.MKSKIPPED = st.MKSKIPPED
        /\ new.receivingChainKey # Null
        /\ new.receivingChainKey.id = st.receivingChainKey.id
    BY <1>1, <1>5, <2>1, <2>2, OpenOnChain
  <2> HIDE DEF result
  <2>4. new.remoteRatchetPublic = m.ratchetPublic
    BY <1>5, <2>3 DEF SameRatchet
  <2>5. Flows(new, o, rest, lo + 1, hi)
    <3>1. ASSUME NEW x \in rest
          PROVE  \/ /\ x.ratchetPublic = new.remoteRatchetPublic
                    /\ new.receivingChainKey # Null
                    /\ x.messageKey =
                         [id |-> new.receivingChainKey.id, step |-> x.Ns]
                 \/ /\ x.ratchetPublic = o.localRatchet
                    /\ x.ratchetPublic # new.remoteRatchetPublic
                    /\ x.messageKey = [id |-> o.rootKey, step |-> x.Ns]
      BY <1>5, <2>3, <2>4 DEF Flows
    <3> QED
      BY <1>1, <1>4, <2>1, <2>3, <2>4, <3>1
  <2>6. OnChain(st, o) => OnChain(new, o)
    BY <2>3 DEF OnChain, SameRatchet
  <2> QED
    BY <2>3, <2>5, <2>6 DEF result, Opens
<1>6. CASE m.ratchetPublic # st.remoteRatchetPublic
  <2>1. /\ m.Ns = 0 /\ m.PN = st.Nr /\ m.ratchetPublic = o.localRatchet
        /\ m.messageKey = [id |-> o.rootKey, step |-> 0]
    BY <1>1, <1>6 DEF Continues, Flows
  <2>2. Leads(o, st)
    BY <1>6, <2>1 DEF OnChain
  <2>3. result = decryptNewChain(st, m, key)
    BY <1>1, <1>6 DEF ratchetDecrypt
  <2>4. /\ result.outcome = "opened" /\ Stepped(st, new, m, key)
        /\ new.Nr = 1 /\ DOMAIN new.MKSKIPPED = {} /\ OnChain(new, o)
    BY <1>1, <1>2, <2>1, <2>2, <2>3, OpenNewChain
  <2> HIDE DEF result
  <2>5. /\ new.remoteRatchetPublic = m.ratchetPublic
        /\ new.receivingChainKey # Null
        /\ new.receivingChainKey.id = o.rootKey
    BY <2>4 DEF Stepped, OnChain
  <2>6. ASSUME NEW x \in rest
        PROVE  /\ x.ratchetPublic = o.localRatchet
               /\ x.messageKey = [id |-> o.rootKey, step |-> x.Ns]
    <3>1. m.text.n < x.text.n /\ x \in box
      BY <1>3
    <3>2. x.ratchetPublic = o.localRatchet
      BY <2>1, <3>1 DEF Flows
    <3> QED
      BY <1>6, <2>1, <3>1, <3>2 DEF Flows
  <2>7. Flows(new, o, rest, lo + 1, hi)
    BY <1>4, <2>1, <2>4, <2>5, <2>6
  <2> QED
    BY <2>1, <2>2, <2>4, <2>7 DEF result, Opens
<1> QED
  BY <1>5, <1>6

(* And what the reader has written flows on.                               *)
LEMMA OpenWrites ==
  ASSUME NEW o, NEW st, NEW new, NEW m, NEW key,
         NEW due, Lettered(due), NEW lo \in Nat, NEW hi \in Nat,
         Flows(o, st, due, lo, hi), st.Ns \in Nat,
         \/ SameRatchet(st, new)
         \/ /\ Stepped(st, new, m, key)
            /\ Leads(o, st) /\ OnChain(new, o)
            /\ m.ratchetPublic = o.localRatchet
            /\ key # st.localRatchet
  PROVE  /\ Flows(o, new, due, lo, hi)
         /\ Leads(o, st) => Leads(o, new) \/ Leads(new, o)
         /\ Leads(st, o) /\ OnChain(new, o) => Leads(new, o)
         /\ WritesOn(st) => WritesOn(new)
<1>1. CASE SameRatchet(st, new)
  <2>1. NextHeader(new) = NextHeader(st)
    BY <1>1 DEF SameRatchet, NextHeader
  <2>2. Flows(o, new, due, lo, hi)
    BY <1>1, <2>1 DEF Flows, SameRatchet
  <2> QED
    BY <1>1, <2>2 DEF Leads, OnChain, WritesOn, SameRatchet
<1>2. CASE /\ Stepped(st, new, m, key)
           /\ Leads(o, st) /\ OnChain(new, o)
           /\ m.ratchetPublic = o.localRatchet
           /\ key # st.localRatchet
  <2>1. /\ o.remoteRatchetPublic = st.localRatchet
        /\ o.rootKey =
             Append(st.rootKey, <<agree(o.localRatchet, st.localRatchet)>>)
    BY <1>2 DEF Leads, OnChain
  <2>2. /\ new.localRatchet = key /\ new.Ns = 0 /\ new.PN = st.Ns
        /\ WritesOn(new)
        /\ new.rootKey =
             Append(Append(st.rootKey,
                           <<agree(st.localRatchet, o.localRatchet)>>),
                    <<agree(key, o.localRatchet)>>)
    BY <1>2 DEF Stepped, WritesOn
  <2>3. agree(st.localRatchet, o.localRatchet)
          = agree(o.localRatchet, st.localRatchet)
    BY DEF agree
  <2>4. Leads(new, o)
    BY <1>2, <2>1, <2>2, <2>3 DEF Leads
  <2>5. \A x \in due : x.ratchetPublic = st.localRatchet
                       /\ x.ratchetPublic # key
    BY <1>2, <2>1 DEF Flows
  <2>6. \A n : Continues(st.localRatchet, n, NextHeader(st))
                 => Continues(st.localRatchet, n, NextHeader(new))
    BY <1>2, <2>2 DEF Continues, NextHeader
  <2>7. /\ \A x \in due : x.text.n = hi - 1 =>
             Continues(x.ratchetPublic, x.Ns + 1, NextHeader(new))
        /\ lo = hi => Continues(o.remoteRatchetPublic, o.Nr, NextHeader(new))
    BY <2>1, <2>5, <2>6 DEF Flows
  <2>8. Flows(o, new, due, lo, hi)
    BY <2>1, <2>2, <2>5, <2>7 DEF Flows
  <2> QED
    BY <2>2, <2>4, <2>8
<1> QED
  BY <1>1, <1>2

---------------------------------------------------------------------------
(* Sequences in order.                                                     *)

(* Numbers that go up and are those of an interval, all of them, go up by  *)
(* one.                                                                    *)
LEMMA OneByOne ==
  ASSUME NEW k \in Nat, NEW s \in [1..k -> Int], NEW a \in Int, NEW b \in Int,
         \A i, j \in 1..k : i < j => s[i] < s[j],
         \A i \in 1..k : s[i] \in a..b,
         \A n \in a..b : \E i \in 1..k : s[i] = n
  PROVE  \A i \in 1..k : s[i] = a + i - 1
<1> DEFINE T == {i \in 0..k : \A j \in 1..i : s[j] = a + j - 1}
<1>1. 0 \in T
  OBVIOUS
<1>2. ASSUME NEW i \in 0..(k - 1), i \in T PROVE i + 1 \in T
  <2>1. i + 1 \in 1..k /\ \A j \in 1..i : s[j] = a + j - 1
    BY <1>2
  <2>2. s[i + 1] >= a + i
    <3>1. CASE i = 0
      BY <2>1, <3>1
    <3>2. CASE i # 0
      <4>1. i \in 1..k /\ i < i + 1 /\ s[i] = a + i - 1
        BY <2>1, <3>2
      <4>2. s[i] < s[i + 1]
        BY <2>1, <4>1
      <4> QED
        BY <2>1, <4>1, <4>2
    <3> QED
      BY <3>1, <3>2
  <2>3. a + i \in a..b
    <3>1. s[i + 1] \in a..b
      BY <2>1
    <3> QED
      BY <2>2, <3>1
  <2>4. PICK x \in 1..k : s[x] = a + i
    BY <2>3
  <2>5. x >= i + 1
    <3>1. ASSUME x \in 1..i PROVE FALSE
      <4>1. s[x] = a + x - 1
        BY <2>1, <3>1
      <4> QED
        BY <2>4, <3>1, <4>1
    <3> QED
      BY <3>1
  <2>6. x = i + 1
    <3>1. ASSUME i + 1 < x PROVE FALSE
      <4>1. s[i + 1] < s[x]
        BY <2>1, <3>1
      <4> QED
        BY <2>1, <2>2, <2>4, <4>1
    <3> QED
      BY <2>5, <3>1
  <2>7. \A j \in 1..(i + 1) : s[j] = a + j - 1
    <3>1. \A j \in 1..(i + 1) : j \in 1..i \/ j = i + 1
      OBVIOUS
    <3>2. s[i + 1] = a + (i + 1) - 1
      BY <2>4, <2>6
    <3> QED
      BY <2>1, <3>1, <3>2
  <2> QED
    BY <2>1, <2>7
<1>3. T = 0..k
  <2>1. T \in SUBSET (0..k)
    OBVIOUS
  <2> HIDE DEF T
  <2> QED
    BY <1>1, <1>2, <2>1, Upwards
<1>4. k \in T
  <2> HIDE DEF T
  <2> QED
    BY <1>3
<1> QED
  BY <1>4

(* Kept leaves a sequence in order.                                        *)
LEMMA KeptOrder ==
  ASSUME NEW V, NEW s \in Seq(V), NEW S,
         \A i, j \in DOMAIN s : i < j => s[i].text.n < s[j].text.n
  PROVE  LET t == Kept(s, S)
         IN  \A i, j \in DOMAIN t : i < j => t[i].text.n < t[j].text.n
<1> DEFINE t == Kept(s, S)
<1>1. PICK h \in [DOMAIN t -> DOMAIN s] :
        /\ \A i, j \in DOMAIN t : i < j => h[i] < h[j]
        /\ \A i \in DOMAIN t : t[i] = s[h[i]]
  BY KeptPicks, SMTT(30)
<1> HIDE DEF t
<1>2. ASSUME NEW i \in DOMAIN t, NEW j \in DOMAIN t, i < j
      PROVE  t[i].text.n < t[j].text.n
  <2>1. h[i] \in DOMAIN s /\ h[j] \in DOMAIN s /\ h[i] < h[j]
    BY <1>1, <1>2
  <2> QED
    BY <1>1, <2>1
<1> QED
  BY <1>2 DEF t

(* When there is nothing to leave out it is the sequence itself.           *)
LEMMA KeptAll ==
  ASSUME NEW V, NEW s \in Seq(V), NEW S, ToSet(s) \subseteq S
  PROVE  Kept(s, S) = s
<1> DEFINE t == Kept(s, S)
<1>1. t \in Seq(V)
  BY KeptPicks
<1>2. PICK h \in [DOMAIN t -> DOMAIN s] :
        /\ \A i, j \in DOMAIN t : i < j => h[i] < h[j]
        /\ \A i \in DOMAIN t : t[i] = s[h[i]]
        /\ \A j \in DOMAIN s : s[j] \in S => \E i \in DOMAIN t : h[i] = j
  BY KeptPicks, SMTT(30)
<1> HIDE DEF t
<1> DEFINE k == Len(t)
           n == Len(s)
<1>3. k \in Nat /\ n \in Nat /\ DOMAIN t = 1..k /\ DOMAIN s = 1..n
  BY <1>1
<1> HIDE DEF k, n
<1>4. h \in [1..k -> Int]
  BY <1>2, <1>3
<1>5. \A i \in 1..k : h[i] \in 1..n
  BY <1>2, <1>3
<1>6. \A j \in 1..n : \E i \in 1..k : h[i] = j
  BY <1>2, <1>3 DEF ToSet
<1>7. \A i, j \in 1..k : i < j => h[i] < h[j]
  BY <1>2, <1>3
<1>8. \A i \in 1..k : h[i] = 1 + i - 1
  <2>1. 1 \in Int /\ n \in Int
    BY <1>3
  <2> QED
    BY <1>3, <1>4, <1>5, <1>6, <1>7, <2>1, OneByOne,
       ZenonT(30)
<1>9. \A i \in 1..k : h[i] = i
  BY <1>3, <1>8
<1>10. k = n
  <2>1. \A j \in 1..n : j \in 1..k
    BY <1>6, <1>9
  <2>2. \A i \in 1..k : i \in 1..n
    BY <1>5, <1>9
  <2>3. n = 0 \/ n \in 1..k
    <3>1. n = 0 \/ n \in 1..n
      BY <1>3
    <3> QED
      BY <2>1, <3>1, Zenon
  <2>4. k = 0 \/ k \in 1..n
    <3>1. k = 0 \/ k \in 1..k
      BY <1>3
    <3> QED
      BY <2>2, <3>1, Zenon
  <2> QED
    BY <1>3, <2>3, <2>4
<1>11. \A i \in 1..n : t[i] = s[i]
  BY <1>2, <1>3, <1>9, <1>10
<1> QED
  BY <1>1, <1>3, <1>10, <1>11 DEF t

(* A list without the element at i has all the others.                     *)
LEMMA RemoveAtRest ==
  ASSUME NEW V, NEW s \in Seq(V), NEW i \in DOMAIN s
  PROVE  /\ RemoveAt(s, i) \in Seq(V)
         /\ ToSet(RemoveAt(s, i)) \subseteq ToSet(s)
         /\ ToSet(s) \subseteq ToSet(RemoveAt(s, i)) \cup {s[i]}
<1> DEFINE n == Len(s)
           a == SubSeq(s, 1, i - 1)
           b == SubSeq(s, i + 1, n)
           t == RemoveAt(s, i)
<1>1. n \in Nat /\ i \in 1..n /\ \A j \in 1..n : s[j] \in V
  OBVIOUS
<1>2. t = a \o b
  BY DEF RemoveAt
<1>3. /\ a \in Seq(V) /\ Len(a) = i - 1
      /\ \A j \in 1..(i - 1) : a[j] = s[j]
  BY <1>1
<1>4. /\ b \in Seq(V) /\ Len(b) = n - i
      /\ \A j \in 1..(n - i) : b[j] = s[i + j]
  BY <1>1
<1> HIDE DEF a, b, n
<1>5. /\ t \in Seq(V) /\ Len(t) = n - 1
      /\ \A j \in 1..(n - 1) : t[j] = IF j < i THEN s[j] ELSE s[j + 1]
  <2>1. /\ t \in Seq(V) /\ Len(t) = (i - 1) + (n - i)
        /\ \A j \in 1..((i - 1) + (n - i)) :
             t[j] = IF j <= i - 1 THEN a[j] ELSE b[j - (i - 1)]
    BY <1>2, <1>3, <1>4, ConcatProperties, SMTT(30)
  <2>2. (i - 1) + (n - i) = n - 1
    BY <1>1
  <2>3. ASSUME NEW j \in 1..(n - 1)
        PROVE  t[j] = IF j < i THEN s[j] ELSE s[j + 1]
    <3>1. CASE j < i
      BY <1>1, <1>3, <2>1, <2>2, <3>1
    <3>2. CASE ~(j < i)
      <4>1. j - (i - 1) \in 1..(n - i) /\ i + (j - (i - 1)) = j + 1
        BY <1>1, <3>2
      <4>2. t[j] = b[j - (i - 1)]
        BY <1>1, <2>1, <2>2, <3>2
      <4> QED
        BY <1>4, <3>2, <4>1, <4>2
    <3> QED
      BY <3>1, <3>2
  <2> QED
    BY <2>1, <2>2, <2>3
<1>6. DOMAIN t = 1..(n - 1) /\ DOMAIN s = 1..n
  BY <1>5 DEF n
<1> HIDE DEF t
<1>7. ASSUME NEW j \in DOMAIN t PROVE t[j] \in ToSet(s)
  <2>1. j \in DOMAIN s /\ j + 1 \in DOMAIN s
    BY <1>1, <1>6
  <2> QED
    BY <1>5, <1>6, <2>1 DEF ToSet
<1>8. ASSUME NEW j \in DOMAIN s, j # i PROVE s[j] \in ToSet(t)
  <2>1. CASE j < i
    <3>1. j \in DOMAIN t /\ t[j] = s[j]
      BY <1>1, <1>5, <1>6, <2>1
    <3> QED
      BY <3>1 DEF ToSet
  <2>2. CASE j > i
    <3>1. j - 1 \in DOMAIN t /\ ~(j - 1 < i) /\ (j - 1) + 1 = j
      BY <1>1, <1>6, <2>2
    <3>2. t[j - 1] = s[j]
      BY <1>5, <1>6, <3>1
    <3> QED
      BY <3>1, <3>2 DEF ToSet
  <2> QED
    BY <1>1, <1>6, <1>8, <2>1, <2>2
<1> QED
  BY <1>5, <1>7, <1>8 DEF ToSet, t

---------------------------------------------------------------------------
(* How a conversation begins.                                              *)

(* A first answer: the DH step makes the listener the one that leads.      *)
LEMMA AnswerFlows ==
  ASSUME NEW b, IsRatchetState(b), NEW a, Listens(b, a),
         NEW key \in Key, key # b.localRatchet,
         NEW due, NEW n \in Nat, Flows(a, b, due, n, n),
         NEW box, NEW lo, NEW hi, Flows(b, a, box, lo, hi)
  PROVE  LET new == dhRatchetStep(b, key)
         IN  /\ WritesOn(new) /\ Leads(new, a)
             /\ Flows(a, new, due, n, n) /\ Flows(new, a, box, lo, hi)
             /\ new.localRatchet = key
             /\ new.remoteRatchetPublic = b.remoteRatchetPublic
<1> DEFINE d == kdfRk(b.rootKey, agree(key, b.remoteRatchetPublic))
           new == dhRatchetStep(b, key)
<1>1. /\ new.rootKey = d.rootKey /\ new.sendingChainKey = d.chainKey
      /\ new.localRatchet = key /\ new.Ns = 0 /\ new.PN = b.Ns
      /\ new.remoteRatchetPublic = b.remoteRatchetPublic
      /\ new.receivingChainKey = b.receivingChainKey
      /\ new.Nr = b.Nr /\ new.MKSKIPPED = b.MKSKIPPED
  <2> HIDE DEF d
  <2>1. new = [b EXCEPT !.PN = b.Ns, !.Ns = 0, !.rootKey = d.rootKey,
                        !.sendingChainKey = d.chainKey, !.localRatchet = key]
    BY DEF dhRatchetStep, d
  <2> QED
    BY <2>1 DEF IsRatchetState
<1>2. /\ d.rootKey =
           Append(b.rootKey, <<agree(key, b.remoteRatchetPublic)>>)
      /\ d.chainKey = [id |-> d.rootKey, step |-> 0]
  BY DEF kdfRk
<1> HIDE DEF d, new
<1>3. /\ OnChain(b, a) /\ b.rootKey = a.rootKey /\ b.Ns = 0
      /\ a.remoteRatchetPublic = b.localRatchet
      /\ b.remoteRatchetPublic = a.localRatchet
  BY DEF Listens, OnChain
<1>4. WritesOn(new)
  BY <1>1, <1>2 DEF WritesOn
<1>5. Leads(new, a)
  BY <1>1, <1>2, <1>3 DEF Leads, OnChain
<1>6. Flows(new, a, box, lo, hi)
  BY <1>1 DEF Flows
<1>7. due = {}
  <2>1. n..(n - 1) = {}
    OBVIOUS
  <2> QED
    BY <2>1 DEF Flows
<1>8. a.Nr = 0 /\ DOMAIN a.MKSKIPPED = {}
  BY <1>3 DEF Flows, Continues, NextHeader
<1>9. Continues(a.remoteRatchetPublic, a.Nr, NextHeader(new))
  BY <1>1, <1>3, <1>8 DEF Continues, NextHeader
<1>10. Flows(a, new, due, n, n)
  BY <1>7, <1>8, <1>9 DEF Flows
<1> QED
  BY <1>1, <1>4, <1>5, <1>6, <1>10 DEF new

(* The states of a first message m under the secret rk: its reader is on   *)
(* the writer's chain and has not answered.                                *)
FirstPair(rk, spk, key, m) ==
  LET a == ratchetEncrypt(initRatchet(rk, spk, key)).st
      b == initRatchetReceiver(rk, m, spk)
  IN  /\ WritesOn(a) /\ Listens(b, a)
      /\ Flows(b, a, {m}, 0, 1) /\ Flows(a, b, {}, 0, 0)
      /\ a.localRatchet = key /\ a.remoteRatchetPublic = spk
      /\ b.localRatchet = spk /\ b.remoteRatchetPublic = key

(* A first message, under initRatchet and initRatchetReceiver.             *)
LEMMA FirstFlows ==
  ASSUME NEW rk \in RootKey, NEW spk \in Key, NEW key \in Key,
         NEW m, m.ratchetPublic = key, m.Ns = 0, m.PN = 0, m.text.n = 0,
         m.messageKey = ratchetEncrypt(initRatchet(rk, spk, key)).messageKey
  PROVE  FirstPair(rk, spk, key, m)
<1> DEFINE o == initRatchet(rk, spk, key)
           a == ratchetEncrypt(o).st
           b == initRatchetReceiver(rk, m, spk)
           d == kdfRk(rk, agree(key, spk))
<1>1. /\ d.rootKey \in RootKey /\ d.chainKey \in ChainKey
      /\ d.chainKey = [id |-> d.rootKey, step |-> 0]
  BY RootKeyGrows
<1>2. kdfRk(rk, agree(spk, m.ratchetPublic)) = d
  <2>1. agree(spk, m.ratchetPublic) = agree(key, spk)
    BY DEF agree
  <2> QED
    BY <2>1
<1> HIDE DEF d
<1>3. /\ IsRatchetState(o)
      /\ o.rootKey = d.rootKey /\ o.sendingChainKey = d.chainKey
      /\ o.localRatchet = key /\ o.remoteRatchetPublic = spk
      /\ o.Ns = 0 /\ o.Nr = 0 /\ o.PN = 0 /\ o.MKSKIPPED = NoKeys
  BY InitRatchetOK DEF initRatchet, StateOK, d
<1>4. /\ b.rootKey = d.rootKey /\ b.receivingChainKey = d.chainKey
      /\ b.sendingChainKey = Null
      /\ b.localRatchet = spk /\ b.remoteRatchetPublic = key
      /\ b.Ns = 0 /\ b.Nr = 0 /\ b.PN = 0 /\ b.MKSKIPPED = NoKeys
  BY <1>2 DEF initRatchetReceiver
<1>5. DOMAIN NoKeys = {}
  BY NoKeysIsCache
<1>6. m.messageKey = ratchetEncrypt(o).messageKey
  OBVIOUS
<1> HIDE DEF o, b
<1>7. WritesOn(o)
  BY <1>1, <1>3 DEF WritesOn
<1>8. OnChain(b, o) /\ Listens(b, o)
  BY <1>1, <1>3, <1>4, NullAssumption DEF OnChain, Listens
<1>9. Flows(b, o, {}, 0, 0)
  BY <1>3, <1>4, <1>5 DEF Flows, Continues, NextHeader
<1>10. Flows(o, b, {}, 0, 0)
  BY <1>3, <1>4, <1>5 DEF Flows, Continues, NextHeader
<1>11. Flows(b, a, {} \cup {m}, 0, 0 + 1)
  <2>1. Lettered({}) /\ 0 \in Nat /\ 0 <= 0
    BY DEF Lettered
  <2>2. m.ratchetPublic = o.localRatchet /\ m.Ns = o.Ns /\ m.PN = o.PN
    BY <1>3
  <2> QED
    BY <1>3, <1>6, <1>7, <1>8, <1>9, <2>1, <2>2, PostFlows
<1>12. Listens(b, a) /\ Flows(a, b, {}, 0, 0)
  BY <1>3, <1>7, <1>8, <1>10, PostReads
<1>13. WritesOn(a) /\ a.localRatchet = key /\ a.remoteRatchetPublic = spk
  BY <1>3, <1>7, EncryptMoves
<1>14. {} \cup {m} = {m} /\ 0 + 1 = 1
  OBVIOUS
<1> QED
  BY <1>4, <1>11, <1>12, <1>13, <1>14 DEF FirstPair, o, b

(* X3DH gives both the same.                                               *)
LEMMA SameSecret ==
  ASSUME NEW u \in User, NEW id \in OpkId \cup {Null}, NEW n \in Nat
  PROVE  LET p == Peer(u)
             eph == <<u, n>>
             bundle == [ikDh |-> KeysOf(p).ikDh, spk |-> KeysOf(p).spk,
                        opk |-> IF id = Null THEN Null ELSE OpkOf(p, id)]
             x3dh == [eph |-> eph, ikDh |-> KeysOf(u).ikDh, opkId |-> id]
         IN  x3dhSend(KeysOf(u), eph, bundle)
               = x3dhReceive(KeysOf(p), [i \in OpkId |-> OpkOf(p, i)], x3dh)
<1> DEFINE p == Peer(u)
           eph == <<u, n>>
           opk == IF id = Null THEN Null ELSE OpkOf(p, id)
<1>1. p \in Parties
  BY Peers DEF User
<1>2. id # Null => opk # Null /\ opk = OpkOf(p, id)
  <2>1. id # Null => OpkOf(p, id) \in Key
    BY <1>1, BoundsAssumption DEF OpkOf, Key, OpkId
  <2> QED
    BY <2>1, NullIsNoKeyAssumption
<1>3. \A x, y : agree(x, y) = agree(y, x)
  BY DEF agree
<1>4. CASE id = Null
  BY <1>3, <1>4 DEF x3dhSend, x3dhReceive, KeysOf
<1>5. CASE id # Null
  <2>1. [i \in OpkId |-> OpkOf(p, i)][id] = opk
    BY <1>2, <1>5
  <2> HIDE DEF opk, p
  <2> QED
    BY <1>2, <1>3, <1>5, <2>1 DEF x3dhSend, x3dhReceive, KeysOf, p, opk
<1> QED
  BY <1>4, <1>5

(* The state that a first message begins is a sound one.                   *)
LEMMA GreetedFine ==
  ASSUME NEW u \in User, NEW m \in MessageTo(u), m.x3dh # Null
  PROVE  StateFine(Greeted(u, m))
<1>1. /\ m.x3dh \in [eph : {Peer(u)} \X Nat, ikDh : {<<Peer(u), 0>>},
                     opkId : OpkId \cup {Null}]
      /\ m.x3dh.opkId \in OpkId \cup {Null} /\ m.ratchetPublic \in Key
  BY DEF MessageTo
<1>2. KeysOf(u).spk \in Key
  BY DEF KeysOf, Key, User
<1> DEFINE rk == x3dhReceive(KeysOf(u), [id \in OpkId |-> OpkOf(u, id)], m.x3dh)
<1>3. OpkId \in SUBSET OpkId
  OBVIOUS
<1>4. rk \in RootKey /\ rk # <<>>
  BY <1>1, <1>3, BegunReceive, ZenonT(30)
<1> HIDE DEF rk
<1> QED
  BY <1>1, <1>2, <1>4, InitReceiverFine DEF Greeted, rk

---------------------------------------------------------------------------
(* The parts of the invariant.                                             *)

(* The users, the one poll and the faults of a calm conversation.          *)
LEMMA CalmFacts ==
  ASSUME Calm
  PROVE  /\ Polls = {Poll} /\ Poll \in Polls
         /\ Starter \in User /\ Answerer \in User /\ Starter # Answerer
         /\ Peer(Starter) = Answerer /\ Peer(Answerer) = Starter
         /\ \A u \in User : u = Starter \/ u = Answerer
         /\ Writers \subseteq {Starter}
         /\ \A kind : ~MayHappen(kind)
<1>1. Polls = {Poll} /\ Poll \in Polls
  BY DEF Calm, Poll
<1>2. Starter \in User /\ Writers \subseteq {Starter}
  BY DEF Calm, Starter
<1>3. /\ Answerer \in User /\ Answerer # Starter /\ Peer(Answerer) = Starter
      /\ \A u \in User : u # Starter => u = Answerer
  BY <1>2, Peers DEF Answerer
<1>4. \A kind : ~MayHappen(kind)
  BY DEF Calm, MayHappen
<1> QED
  BY <1>1, <1>2, <1>3, <1>4 DEF Answerer

(* What is in a mailbox.                                                   *)
LEMMA MailFacts ==
  ASSUME MessengerInv, NEW u \in User
  PROVE  /\ mailbox[u] \in Seq(MessageTo(u))
         /\ \A m \in ToSet(mailbox[u]) :
              /\ m \in MessageTo(u) /\ m.text = Nth(u, m.text.n)
              /\ m.text.n \in Nat /\ m.text.n < written[Peer(u)]
         /\ \A m, x \in ToSet(mailbox[u]) : m.text.n = x.text.n => m = x
         /\ Lettered(ToSet(mailbox[u])) /\ Lettered(Unread(u))
         /\ written[u] \in Nat
<1>1. MailOK(u) /\ written[u] \in Nat
  BY DEF MessengerInv, ClientOK, LogsOK
<1>2. mailbox[u] \in Seq(MessageTo(u)) /\ Distinct(mailbox[u])
  BY <1>1 DEF MailOK
<1>3. ASSUME NEW m \in ToSet(mailbox[u])
      PROVE  /\ m \in MessageTo(u) /\ m.text = Nth(u, m.text.n)
             /\ m.text.n \in Nat /\ m.text.n < written[Peer(u)]
  <2>1. PICK i \in DOMAIN mailbox[u] : m = mailbox[u][i]
    BY DEF ToSet
  <2>2. m \in MessageTo(u) /\ m.text.n < written[Peer(u)]
    BY <1>1, <1>2, <2>1 DEF MailOK
  <2>3. m.text \in Text /\ m.text.from = Peer(u)
    BY <2>2 DEF MessageTo
  <2>4. PICK v \in User : m.text \in [from : {v}, n : 0..(Writes[v] - 1)]
    BY <2>3 DEF Text
  <2>5. Writes[v] \in Nat
    BY BoundsAssumption DEF User
  <2>6. m.text = [from |-> m.text.from, n |-> m.text.n] /\ m.text.n \in Nat
    BY <2>4, <2>5
  <2> QED
    BY <2>2, <2>3, <2>6 DEF Nth
<1>4. ASSUME NEW m \in ToSet(mailbox[u]), NEW x \in ToSet(mailbox[u]),
             m.text.n = x.text.n
      PROVE  m = x
  <2>1. m.text = x.text
    BY <1>3, <1>4
  <2> QED
    BY <1>2, <2>1 DEF ToSet, Distinct
<1>5. Lettered(ToSet(mailbox[u]))
  BY <1>3 DEF Lettered, MessageTo
<1>6. Lettered(Unread(u))
  BY <1>5 DEF Lettered, Unread
<1> QED
  BY <1>1, <1>2, <1>3, <1>4, <1>5, <1>6

(* The call of msg:fetch, and the number of messages that u has opened.    *)
LEMMA CallFacts ==
  ASSUME Calm, MessengerInv, NEW u \in User
  PROVE  /\ DOMAIN fetch = User /\ DOMAIN fetch[u] = {Poll}
         /\ IsCall(u, fetch[u][Poll])
         /\ fetch[u][Poll].queue \in Seq(MessageTo(u))
         /\ fetch[u][Poll].done \in Seq(Text)
         /\ received[u] \in Seq(Text)
         /\ Len(received[u]) \in Nat
         /\ Taken(u) \in Nat /\ Taken(u) >= Len(received[u])
<1>1. /\ DOMAIN fetch = User /\ DOMAIN fetch[u] = {Poll}
      /\ IsCall(u, fetch[u][Poll]) /\ received[u] \in Seq(Text)
  BY CalmFacts DEF MessengerInv, DomainsOK, ClientOK, CallsOK, LogsOK
<1>2. /\ fetch[u][Poll].queue \in Seq(MessageTo(u))
      /\ fetch[u][Poll].done \in Seq(Text)
  BY <1>1 DEF IsCall
<1>3. Len(received[u]) \in Nat /\ Len(fetch[u][Poll].done) \in Nat
  BY <1>1, <1>2
<1>4. Taken(u) \in Nat /\ Taken(u) >= Len(received[u])
  <2> DEFINE a == Len(received[u])
             b == Len(fetch[u][Poll].done)
  <2>1. a \in Nat /\ b \in Nat /\ Taken(u) \in {a + 0, a + b}
    BY <1>3 DEF Taken
  <2> HIDE DEF a, b
  <2>2. Taken(u) \in Nat /\ Taken(u) >= a
    BY <2>1
  <2> QED
    BY <2>2 DEF a
<1> QED
  BY <1>1, <1>2, <1>3, <1>4

(* What a step does not touch.                                             *)
LEMMA OtherReader ==
  ASSUME NEW v, ReaderOK(v),
         mailbox'[v] = mailbox[v], fetch'[v] = fetch[v],
         received'[v] = received[v], dropped'[v] = dropped[v],
         opkMemory'[v] = opkMemory[v], sessions'[v] = sessions[v],
         heap'[v] = heap[v], disk'[v] = disk[v],
         written'[Peer(v)] = written[Peer(v)]
  PROVE  /\ ReaderOK(v)' /\ Taken(v)' = Taken(v) /\ Unread(v)' = Unread(v)
<1>1. Taken(v)' = Taken(v)
  BY DEF Taken
<1>2. Unread(v)' = Unread(v) /\ KeysRead(v)' = KeysRead(v)
  BY <1>1 DEF Unread, KeysRead
<1>3. BoxInOrder(v)'
  BY <1>1 DEF ReaderOK, BoxInOrder
<1>4. CallInOrder(v)'
  BY <1>1 DEF ReaderOK, CallInOrder
<1>5. LogInOrder(v)'
  BY DEF ReaderOK, LogInOrder
<1>6. PastGone(v)'
  BY <1>2 DEF ReaderOK, PastGone
<1> QED
  BY <1>1, <1>2, <1>3, <1>4, <1>5, <1>6 DEF ReaderOK

(* A step that moves no session and opens no message.                      *)
LEMMA TalkMoves ==
  ASSUME InTouch, UNCHANGED <<heap, sessions, written, generated>>,
         \A v \in {Starter, Answerer} :
           /\ Taken(v)' = Taken(v) /\ Unread(v)' = Unread(v)
           /\ fetch'[v][Poll].pc = "opk" <=> fetch[v][Poll].pc = "opk"
           /\ fetch'[v][Poll].pc = "opk" =>
                fetch'[v][Poll].ref = fetch[v][Poll].ref
  PROVE  InTouch'
<1>1. CASE Silence
  BY <1>1 DEF InTouch, Silence
<1>2. CASE written[Starter] > 0 /\ \E a, b : Talk(a, b)
  <2>1. PICK a, b : Talk(a, b)
    BY <1>2
  <2>2. Filed(Starter, a)'
    BY <2>1 DEF Talk, Filed
  <2>3. Filed(Answerer, b) => Filed(Answerer, b)'
    BY DEF Filed
  <2>4. Awaited(Answerer, b) => Awaited(Answerer, b)'
    BY DEF Awaited
  <2>5. ASSUME Heralded(Answerer, b) PROVE Heralded(Answerer, b)'
    <3>1. PICK m \in ToSet(mailbox[Answerer]) :
            m.text.n = 0 /\ m.x3dh # Null /\ b = Greeted(Answerer, m)
      BY <2>5 DEF Heralded
    <3>2. Taken(Answerer) = 0 /\ m \in Unread(Answerer)
      BY <2>5, <3>1 DEF Heralded, Unread
    <3>3. m \in ToSet(mailbox[Answerer])'
      BY <3>2 DEF Unread
    <3> QED
      BY <2>5, <3>1, <3>3 DEF Heralded
  <2>6. /\ Flows(b, a, Unread(Answerer), Taken(Answerer), written[Starter])'
        /\ Flows(a, b, Unread(Starter), Taken(Starter), written[Answerer])'
    BY <2>1 DEF Talk
  <2>7. /\ Made(Starter, a.localRatchet)'
        /\ Made(Starter, b.remoteRatchetPublic)'
        /\ Made(Answerer, b.localRatchet)'
        /\ Made(Answerer, a.remoteRatchetPublic)'
    BY <2>1 DEF Talk, Made
  <2>8. Talk(a, b)'
    BY <2>1, <2>2, <2>3, <2>4, <2>5, <2>6, <2>7 DEF Talk
  <2> QED
    BY <1>2, <2>8 DEF InTouch
<1> QED
  BY <1>1, <1>2 DEF InTouch

---------------------------------------------------------------------------
(* Steps that open nothing and send nothing.                               *)

(* What becomes of one user's msg:fetch, while the messages that are open  *)
(* stay the same.                                                          *)
LEMMA QuietMove ==
  ASSUME Calm, QuietInv, NEW u \in User,
         UNCHANGED <<heap, sessions, opkMemory, written, generated, dropped>>,
         \A v \in User \ {u} :
           /\ mailbox'[v] = mailbox[v] /\ fetch'[v] = fetch[v]
           /\ received'[v] = received[v] /\ disk'[v] = disk[v],
         ReaderOK(u)', Taken(u)' = Taken(u), Unread(u)' = Unread(u),
         fetch'[u][Poll].pc = "opk" <=> fetch[u][Poll].pc = "opk",
         fetch'[u][Poll].pc = "opk" =>
           fetch'[u][Poll].ref = fetch[u][Poll].ref,
         ~sending'[Answerer]
  PROVE  QuietInv'
<1>1. /\ Starter \in User /\ Answerer \in User
      /\ \A v \in User : ReaderOK(v)
      /\ DOMAIN sessions[Answerer] \subseteq {"name"}
      /\ fetch[Starter][Poll].pc # "opk"
      /\ fetch[Answerer][Poll].pc = "opk" => DOMAIN sessions[Answerer] = {}
      /\ InTouch
  BY CalmFacts DEF QuietInv
<1>2. ASSUME NEW v \in User
      PROVE  /\ ReaderOK(v)' /\ Taken(v)' = Taken(v) /\ Unread(v)' = Unread(v)
             /\ fetch'[v][Poll].pc = "opk" <=> fetch[v][Poll].pc = "opk"
             /\ fetch'[v][Poll].pc = "opk" =>
                  fetch'[v][Poll].ref = fetch[v][Poll].ref
  <2>1. CASE v = u
    BY <2>1
  <2>2. CASE v # u
    <3>1. ReaderOK(v)' /\ Taken(v)' = Taken(v) /\ Unread(v)' = Unread(v)
      BY <1>1, <2>2, OtherReader
    <3> QED
      BY <2>2, <3>1
  <2> QED
    BY <2>1, <2>2
<1>3. InTouch'
  BY <1>1, <1>2, TalkMoves
<1> QED
  BY <1>1, <1>2, <1>3 DEF QuietInv

(* A step that changes nothing.                                            *)
LEMMA StutterQuiet ==
  ASSUME Calm, QuietInv, UNCHANGED vars
  PROVE  QuietInv'
<1>1. UNCHANGED <<heap, sessions, opkMemory, written, generated, dropped,
                  mailbox, fetch, received, disk, sending>>
  BY DEF vars, server, memory, files, history
<1>2. Starter \in User /\ ReaderOK(Starter) /\ ~sending[Answerer]
  BY CalmFacts DEF QuietInv
<1>3. /\ ReaderOK(Starter)' /\ Taken(Starter)' = Taken(Starter)
      /\ Unread(Starter)' = Unread(Starter)
  BY <1>1, <1>2, OtherReader
<1> QED
  BY <1>1, <1>2, <1>3, QuietMove

(* Only the user who writes first asks for a bundle: whoever has received  *)
(* a message has the session under the name.                               *)
LEMMA RequestBundleQuiet ==
  ASSUME Calm, MessengerInv, QuietInv, NEW u \in User, RequestBundle(u)
  PROVE  QuietInv'
<1>1. /\ UNCHANGED <<heap, sessions, opkMemory, written, generated, dropped,
                     mailbox, fetch, received, disk>>
      /\ sending' = [sending EXCEPT ![u] = TRUE]
      /\ "name" \notin DOMAIN sessions[u]
      /\ u \in Writers \/ received[u] # <<>>
  BY DEF RequestBundle, MayWrite, server, files, history
<1>2. /\ Starter # Answerer /\ Writers \subseteq {Starter}
      /\ Answerer \in User /\ Peer(Answerer) = Starter
  BY CalmFacts
<1>3. u # Answerer
  <2> SUFFICES ASSUME u = Answerer PROVE FALSE
    OBVIOUS
  <2>1. received[u] # <<>> /\ received[u] \in Seq(Text)
    BY <1>1, <1>2, CallFacts
  <2>2. Len(received[u]) > 0
    BY <2>1
  <2>3. Taken(u) > 0
    BY <2>2, CallFacts
  <2>4. Taken(u) <= written[Starter] /\ written[Starter] \in Nat
    BY <1>2, CalmFacts, MailFacts DEF QuietInv, ReaderOK, BoxInOrder
  <2>5. ~Silence
    BY <2>3, <2>4, CallFacts, CalmFacts DEF Silence
  <2>6. PICK a, b : Talk(a, b)
    BY <2>5 DEF QuietInv, InTouch
  <2>7. Filed(u, b)
    BY <2>3, <2>6 DEF Talk, Awaited, Heralded
  <2> QED
    BY <1>1, <2>7 DEF Filed, QuietInv
<1>4. ~sending'[Answerer]
  BY <1>1, <1>2, <1>3 DEF QuietInv, MessengerInv, DomainsOK
<1>5. ReaderOK(u)' /\ Taken(u)' = Taken(u) /\ Unread(u)' = Unread(u)
  BY <1>1, OtherReader DEF QuietInv
<1> QED
  BY <1>1, <1>4, <1>5, QuietMove

(* A poll begins: its queue has the rows from the next message on, in      *)
(* order and without a gap.                                                *)
LEMMA StartFetchQuiet ==
  ASSUME Calm, MessengerInv, QuietInv, NEW u \in User, NEW f \in Polls,
         StartFetch(u, f)
  PROVE  QuietInv'
<1> DEFINE p == Peer(u)
           box == mailbox[u]
           call == [Idle EXCEPT !.pc = "loop", !.queue = box]
<1>1. /\ fetch[u][f].pc = "idle" /\ f = Poll
      /\ fetch' = [fetch EXCEPT ![u][f] = call]
      /\ UNCHANGED <<heap, sessions, opkMemory, written, generated, dropped,
                     mailbox, received, disk, sending>>
  BY CalmFacts
     DEF StartFetch, server, files, history, get_messages_for_recipient
<1>2. /\ BoxInOrder(u) /\ CallInOrder(u) /\ LogInOrder(u) /\ PastGone(u)
      /\ ~sending[Answerer]
  BY DEF QuietInv, ReaderOK
<1>3. DOMAIN fetch = User /\ DOMAIN fetch[u] = {Poll}
  BY CallFacts
<1>4. /\ fetch'[u][Poll] = call /\ \A v \in User \ {u} : fetch'[v] = fetch[v]
  BY <1>1, <1>3
<1>5. /\ call.pc = "loop" /\ call.queue = box /\ call.done = <<>>
      /\ Idle.done = <<>>
  BY DEF Idle
<1>6. fetch[u][Poll].done = <<>>
  BY <1>1, <1>2 DEF CallInOrder
<1> HIDE DEF call
<1>7. Taken(u)' = Taken(u)
  <2>1. Taken(u) = Len(received[u]) + Len(<<>>)
    BY <1>1, <1>6 DEF Taken
  <2>2. Taken(u)' = Len(received[u]) + Len(<<>>)
    BY <1>1, <1>4, <1>5 DEF Taken
  <2> QED
    BY <2>1, <2>2
<1>8. Unread(u)' = Unread(u) /\ KeysRead(u)' = KeysRead(u)
  BY <1>1, <1>7 DEF Unread, KeysRead
<1>9. BoxInOrder(u)'
  BY <1>1, <1>2, <1>4, <1>5, <1>6, <1>7 DEF BoxInOrder
<1>10. PastGone(u)'
  BY <1>1, <1>2, <1>4, <1>5, <1>8 DEF PastGone
<1>11. LogInOrder(u)'
  BY <1>1, <1>2 DEF LogInOrder
<1>12. \A i \in DOMAIN box :
         box[i].text.n = Taken(u) + i - 1 /\ box[i] \in ToSet(box)
  <2> DEFINE k == Len(box)
             s == [i \in 1..k |-> box[i].text.n]
             a == Taken(u)
             b == written[p] - 1
  <2>1. /\ box \in Seq(MessageTo(u)) /\ k \in Nat /\ DOMAIN box = 1..k
        /\ a \in Nat /\ b \in Int /\ written[p] \in Nat
    BY MailFacts, CallFacts, Peers
  <2>2. \A i \in 1..k : box[i] \in ToSet(box)
    BY <2>1 DEF ToSet
  <2>3. \A i \in 1..k : box[i].text.n \in Nat /\ box[i].text.n < written[p]
    BY <2>2, MailFacts
  <2>4. \A i \in 1..k : box[i].text.n >= a
    <3> SUFFICES ASSUME NEW i \in 1..k, box[i].text.n < a PROVE FALSE
      BY <2>1, <2>3
    <3>1. box[i].text \in ToSet(fetch[u][Poll].done)
      BY <1>2, <2>2 DEF BoxInOrder
    <3> QED
      BY <1>6, <3>1 DEF ToSet
  <2>5. s \in [1..k -> Int] /\ \A i \in 1..k : s[i] = box[i].text.n
    BY <2>3
  <2>6. \A i, j \in 1..k : i < j => s[i] < s[j]
    BY <1>2, <2>1, <2>5 DEF BoxInOrder
  <2>7. \A i \in 1..k : s[i] \in a..b
    BY <2>1, <2>3, <2>4, <2>5
  <2>8. \A n \in a..b : \E i \in 1..k : s[i] = n
    <3> SUFFICES ASSUME NEW n \in a..b PROVE \E i \in 1..k : s[i] = n
      OBVIOUS
    <3>1. PICK m \in ToSet(box) : m.text.n = n
      BY <1>2 DEF BoxInOrder
    <3>2. PICK i \in 1..k : m = box[i]
      BY <2>1 DEF ToSet
    <3> QED
      BY <2>5, <3>1, <3>2
  <2> HIDE DEF k, s, a, b
  <2>9. k \in Nat /\ a \in Int /\ b \in Int /\ s \in [1..k -> Int]
    BY <2>1, <2>5
  <2>10. \A i \in 1..k : s[i] = a + i - 1
    BY <2>6, <2>7, <2>8, <2>9, OneByOne
  <2> QED
    BY <2>1, <2>2, <2>5, <2>10 DEF a
<1>13. CallInOrder(u)'
  BY <1>1, <1>4, <1>5, <1>7, <1>12 DEF CallInOrder
<1>14. fetch[u][Poll].pc # "opk" /\ fetch'[u][Poll].pc # "opk"
  BY <1>1, <1>4, <1>5
<1>15. ReaderOK(u)'
  BY <1>9, <1>10, <1>11, <1>13 DEF ReaderOK
<1> QED
  BY <1>1, <1>2, <1>4, <1>7, <1>8, <1>14, <1>15, QuietMove

(* saveSessions: what was read is not to be had from the file either.      *)
LEMMA SaveSessionsQuiet ==
  ASSUME Calm, MessengerInv, QuietInv, NEW u \in User, NEW f \in Polls,
         SaveSessions(u, f)
  PROVE  QuietInv'
<1> DEFINE call == [fetch[u][f] EXCEPT !.pc = "log"]
           file == Snapshot(sessions[u], heap[u])
<1>1. /\ fetch[u][f].pc = "loop" /\ f = Poll /\ fetch[u][f].queue = <<>>
      /\ fetch' = [fetch EXCEPT ![u][f] = call]
      /\ disk' = [disk EXCEPT ![u] = file]
      /\ UNCHANGED <<heap, sessions, opkMemory, written, generated, dropped,
                     mailbox, received, sending>>
  BY CalmFacts DEF SaveSessions, Runs, server, history
<1>2. /\ BoxInOrder(u) /\ CallInOrder(u) /\ LogInOrder(u) /\ PastGone(u)
      /\ ~sending[Answerer]
  BY DEF QuietInv, ReaderOK
<1>3. /\ DOMAIN fetch = User /\ DOMAIN fetch[u] = {Poll} /\ DOMAIN disk = User
      /\ IsCall(u, fetch[u][Poll])
  BY CallFacts DEF MessengerInv, DomainsOK
<1>4. /\ fetch'[u][Poll] = call /\ \A v \in User \ {u} : fetch'[v] = fetch[v]
      /\ disk'[u] = file /\ \A v \in User \ {u} : disk'[v] = disk[v]
  BY <1>1, <1>3
<1>5. /\ call.pc = "log" /\ call.queue = <<>>
      /\ call.done = fetch[u][Poll].done
  BY <1>1, <1>3 DEF IsCall
<1> HIDE DEF call
<1>6. Taken(u)' = Taken(u)
  <2> DEFINE done == fetch[u][Poll].done
  <2>1. Taken(u) = Len(received[u]) + Len(done)
    BY <1>1 DEF Taken
  <2>2. Taken(u)' = Len(received[u]) + Len(done)
    BY <1>1, <1>4, <1>5 DEF Taken
  <2> QED
    BY <2>1, <2>2
<1>7. Unread(u)' = Unread(u) /\ KeysRead(u)' = KeysRead(u)
  BY <1>1, <1>6 DEF Unread, KeysRead
<1>8. BoxInOrder(u)'
  BY <1>1, <1>2, <1>4, <1>5, <1>6 DEF BoxInOrder
<1>9. CallInOrder(u)'
  BY <1>1, <1>2, <1>4, <1>5, <1>6 DEF CallInOrder
<1>10. LogInOrder(u)'
  BY <1>1, <1>2 DEF LogInOrder
<1>11. \A k \in DOMAIN file : StateOK(file[k], KeysRead(u))
  BY <1>2 DEF Snapshot, PastGone
<1> HIDE DEF file
<1>12. PastGone(u)'
  BY <1>1, <1>2, <1>4, <1>7, <1>11 DEF PastGone
<1>13. fetch[u][Poll].pc # "opk" /\ fetch'[u][Poll].pc # "opk"
  BY <1>1, <1>4, <1>5
<1>14. ReaderOK(u)'
  BY <1>8, <1>9, <1>10, <1>12 DEF ReaderOK
<1> QED
  BY <1>1, <1>2, <1>4, <1>6, <1>7, <1>13, <1>14, QuietMove

(* saveReceivedLog: all that the call has opened is new.                   *)
LEMMA LogReceivedQuiet ==
  ASSUME Calm, MessengerInv, QuietInv, NEW u \in User, NEW f \in Polls,
         LogReceived(u, f)
  PROVE  QuietInv'
<1> DEFINE done == fetch[u][f].done
           log == received[u]
           call == IF done = <<>> THEN Idle
                   ELSE [fetch[u][f] EXCEPT !.pc = "delete"]
<1>1. /\ fetch[u][f].pc = "log" /\ f = Poll
      /\ fetch' = [fetch EXCEPT ![u][f] = call]
      /\ received' = [received EXCEPT ![u] = log \o fresh(done, log)]
      /\ UNCHANGED <<heap, sessions, opkMemory, written, generated, dropped,
                     mailbox, disk, sending>>
  BY CalmFacts DEF LogReceived, Runs, server, history
<1>2. /\ BoxInOrder(u) /\ CallInOrder(u) /\ LogInOrder(u) /\ PastGone(u)
      /\ ~sending[Answerer]
  BY DEF QuietInv, ReaderOK
<1>3. /\ DOMAIN fetch = User /\ DOMAIN fetch[u] = {Poll}
      /\ DOMAIN received = User /\ IsCall(u, fetch[u][Poll])
      /\ done \in Seq(Text) /\ log \in Seq(Text)
  BY <1>1, CallFacts DEF MessengerInv, DomainsOK
<1>4. fetch[u][Poll].queue = <<>>
  BY <1>1, <1>2 DEF CallInOrder
<1>5. /\ call.pc = IF done = <<>> THEN "idle" ELSE "delete"
      /\ call.queue = <<>> /\ call.done = done
  BY <1>1, <1>3, <1>4 DEF IsCall, Idle
<1>6. /\ \A i \in DOMAIN done : done[i] = Nth(u, Len(log) + i - 1)
      /\ \A i \in DOMAIN log : log[i] = Nth(u, i - 1)
  BY <1>1, <1>2 DEF CallInOrder, LogInOrder
<1> DEFINE a == Len(log)
           b == Len(done)
<1>7. /\ a \in Nat /\ b \in Nat /\ DOMAIN log = 1..a /\ DOMAIN done = 1..b
      /\ \A n : Nth(u, n).n = n
  BY <1>3 DEF Nth
<1>8. fresh(done, log) = done
  <2>1. ToSet(done) \subseteq ToSet(done) \ ToSet(log)
    <3> SUFFICES ASSUME NEW i \in DOMAIN done, NEW j \in DOMAIN log,
                        done[i] = log[j]
                 PROVE  FALSE
      BY DEF ToSet
    <3>1. done[i].n = a + i - 1 /\ log[j].n = j - 1
      BY <1>6, <1>7
    <3>2. i \in 1..b /\ j \in 1..a
      BY <1>7
    <3> HIDE DEF done, log, a, b
    <3> QED
      BY <1>7, <3>1, <3>2
  <2> QED
    BY <1>3, <2>1, KeptAll DEF fresh
<1>9. /\ fetch'[u][Poll] = call /\ \A v \in User \ {u} : fetch'[v] = fetch[v]
      /\ received'[u] = log \o done
      /\ \A v \in User \ {u} : received'[v] = received[v]
  BY <1>1, <1>3, <1>8
<1> HIDE DEF call
<1>10. /\ log \o done \in Seq(Text) /\ Len(log \o done) = a + b
       /\ DOMAIN (log \o done) = 1..(a + b)
       /\ \A i \in 1..(a + b) :
            (log \o done)[i] = IF i <= a THEN log[i] ELSE done[i - a]
  BY <1>3
<1>11. Taken(u)' = Taken(u)
  <2>1. Taken(u) = a + b
    BY <1>1 DEF Taken
  <2>2. Taken(u)' = Len(log \o done) +
          (IF call.pc = "delete" THEN 0 ELSE Len(call.done))
    BY <1>9 DEF Taken
  <2>3. CASE done = <<>>
    BY <1>5, <1>7, <1>10, <2>1, <2>2, <2>3
  <2>4. CASE done # <<>>
    BY <1>5, <1>7, <1>10, <2>1, <2>2, <2>4
  <2> QED
    BY <2>3, <2>4
<1>12. Unread(u)' = Unread(u) /\ KeysRead(u)' = KeysRead(u)
  BY <1>1, <1>11 DEF Unread, KeysRead
<1>13. BoxInOrder(u)'
  BY <1>1, <1>2, <1>5, <1>9, <1>11 DEF BoxInOrder
<1>14. \A i \in 1..(a + b) : (log \o done)[i] = Nth(u, i - 1)
  <2> SUFFICES ASSUME NEW i \in 1..(a + b)
               PROVE  (log \o done)[i] = Nth(u, i - 1)
    OBVIOUS
  <2>1. CASE i <= a
    BY <1>6, <1>7, <1>10, <2>1
  <2>2. CASE ~(i <= a)
    <3>1. i - a \in 1..b /\ a + (i - a) - 1 = i - 1
      <4> HIDE DEF a, b
      <4> QED
        BY <1>7, <2>2
    <3>2. done[i - a] = Nth(u, a + (i - a) - 1)
      BY <1>6, <1>7, <3>1
    <3> QED
      BY <1>10, <2>2, <3>1, <3>2
  <2> QED
    BY <2>1, <2>2
<1>15. LogInOrder(u)'
  BY <1>1, <1>2, <1>9, <1>10, <1>14 DEF LogInOrder
<1>16. \A text \in ToSet(done) : text.n < a + b
  <2> SUFFICES ASSUME NEW i \in 1..b PROVE done[i].n < a + b
    BY <1>7 DEF ToSet
  <2>1. done[i].n = a + i - 1
    BY <1>6, <1>7
  <2> HIDE DEF done, a, b
  <2> QED
    BY <1>7, <2>1
<1>17. CallInOrder(u)'
  <2>1. \A i \in DOMAIN call.queue : FALSE
    BY <1>5
  <2>2. call.pc # "delete" => \A i \in DOMAIN call.done : FALSE
    BY <1>5
  <2>3. call.pc = "idle" => call.done = <<>>
    BY <1>5
  <2> QED
    BY <1>5, <1>9, <1>10, <1>16, <2>1, <2>2, <2>3 DEF CallInOrder
<1>18. PastGone(u)'
  BY <1>1, <1>2, <1>12 DEF PastGone
<1>19. fetch[u][Poll].pc # "opk" /\ fetch'[u][Poll].pc # "opk"
  BY <1>1, <1>5, <1>9
<1>20. ReaderOK(u)'
  BY <1>13, <1>15, <1>17, <1>18 DEF ReaderOK
<1> QED
  BY <1>1, <1>2, <1>9, <1>11, <1>12, <1>19, <1>20, QuietMove

(* One DELETE ends: a row goes whose text is in the log.                   *)
LEMMA DeleteOneQuiet ==
  ASSUME Calm, MessengerInv, QuietInv, NEW u \in User, NEW f \in Polls,
         DeleteOne(u, f)
  PROVE  /\ QuietInv'
         /\ \A v \in User :
              /\ ToSet(mailbox[v]) \ ToSet(mailbox'[v])
                   \subseteq {m \in ToSet(mailbox[v]) : m.text.n < Taken(v)}
              /\ mailbox'[v] # mailbox[v] =>
                   fetch[v][Poll].pc = "delete" /\ disk'[v] = disk[v]
<1> DEFINE done == fetch[u][f].done
           box == mailbox[u]
<1>1. PICK i \in DOMAIN done :
        LET left == RemoveAt(done, i)
        IN  /\ fetch' = [fetch EXCEPT ![u][f] =
                           IF left = <<>> THEN Idle
                           ELSE [@ EXCEPT !.done = left]]
            /\ mailbox' = [mailbox EXCEPT ![u] = delete_message(@, done[i])]
  BY CalmFacts DEF DeleteOne
<1> DEFINE left == RemoveAt(done, i)
           call == IF left = <<>> THEN Idle
                   ELSE [fetch[u][f] EXCEPT !.done = left]
           others == {m \in ToSet(box) : m.text # done[i]}
           rest == Kept(box, others)
<1>2. /\ fetch[u][f].pc = "delete" /\ f = Poll
      /\ fetch' = [fetch EXCEPT ![u][f] = call]
      /\ mailbox' = [mailbox EXCEPT ![u] = rest]
      /\ UNCHANGED <<heap, sessions, opkMemory, written, generated, dropped,
                     received, disk, sending>>
  BY <1>1, CalmFacts DEF DeleteOne, files, history, delete_message
<1>3. /\ BoxInOrder(u) /\ CallInOrder(u) /\ LogInOrder(u) /\ PastGone(u)
      /\ ~sending[Answerer]
  BY DEF QuietInv, ReaderOK
<1>4. /\ DOMAIN fetch = User /\ DOMAIN fetch[u] = {Poll}
      /\ DOMAIN mailbox = User /\ IsCall(u, fetch[u][Poll])
      /\ done \in Seq(Text) /\ box \in Seq(MessageTo(u))
  BY <1>2, CallFacts, MailFacts DEF MessengerInv, DomainsOK
<1>5. fetch[u][Poll].queue = <<>>
  BY <1>2, <1>3 DEF CallInOrder
<1>6. /\ left \in Seq(Text) /\ ToSet(left) \subseteq ToSet(done)
      /\ ToSet(done) \subseteq ToSet(left) \cup {done[i]}
  BY <1>4, RemoveAtRest
<1>7. /\ call.pc = IF left = <<>> THEN "idle" ELSE "delete"
      /\ call.queue = <<>> /\ call.done = left
  BY <1>2, <1>4, <1>5 DEF IsCall, Idle
<1> HIDE DEF left
<1>8. /\ fetch'[u][Poll] = call /\ \A v \in User \ {u} : fetch'[v] = fetch[v]
      /\ mailbox'[u] = rest
      /\ \A v \in User \ {u} : mailbox'[v] = mailbox[v]
  BY <1>2, <1>4
<1> HIDE DEF call
<1>9. ToSet(rest) = others
  BY <1>4, KeptSet
<1>10. \A k, j \in DOMAIN rest : k < j => rest[k].text.n < rest[j].text.n
  BY <1>3, <1>4, KeptOrder DEF BoxInOrder
<1> HIDE DEF rest
<1>11. Taken(u) = Len(received[u]) /\ Taken(u)' = Taken(u)
       /\ Taken(u) \in Nat
  <2>1. Len(received[u]) \in Nat
    BY CallFacts
  <2>2. Taken(u) = Len(received[u])
    BY <1>2, <2>1 DEF Taken
  <2> DEFINE more == IF call.pc = "delete" THEN 0 ELSE Len(call.done)
  <2>3. more = 0
    BY <1>7
  <2>4. Taken(u)' = Len(received'[u]) + more
    BY <1>8 DEF Taken
  <2> HIDE DEF more
  <2>5. received'[u] = received[u]
    BY <1>2
  <2> QED
    BY <2>1, <2>2, <2>3, <2>4, <2>5
<1>12. done[i] \in ToSet(done) /\ done[i].n < Taken(u)
  BY <1>2, <1>3, <1>11 DEF CallInOrder, ToSet
<1>13. \A m \in ToSet(box) : m.text.n \in Nat
  BY MailFacts
<1>14. Unread(u)' = Unread(u) /\ KeysRead(u)' \subseteq KeysRead(u)
  <2>1. \A m \in ToSet(box) : m.text.n >= Taken(u) => m.text # done[i]
    BY <1>11, <1>12, <1>13
  <2> QED
    BY <1>8, <1>9, <1>11, <2>1 DEF Unread, KeysRead
<1>15. BoxInOrder(u)'
  <2>1. Taken(u)' <= written'[Peer(u)]
    BY <1>2, <1>3, <1>11 DEF BoxInOrder
  <2>2. \A n \in Taken(u)'..(written'[Peer(u)] - 1) :
          \E m \in ToSet(mailbox'[u]) : m.text.n = n
    <3> SUFFICES ASSUME NEW n \in Taken(u)..(written[Peer(u)] - 1)
                 PROVE  \E m \in ToSet(rest) : m.text.n = n
      BY <1>2, <1>8, <1>11
    <3>1. PICK m \in ToSet(box) : m.text.n = n
      BY <1>3 DEF BoxInOrder
    <3>2. m.text # done[i]
      BY <1>11, <1>12, <1>13, <3>1
    <3> QED
      BY <1>9, <3>1, <3>2
  <2>3. \A m \in ToSet(mailbox'[u]) :
          m.text.n < Taken(u)' => m.text \in ToSet(fetch'[u][Poll].done)
    <3> SUFFICES ASSUME NEW m \in others, m.text.n < Taken(u)
                 PROVE  m.text \in ToSet(left)
      BY <1>7, <1>8, <1>9, <1>11
    <3>1. m.text \in ToSet(done)
      BY <1>2, <1>3 DEF BoxInOrder
    <3> QED
      BY <1>6, <3>1
  <2> QED
    BY <1>8, <1>10, <2>1, <2>2, <2>3 DEF BoxInOrder
<1>16. CallInOrder(u)'
  <2>1. \A k \in DOMAIN call.queue : FALSE
    BY <1>7
  <2>2. call.pc # "delete" => \A k \in DOMAIN call.done : FALSE
    BY <1>7
  <2>3. \A text \in ToSet(left) : text.n < Len(received[u])
    BY <1>2, <1>3, <1>6 DEF CallInOrder
  <2>4. call.pc = "idle" => call.done = <<>>
    BY <1>7
  <2> QED
    BY <1>2, <1>7, <1>8, <2>1, <2>2, <2>3, <2>4 DEF CallInOrder
<1>17. LogInOrder(u)'
  BY <1>2, <1>3 DEF LogInOrder
<1>18. PastGone(u)'
  BY <1>2, <1>3, <1>14, FewerKeysGone DEF PastGone
<1>19. fetch[u][Poll].pc # "opk" /\ fetch'[u][Poll].pc # "opk"
  BY <1>2, <1>7, <1>8
<1>20. ReaderOK(u)'
  BY <1>15, <1>16, <1>17, <1>18 DEF ReaderOK
<1>21. QuietInv'
  BY <1>2, <1>3, <1>8, <1>11, <1>14, <1>19, <1>20, QuietMove
<1>22. ASSUME NEW v \in User
       PROVE  /\ ToSet(mailbox[v]) \ ToSet(mailbox'[v])
                   \subseteq {m \in ToSet(mailbox[v]) : m.text.n < Taken(v)}
              /\ mailbox'[v] # mailbox[v] =>
                   fetch[v][Poll].pc = "delete" /\ disk'[v] = disk[v]
  <2>1. CASE v = u
    BY <1>2, <1>8, <1>9, <1>12, <2>1
  <2>2. CASE v # u
    BY <1>8, <2>2
  <2> QED
    BY <2>1, <2>2
<1> QED
  BY <1>21, <1>22

---------------------------------------------------------------------------
(* Reading.                                                                *)

(* The message at the head of the queue is the next one.                   *)
LEMMA HeadIsNext ==
  ASSUME Calm, MessengerInv, QuietInv, NEW u \in User,
         fetch[u][Poll].queue # <<>>
  PROVE  LET m == Head(fetch[u][Poll].queue)
         IN  /\ m \in ToSet(mailbox[u]) /\ m \in MessageTo(u)
             /\ m.text = Nth(u, Taken(u)) /\ m.text.n = Taken(u)
             /\ m \in Unread(u) /\ Taken(u) < written[Peer(u)]
             /\ \A x \in ToSet(mailbox[u]) : x.text.n = Taken(u) => x = m
             /\ ~Silence /\ fetch[u][Poll].pc \in {"loop", "opk"}
<1> DEFINE queue == fetch[u][Poll].queue
           m == Head(queue)
<1>1. queue \in Seq(MessageTo(u)) /\ queue # <<>> /\ Taken(u) \in Nat
  BY CallFacts
<1>2. 1 \in DOMAIN queue /\ m = queue[1]
  BY <1>1
<1>3. CallInOrder(u)
  BY DEF QuietInv, ReaderOK
<1>4. m.text.n = Taken(u) + 1 - 1 /\ m \in ToSet(mailbox[u])
  <2> HIDE DEF m
  <2> QED
    BY <1>2, <1>3 DEF CallInOrder
<1>5. fetch[u][Poll].pc \in {"loop", "opk"}
  BY <1>1, <1>3, CallFacts DEF CallInOrder, IsCall
<1> HIDE DEF m
<1>6. m.text.n = Taken(u)
  BY <1>1, <1>4
<1>7. /\ m \in MessageTo(u) /\ m.text = Nth(u, Taken(u))
      /\ Taken(u) < written[Peer(u)]
      /\ \A x \in ToSet(mailbox[u]) : x.text.n = Taken(u) => x = m
  BY <1>4, <1>6, MailFacts
<1>8. m \in Unread(u)
  BY <1>1, <1>4, <1>6 DEF Unread
<1>9. ~Silence
  BY <1>1, <1>7, Peers DEF Silence
<1> QED
  BY <1>4, <1>5, <1>6, <1>7, <1>8, <1>9 DEF m

(* A sequence that has grown.                                              *)
LEMMA AppendSet ==
  ASSUME NEW V, NEW s \in Seq(V), NEW x \in V
  PROVE  ToSet(Append(s, x)) = ToSet(s) \cup {x}
<1> DEFINE k == Len(s)
           t == Append(s, x)
<1>1. /\ k \in Nat /\ DOMAIN s = 1..k /\ DOMAIN t = 1..(k + 1)
      /\ \A i \in 1..k : t[i] = s[i]
      /\ t[k + 1] = x
  OBVIOUS
<1> HIDE DEF t, k
<1>2. \A i \in 1..(k + 1) : i \in 1..k \/ i = k + 1
  BY <1>1
<1>3. k + 1 \in 1..(k + 1) /\ \A i \in 1..k : i \in 1..(k + 1)
  BY <1>1
<1>4. ToSet(t) = {t[i] : i \in 1..(k + 1)} /\ ToSet(s) = {s[i] : i \in 1..k}
  BY <1>1 DEF ToSet
<1> QED
  BY <1>1, <1>2, <1>3, <1>4 DEF t

(* What ratchetDecrypt in msg:fetch does to its user, when the message     *)
(* opens.                                                                  *)
LEMMA OpenStep ==
  ASSUME Calm, MessengerInv, QuietInv, NEW u \in User,
         fetch[u][Poll].queue # <<>>, NEW objects, NEW ref \in DOMAIN objects,
         StateOK(objects[ref], KeysRead(u)),
         \A k \in DOMAIN sessions[u] : sessions[u][k] = ref,
         Decrypt(u, Poll, objects, ref),
         ratchetDecrypt(objects[ref], Head(fetch[u][Poll].queue),
                        <<u, generated[u]>>).outcome = "opened"
  PROVE  LET m == Head(fetch[u][Poll].queue)
             key == <<u, generated[u]>>
             new == ratchetDecrypt(objects[ref], m, key).st
         IN  /\ ReaderOK(u)' /\ \A st : st = new => Filed(u, st)'
             /\ Taken(u)' = Taken(u) + 1 /\ Unread(u)' = Unread(u) \ {m}
             /\ DOMAIN sessions'[u] = DOMAIN sessions[u] \cup {"name"}
             /\ fetch'[u][Poll].pc = "loop"
             /\ generated'[u] =
                  IF new.localRatchet = key THEN generated[u] + 1
                  ELSE generated[u]
             /\ UNCHANGED <<mailbox, written, received, dropped, disk,
                            opkMemory, sending>>
             /\ \A v \in User \ {u} :
                  /\ heap'[v] = heap[v] /\ sessions'[v] = sessions[v]
                  /\ fetch'[v] = fetch[v] /\ generated'[v] = generated[v]
<1> DEFINE call == fetch[u][Poll]
           m == Head(call.queue)
           key == <<u, generated[u]>>
           result == ratchetDecrypt(objects[ref], m, key)
           new == result.st
           next == [call EXCEPT !.pc = "loop", !.ref = 0, !.queue = Tail(@)]
           opening == [next EXCEPT !.done = Append(@, m.text)]
           after == put(objects, ref, new)
           inUse == Range(sessions'[u]) \cup {fetch'[u][g].ref : g \in Polls}
           filed == [k \in DOMAIN sessions[u] \cup {"name"} |->
                       IF k = "name" THEN ref ELSE sessions[u][k]]
           left == Restrict(after, DOMAIN after \cap inUse)
<1>1. /\ generated' = [generated EXCEPT ![u] =
                         IF new.localRatchet = key THEN @ + 1 ELSE @]
      /\ sessions' = [sessions EXCEPT ![u] = filed]
      /\ fetch' = [fetch EXCEPT ![u][Poll] = opening]
      /\ heap' = [heap EXCEPT ![u] = left]
      /\ UNCHANGED <<mailbox, written, received, dropped, disk, opkMemory,
                     sending>>
  BY DEF Decrypt, server
<1>2. /\ DOMAIN fetch = User /\ DOMAIN fetch[u] = {Poll} /\ IsCall(u, call)
      /\ DOMAIN generated = User /\ DOMAIN sessions = User
      /\ DOMAIN heap = User
  BY CallFacts DEF MessengerInv, DomainsOK
<1>3. /\ m \in ToSet(mailbox[u]) /\ m \in MessageTo(u)
      /\ m.text = Nth(u, Taken(u)) /\ m.text.n = Taken(u)
      /\ m \in Unread(u) /\ Taken(u) < written[Peer(u)]
      /\ \A x \in ToSet(mailbox[u]) : x.text.n = Taken(u) => x = m
      /\ call.pc \in {"loop", "opk"}
  BY HeadIsNext
<1>4. /\ BoxInOrder(u) /\ CallInOrder(u) /\ LogInOrder(u) /\ PastGone(u)
  BY DEF QuietInv, ReaderOK
<1>5. /\ opening.pc = "loop" /\ opening.queue = Tail(call.queue)
      /\ opening.done = Append(call.done, m.text)
  BY <1>2 DEF IsCall
<1>6. /\ call.queue \in Seq(MessageTo(u)) /\ call.done \in Seq(Text)
      /\ received[u] \in Seq(Text) /\ call.queue # <<>>
      /\ Len(received[u]) \in Nat /\ Len(call.done) \in Nat
      /\ Taken(u) \in Nat
  BY CallFacts
<1>7. StateOK(new, KeysRead(u) \cup {m.messageKey})
  <2>1. key \in Key
    BY DEF MessengerInv, ClientOK, KeysOK, Key, User
  <2>2. m.Ns \in Nat /\ m.PN \in Nat /\ m.ratchetPublic \in Key
    BY <1>3 DEF MessageTo
  <2> HIDE DEF m, key
  <2>3. DecryptOK(result, m, KeysRead(u))
    BY <2>1, <2>2, RatchetDecryptOK
  <2> QED
    BY <2>3 DEF DecryptOK, Opened, m, key
<1> HIDE DEF m, key, new
<1>8. /\ fetch'[u][Poll] = opening
      /\ sessions'[u] = filed /\ heap'[u] = left
      /\ \A v \in User \ {u} :
           /\ heap'[v] = heap[v] /\ sessions'[v] = sessions[v]
           /\ fetch'[v] = fetch[v] /\ generated'[v] = generated[v]
      /\ generated'[u] = IF new.localRatchet = key THEN generated[u] + 1
                         ELSE generated[u]
  <2> HIDE DEF opening, filed, left
  <2> QED
    BY <1>1, <1>2
<1>9. /\ DOMAIN filed = DOMAIN sessions[u] \cup {"name"}
      /\ \A k \in DOMAIN filed : filed[k] = ref
  OBVIOUS
<1>10. ref \in DOMAIN left /\ left[ref] = new
  <2>1. ref \in Range(sessions'[u])
    BY <1>8, <1>9 DEF Range
  <2>2. ref \in DOMAIN after /\ after[ref] = new
    BY DEF put
  <2> HIDE DEF after
  <2> QED
    BY <2>1, <2>2 DEF Restrict
<1> HIDE DEF opening, filed, left
<1>11. ASSUME NEW st, st = new PROVE Filed(u, st)'
  BY <1>8, <1>9, <1>10, <1>11 DEF Filed
<1>12. Taken(u)' = Taken(u) + 1
  <2>1. Taken(u) = Len(received[u]) + Len(call.done)
    BY <1>3 DEF Taken
  <2>2. Taken(u)' = Len(received[u]) + Len(Append(call.done, m.text))
    BY <1>1, <1>5, <1>8 DEF Taken
  <2> DEFINE a == Len(received[u])
             b == Len(call.done)
             c == Len(Append(call.done, m.text))
  <2>3. c = b + 1 /\ a \in Nat /\ b \in Nat
    BY <1>6
  <2>4. Taken(u) = a + b /\ Taken(u)' = a + c
    BY <2>1, <2>2
  <2> HIDE DEF a, b, c
  <2> QED
    BY <2>3, <2>4
<1>13. \A x \in ToSet(mailbox[u]) : x.text.n \in Nat
  BY MailFacts
<1>14. Unread(u)' = Unread(u) \ {m}
  BY <1>1, <1>3, <1>6, <1>12, <1>13 DEF Unread
<1>15. KeysRead(u)' = KeysRead(u) \cup {m.messageKey}
  BY <1>1, <1>3, <1>6, <1>12, <1>13 DEF KeysRead
<1>16. BoxInOrder(u)'
  <2>1. written[Peer(u)] \in Nat
    BY MailFacts, Peers
  <2>2. ToSet(opening.done) = ToSet(call.done) \cup {m.text}
    BY <1>3, <1>5, <1>6, AppendSet, SMTT(30) DEF MessageTo
  <2>3. \A x \in ToSet(mailbox[u]) : x.text.n < Taken(u) + 1 =>
          x.text.n < Taken(u) \/ x = m
    BY <1>3, <1>6, <1>13
  <2>4. Taken(u) + 1 <= written[Peer(u)]
    BY <1>3, <1>6, <2>1
  <2>5. \A n \in (Taken(u) + 1)..(written[Peer(u)] - 1) :
          n \in Taken(u)..(written[Peer(u)] - 1)
    BY <1>6, <2>1
  <2> QED
    BY <1>1, <1>4, <1>8, <1>12, <2>2, <2>3, <2>4, <2>5 DEF BoxInOrder
<1>17. CallInOrder(u)'
  <2>1. ASSUME NEW i \in DOMAIN opening.queue
        PROVE  /\ opening.queue[i].text.n = Taken(u) + 1 + i - 1
               /\ opening.queue[i] \in ToSet(mailbox[u])
    <3>1. /\ opening.queue[i] = call.queue[i + 1] /\ i \in Nat
          /\ i + 1 \in DOMAIN call.queue
      BY <1>5, <1>6
    <3>2. /\ call.queue[i + 1].text.n = Taken(u) + (i + 1) - 1
          /\ call.queue[i + 1] \in ToSet(mailbox[u])
      BY <1>4, <3>1 DEF CallInOrder
    <3> QED
      BY <1>6, <3>1, <3>2
  <2>2. ASSUME NEW i \in DOMAIN opening.done
        PROVE  opening.done[i] = Nth(u, Len(received[u]) + i - 1)
    <3> DEFINE k == Len(call.done)
    <3>1. /\ i \in 1..(k + 1) /\ k \in Nat
          /\ opening.done[i] = IF i = k + 1 THEN m.text ELSE call.done[i]
          /\ DOMAIN call.done = 1..k
      BY <1>5, <1>6
    <3>2. Taken(u) = Len(received[u]) + k
      BY <1>3 DEF Taken
    <3>3. \A j \in 1..k : call.done[j] = Nth(u, Len(received[u]) + j - 1)
      BY <1>3, <1>4, <3>1 DEF CallInOrder
    <3> HIDE DEF k
    <3>4. CASE i = k + 1
      <4>1. Len(received[u]) + i - 1 = Taken(u)
        BY <1>6, <3>1, <3>2, <3>4
      <4> QED
        BY <1>3, <3>1, <3>4, <4>1
    <3>5. CASE i # k + 1
      <4>1. i \in 1..k
        BY <3>1, <3>5
      <4> QED
        BY <3>1, <3>3, <3>5, <4>1
    <3> QED
      BY <3>4, <3>5
  <2> QED
    BY <1>1, <1>5, <1>8, <1>12, <2>1, <2>2 DEF CallInOrder
<1>18. LogInOrder(u)'
  BY <1>1, <1>4 DEF LogInOrder
<1>19. PastGone(u)'
  BY <1>5, <1>7, <1>8, <1>9, <1>10, <1>15 DEF PastGone
<1>20. ReaderOK(u)'
  BY <1>16, <1>17, <1>18, <1>19 DEF ReaderOK
<1> QED
  BY <1>1, <1>5, <1>8, <1>9, <1>11, <1>12, <1>14, <1>20 DEF m, key, new

(* The two ends of the conversation, seen from one of them: st reads what  *)
(* o writes.                                                               *)
Joined(st, o, start) ==
  \/ WritesOn(st) /\ WritesOn(o) /\ (Leads(st, o) \/ Leads(o, st))
  \/ start /\ Listens(st, o) /\ WritesOn(o)

(* The reader of the next message stays joined to its writer.              *)
LEMMA ReadJoins ==
  ASSUME NEW o, NEW st, NEW new, NEW m, NEW key,
         NEW due, Lettered(due), NEW lo \in Nat, NEW hi \in Nat,
         Flows(o, st, due, lo, hi), st.Ns \in Nat,
         \/ /\ SameRatchet(st, new)
            /\ OnChain(st, o) => OnChain(new, o)
         \/ /\ Stepped(st, new, m, key)
            /\ Leads(o, st) /\ OnChain(new, o)
            /\ m.ratchetPublic = o.localRatchet
            /\ key # st.localRatchet,
         NEW start, Joined(st, o, start)
  PROVE  Flows(o, new, due, lo, hi) /\ Joined(new, o, start)
<1>1. /\ Flows(o, new, due, lo, hi)
      /\ Leads(o, st) => Leads(o, new) \/ Leads(new, o)
      /\ Leads(st, o) /\ OnChain(new, o) => Leads(new, o)
      /\ WritesOn(st) => WritesOn(new)
  <2>1. \/ SameRatchet(st, new)
        \/ /\ Stepped(st, new, m, key)
           /\ Leads(o, st) /\ OnChain(new, o)
           /\ m.ratchetPublic = o.localRatchet
           /\ key # st.localRatchet
    OBVIOUS
  <2> QED
    BY <2>1, OpenWrites
<1>2. Leads(st, o) => OnChain(st, o)
  BY DEF Leads
<1>3. OnChain(st, o) => ~Leads(o, st)
  BY DEF Leads, OnChain
<1>4. CASE WritesOn(st) /\ WritesOn(o) /\ (Leads(st, o) \/ Leads(o, st))
  BY <1>1, <1>2, <1>4 DEF Joined
<1>5. CASE start /\ Listens(st, o) /\ WritesOn(o)
  <2>1. OnChain(st, o)
    BY <1>5 DEF Listens
  <2>2. SameRatchet(st, new) /\ OnChain(new, o)
    BY <1>3, <2>1
  <2>3. Listens(new, o)
    BY <1>5, <2>2 DEF Listens, SameRatchet
  <2> QED
    BY <1>1, <1>5, <2>3 DEF Joined
<1> QED
  BY <1>4, <1>5 DEF Joined

(* One state after its user has read the next message.                     *)
ReadOn(u, p, st, o, new, start) ==
  LET m == Head(fetch[u][Poll].queue)
  IN  /\ ratchetDecrypt(st, m, <<u, generated[u]>>).outcome = "opened"
      /\ Flows(new, o, Unread(u) \ {m}, Taken(u) + 1, written[p])
      /\ Flows(o, new, Unread(p), Taken(p), written[u])
      /\ Joined(new, o, start)
      /\ \/ new.localRatchet = st.localRatchet
         \/ new.localRatchet = <<u, generated[u]>>
      /\ new.remoteRatchetPublic \in {st.remoteRatchetPublic, o.localRatchet}

(* The next message opens.                                                 *)
LEMMA NextOpens ==
  ASSUME Calm, MessengerInv, QuietInv, NEW u \in User, NEW p, p = Peer(u),
         fetch[u][Poll].queue # <<>>,
         NEW st, StateOK(st, KeysRead(u)), NEW o,
         Flows(st, o, Unread(u), Taken(u), written[p]),
         Flows(o, st, Unread(p), Taken(p), written[u]),
         NEW start, Joined(st, o, start), Made(u, st.localRatchet)
  PROVE  ReadOn(u, p, st, o,
           ratchetDecrypt(st, Head(fetch[u][Poll].queue),
                          <<u, generated[u]>>).st, start)
<1> DEFINE m == Head(fetch[u][Poll].queue)
           key == <<u, generated[u]>>
           new == ratchetDecrypt(st, m, key).st
           box == Unread(u)
           due == Unread(p)
           lo == Taken(u)
           hi == written[p]
           from == Taken(p)
           to == written[u]
<1>1. p \in User
  BY Peers
<1>2. /\ lo \in Nat /\ hi \in Nat /\ from \in Nat /\ to \in Nat
      /\ Lettered(box) /\ Lettered(due)
  BY <1>1, CallFacts, MailFacts
<1>3. key \in Key /\ generated[u] \in Nat
  BY DEF MessengerInv, ClientOK, KeysOK, Key, User
<1>4. key # st.localRatchet
  BY <1>3 DEF Made
<1>5. m \in box /\ m.text.n = lo /\ Alone(m, box)
  <2>1. /\ m \in Unread(u) /\ m.text.n = Taken(u)
        /\ \A x \in ToSet(mailbox[u]) : x.text.n = Taken(u) => x = m
    BY HeadIsNext
  <2> HIDE DEF m
  <2> QED
    BY <2>1 DEF Unread, Alone
<1>6. st.Ns \in Nat
  BY DEF StateOK, IsRatchetState
<1>7. OnChain(st, o) \/ Leads(o, st)
  BY DEF Joined, Listens, Leads
<1>8. Flows(st, o, box, lo, hi) /\ Flows(o, st, due, from, to)
  OBVIOUS
<1> HIDE DEF m, key, box, due, lo, hi, from, to
<1>9. /\ ratchetDecrypt(st, m, key).outcome = "opened"
      /\ Flows(new, o, box \ {m}, lo + 1, hi)
      /\ \/ /\ SameRatchet(st, new)
            /\ OnChain(st, o) => OnChain(new, o)
         \/ /\ Stepped(st, new, m, key)
            /\ Leads(o, st) /\ OnChain(new, o)
            /\ m.ratchetPublic = o.localRatchet
  <2>1. StateOK(st, KeysRead(u)) /\ (OnChain(st, o) \/ Leads(o, st))
    BY <1>7
  <2>2. Opens(st, o, box, lo, hi, m, key)
    BY <1>2, <1>3, <1>5, <1>8, <2>1, OpenFlows
  <2> QED
    BY <2>2 DEF Opens
<1> HIDE DEF new
<1>10. Flows(o, new, due, from, to) /\ Joined(new, o, start)
  BY <1>2, <1>4, <1>6, <1>8, <1>9, ReadJoins
<1>11. /\ new.localRatchet = st.localRatchet \/ new.localRatchet = key
       /\ new.remoteRatchetPublic \in {st.remoteRatchetPublic, o.localRatchet}
  BY <1>9 DEF SameRatchet, Stepped
<1> QED
  BY <1>9, <1>10, <1>11
     DEF ReadOn, m, key, new, box, due, lo, hi, from, to

(* Talk, seen from the starter and from the answerer.                      *)
LEMMA TalkJoins ==
  ASSUME NEW a, NEW b
  PROVE  /\ Talk(a, b) => Joined(b, a, written[Answerer] = 0)
         /\ Talk(a, b) /\ written[Answerer] # 0 => Joined(a, b, FALSE)
BY DEF Talk, Joined

(* msg:fetch takes the next message under the state of its user.           *)
LEMMA ReadQuiet ==
  ASSUME Calm, MessengerInv, QuietInv, NEW u \in User,
         fetch[u][Poll].queue # <<>>, NEW objects, NEW ref \in DOMAIN objects,
         StateOK(objects[ref], KeysRead(u)),
         \A k \in DOMAIN sessions[u] : sessions[u][k] = ref,
         Decrypt(u, Poll, objects, ref), MessengerInv',
         NEW a, NEW b, Talk(a, b),
         objects[ref] = IF u = Starter THEN a ELSE b
  PROVE  QuietInv'
<1> DEFINE p == Peer(u)
           st == objects[ref]
           o == IF u = Starter THEN b ELSE a
           m == Head(fetch[u][Poll].queue)
           key == <<u, generated[u]>>
           new == ratchetDecrypt(st, m, key).st
           start == u = Answerer /\ written[Answerer] = 0
<1>1. /\ Starter \in User /\ Answerer \in User /\ Starter # Answerer
      /\ Peer(Starter) = Answerer /\ Peer(Answerer) = Starter
      /\ u = Starter \/ u = Answerer
  BY CalmFacts
<1>2. /\ Taken(u) < written[p] /\ ~Silence
      /\ \A v \in User : written[v] \in Nat
  BY HeadIsNext, MailFacts
<1>3. Taken(u) \in Nat
  BY CallFacts
<1>4. written[Starter] > 0
  BY <1>2 DEF QuietInv, InTouch
<1>5. /\ Flows(st, o, Unread(u), Taken(u), written[p])
      /\ Flows(o, st, Unread(p), Taken(p), written[u])
      /\ Made(u, st.localRatchet) /\ Made(u, o.remoteRatchetPublic)
      /\ Made(p, o.localRatchet) /\ Made(p, st.remoteRatchetPublic)
  BY <1>1 DEF Talk
<1>6. Joined(st, o, start)
  <2>1. CASE u = Answerer
    BY <1>1, <2>1, TalkJoins
  <2>2. CASE u = Starter
    <3>1. written[Answerer] # 0
      BY <1>1, <1>2, <1>3, <2>2
    <3> QED
      BY <1>1, <2>2, <3>1, TalkJoins
  <2> QED
    BY <1>1, <2>1, <2>2
<1> HIDE DEF start
<1>7. ReadOn(u, p, st, o, new, start)
  <2> HIDE DEF o
  <2> QED
    BY <1>5, <1>6, NextOpens
<1> HIDE DEF o
<1>8. /\ ReaderOK(u)' /\ \A x : x = new => Filed(u, x)'
      /\ Taken(u)' = Taken(u) + 1 /\ Unread(u)' = Unread(u) \ {m}
      /\ DOMAIN sessions'[u] = DOMAIN sessions[u] \cup {"name"}
      /\ fetch'[u][Poll].pc = "loop"
      /\ generated'[u] =
           IF new.localRatchet = key THEN generated[u] + 1 ELSE generated[u]
      /\ UNCHANGED <<mailbox, written, received, dropped, disk,
                     opkMemory, sending>>
      /\ \A v \in User \ {u} :
           /\ heap'[v] = heap[v] /\ sessions'[v] = sessions[v]
           /\ fetch'[v] = fetch[v] /\ generated'[v] = generated[v]
  BY <1>7, OpenStep DEF ReadOn
<1> HIDE DEF m, key, new
<1>9. p \in User /\ p # u /\ \A v \in User : v = u \/ v = p
  BY <1>1, Peers
<1>10. ReaderOK(p)' /\ Taken(p)' = Taken(p) /\ Unread(p)' = Unread(p)
  <2>1. ReaderOK(p)
    BY <1>9 DEF QuietInv
  <2> QED
    BY <1>8, <1>9, <2>1, OtherReader
<1>11. \A v \in User : generated[v] \in Nat
  BY DEF MessengerInv, ClientOK, KeysOK
<1>12. /\ \A k : Made(u, k) => Made(u, k)'
       /\ \A k : Made(p, k) => Made(p, k)'
       /\ \A k : k = new.localRatchet => Made(u, k)'
       /\ \A k : k = new.remoteRatchetPublic => Made(p, k)'
  <2>1. generated'[u] \in {generated[u], generated[u] + 1}
        /\ generated'[p] = generated[p]
    BY <1>8, <1>9
  <2>2. \A k : Made(u, k) => Made(u, k)'
    <3>1. \A n \in 0..(generated[u] - 1) : n \in 0..(generated'[u] - 1)
      BY <1>11, <2>1
    <3> QED
      BY <3>1 DEF Made
  <2>3. \A k : Made(p, k) => Made(p, k)'
    BY <2>1 DEF Made
  <2>4. \A k : k = new.localRatchet => Made(u, k)'
    <3>1. CASE new.localRatchet = st.localRatchet
      BY <1>5, <2>2, <3>1
    <3>2. CASE new.localRatchet = key
      BY <1>8, <1>11, <3>2 DEF Made, key
    <3> QED
      BY <1>7, <3>1, <3>2 DEF ReadOn, key
  <2>5. \A k : k = new.remoteRatchetPublic => Made(p, k)'
    BY <1>5, <1>7, <2>3 DEF ReadOn
  <2> QED
    BY <2>2, <2>3, <2>4, <2>5
<1>13. \A x, y : x = new /\ y = o =>
         IF u = Starter THEN Talk(x, y)' ELSE Talk(y, x)'
  <2> SUFFICES ASSUME NEW x, NEW y, x = new, y = o
               PROVE  IF u = Starter THEN Talk(x, y)' ELSE Talk(y, x)'
    OBVIOUS
  <2>1. /\ Flows(x, y, Unread(u), Taken(u), written[p])'
        /\ Flows(y, x, Unread(p), Taken(p), written[u])'
    BY <1>7, <1>8, <1>10 DEF ReadOn, m
  <2>2. Joined(x, y, start)
    BY <1>7 DEF ReadOn
  <2>3. Filed(u, x)'
    BY <1>8
  <2>4. Filed(p, y) => Filed(p, y)'
    BY <1>8, <1>9 DEF Filed
  <2>5. Awaited(p, y) => Awaited(p, y)'
    BY <1>8, <1>9, <1>10 DEF Awaited
  <2>6. Heralded(p, y) => Heralded(p, y)'
    BY <1>8, <1>9, <1>10 DEF Heralded
  <2>7. /\ Made(u, x.localRatchet)' /\ Made(u, y.remoteRatchetPublic)'
        /\ Made(p, y.localRatchet)' /\ Made(p, x.remoteRatchetPublic)'
    BY <1>5, <1>12
  <2>8. CASE u = Starter
    <3>1. p = Answerer /\ y = b /\ ~start
      BY <1>1, <2>8 DEF o, start
    <3>2. WritesOn(x) /\ WritesOn(y) /\ (Leads(x, y) \/ Leads(y, x))
      BY <2>2, <3>1 DEF Joined
    <3>3. Filed(p, y)' \/ Awaited(p, y)' \/ Heralded(p, y)'
      BY <2>4, <2>5, <2>6, <3>1 DEF Talk
    <3>4. Talk(x, y)'
      BY <2>1, <2>3, <2>7, <2>8, <3>1, <3>2, <3>3 DEF Talk
    <3> QED
      BY <2>8, <3>4
  <2>9. CASE u = Answerer
    <3>1. p = Starter /\ y = a
      BY <1>1, <2>9 DEF o
    <3>2. Filed(p, y)'
      BY <2>4, <3>1 DEF Talk
    <3>3. \/ WritesOn(x) /\ WritesOn(y) /\ (Leads(x, y) \/ Leads(y, x))
          \/ Listens(x, y) /\ WritesOn(y) /\ written'[Answerer] = 0
      BY <1>8, <2>2 DEF Joined, start
    <3>4. Talk(y, x)'
      BY <2>1, <2>3, <2>7, <2>9, <3>1, <3>2, <3>3 DEF Talk
    <3> QED
      BY <1>1, <2>9, <3>4
  <2> QED
    BY <1>1, <2>8, <2>9
<1>14. InTouch'
  <2>1. \E x, y : Talk(x, y)'
    <3>1. PICK x, y : x = new /\ y = o
      OBVIOUS
    <3> QED
      BY <1>13, <3>1
  <2> QED
    BY <1>4, <1>8, <2>1 DEF InTouch
<1>15. \A v \in User : ReaderOK(v)'
  BY <1>8, <1>9, <1>10
<1>16. /\ DOMAIN sessions'[Answerer] \subseteq {"name"}
       /\ ~sending'[Answerer] /\ fetch'[Starter][Poll].pc # "opk"
       /\ fetch'[Answerer][Poll].pc = "opk" => DOMAIN sessions'[Answerer] = {}
  BY <1>1, <1>8, <1>9 DEF QuietInv
<1> QED
  BY <1>14, <1>15, <1>16 DEF QuietInv

(* A session is that of the conversation.                                  *)
LEMMA FiledState ==
  ASSUME Calm, MessengerInv, QuietInv, NEW u \in User, DOMAIN sessions[u] # {}
  PROVE  \E a, b : \E ref \in DOMAIN heap[u] :
           /\ Talk(a, b) /\ heap[u][ref] = (IF u = Starter THEN a ELSE b)
           /\ \A k \in DOMAIN sessions[u] : sessions[u][k] = ref
           /\ StateOK(heap[u][ref], KeysRead(u))
           /\ written[Starter] > 0
<1>1. ~Silence
  BY DEF Silence
<1>2. PICK a, b : Talk(a, b) /\ written[Starter] > 0
  BY <1>1 DEF QuietInv, InTouch
<1>3. Filed(u, IF u = Starter THEN a ELSE b)
  BY <1>2, CalmFacts DEF Talk, Awaited, Heralded
<1>4. PICK ref \in DOMAIN heap[u] :
        /\ heap[u][ref] = (IF u = Starter THEN a ELSE b)
        /\ \A k \in DOMAIN sessions[u] : sessions[u][k] = ref
  BY <1>3 DEF Filed
<1>5. PICK k \in DOMAIN sessions[u] : TRUE
  OBVIOUS
<1>6. StateOK(heap[u][ref], KeysRead(u))
  BY <1>4, <1>5 DEF QuietInv, ReaderOK, PastGone
<1> QED
  BY <1>2, <1>4, <1>6

(* A message in a session.                                                 *)
LEMMA ReadInSessionQuiet ==
  ASSUME Calm, MessengerInv, QuietInv, NEW u \in User, NEW f \in Polls,
         ReadInSession(u, f)
  PROVE  QuietInv'
<1>1. f = Poll
  BY CalmFacts
<1>2. PICK k \in DOMAIN sessions[u] : Decrypt(u, f, heap[u], sessions[u][k])
  BY DEF ReadInSession, found, MessengerInv, ClientOK, StoreOK, IsMap
<1>3. fetch[u][f].queue # <<>>
  BY DEF ReadInSession
<1>4. PICK a, b : \E ref \in DOMAIN heap[u] :
        /\ Talk(a, b) /\ heap[u][ref] = (IF u = Starter THEN a ELSE b)
        /\ \A key \in DOMAIN sessions[u] : sessions[u][key] = ref
        /\ StateOK(heap[u][ref], KeysRead(u))
  BY <1>2, FiledState
<1>5. PICK ref \in DOMAIN heap[u] :
        /\ Talk(a, b) /\ heap[u][ref] = (IF u = Starter THEN a ELSE b)
        /\ \A key \in DOMAIN sessions[u] : sessions[u][key] = ref
        /\ StateOK(heap[u][ref], KeysRead(u))
  BY <1>4
<1>6. MessengerInv'
  BY ReadInSessionOK
<1> QED
  BY <1>1, <1>2, <1>3, <1>5, <1>6, ReadQuiet

(* Without a session the next message is the first of the conversation,    *)
(* read by the answerer.                                                   *)
LEMMA FirstIsHeralded ==
  ASSUME Calm, MessengerInv, QuietInv, NEW u \in User,
         DOMAIN sessions[u] = {}, fetch[u][Poll].queue # <<>>,
         fetch[u][Poll].pc = "loop"
  PROVE  LET m == Head(fetch[u][Poll].queue)
         IN  /\ u = Answerer /\ Taken(u) = 0 /\ written[Starter] > 0
             /\ m.x3dh # Null /\ m \in MessageTo(u)
             /\ \E a : Talk(a, Greeted(u, m))
<1> DEFINE m == Head(fetch[u][Poll].queue)
<1>1. /\ ~Silence /\ m \in MessageTo(u)
      /\ \A x \in ToSet(mailbox[u]) : x.text.n = Taken(u) => x = m
  BY HeadIsNext
<1>2. PICK a, b : Talk(a, b) /\ written[Starter] > 0
  BY <1>1 DEF QuietInv, InTouch
<1>3. u = Answerer
  BY <1>2, CalmFacts DEF Talk, Filed
<1>4. Heralded(u, b)
  BY <1>2, <1>3 DEF Talk, Filed, Awaited
<1> HIDE DEF m
<1>5. Taken(u) = 0 /\ m.x3dh # Null /\ b = Greeted(u, m)
  BY <1>1, <1>4 DEF Heralded
<1> QED
  BY <1>1, <1>2, <1>3, <1>5 DEF m

(* A message is never without a session and a header.                      *)
LEMMA NeverHeaderless ==
  ASSUME Calm, MessengerInv, QuietInv, NEW u \in User, NEW f \in Polls
  PROVE  ~DropHeaderless(u, f)
<1> SUFFICES ASSUME DropHeaderless(u, f) PROVE FALSE
  OBVIOUS
<1>1. /\ f = Poll /\ fetch[u][f].pc = "loop" /\ fetch[u][f].queue # <<>>
      /\ DOMAIN sessions[u] = {} /\ Head(fetch[u][f].queue).x3dh = Null
  BY CalmFacts DEF DropHeaderless, Runs, found
<1> QED
  BY <1>1, FirstIsHeralded

(* Nothing has been read by who has no session yet.                        *)
LEMMA NothingRead ==
  ASSUME MessengerInv, NEW u \in User, Taken(u) = 0
  PROVE  KeysRead(u) = {}
<1>1. \A m \in ToSet(mailbox[u]) : ~(m.text.n < 0)
  BY MailFacts
<1> QED
  BY <1>1 DEF KeysRead

(* deleteConsumedOpk is awaited for the session of the first message.      *)
LEMMA AwaitQuiet ==
  ASSUME Calm, MessengerInv, QuietInv, NEW u \in User, u = Answerer,
         DOMAIN sessions[u] = {}, Taken(u) = 0, fetch[u][Poll].pc = "loop",
         written[Starter] > 0, NEW a, NEW b, Talk(a, b),
         NEW ref, ref \notin DOMAIN heap[u],
         heap' = [heap EXCEPT ![u] = put(heap[u], ref, b)],
         fetch' = [fetch EXCEPT ![u][Poll].ref = ref, ![u][Poll].pc = "opk"],
         UNCHANGED <<mailbox, written, received, dropped, disk, opkMemory,
                     sending, sessions, generated>>
  PROVE  QuietInv'
<1> DEFINE call == [fetch[u][Poll] EXCEPT !.ref = ref, !.pc = "opk"]
<1>1. /\ DOMAIN fetch = User /\ DOMAIN fetch[u] = {Poll} /\ DOMAIN heap = User
      /\ IsCall(u, fetch[u][Poll])
  BY CallFacts DEF MessengerInv, DomainsOK
<1>2. /\ fetch'[u][Poll] = call /\ heap'[u] = put(heap[u], ref, b)
      /\ \A v \in User \ {u} : fetch'[v] = fetch[v] /\ heap'[v] = heap[v]
  BY <1>1
<1>3. /\ call.pc = "opk" /\ call.ref = ref
      /\ call.queue = fetch[u][Poll].queue /\ call.done = fetch[u][Poll].done
  BY <1>1 DEF IsCall
<1> HIDE DEF call
<1>4. /\ BoxInOrder(u) /\ CallInOrder(u) /\ LogInOrder(u)
  BY DEF QuietInv, ReaderOK
<1>5. Taken(u)' = Taken(u)
  <2> DEFINE done == fetch[u][Poll].done
  <2>1. Taken(u) = Len(received[u]) + Len(done)
    BY DEF Taken
  <2>2. Taken(u)' = Len(received[u]) + Len(done)
    BY <1>2, <1>3 DEF Taken
  <2> QED
    BY <2>1, <2>2
<1>6. Unread(u)' = Unread(u)
  BY <1>5 DEF Unread
<1>7. BoxInOrder(u)' /\ LogInOrder(u)'
  BY <1>2, <1>3, <1>4, <1>5 DEF BoxInOrder, LogInOrder
<1>8. CallInOrder(u)'
  <2>1. /\ \A i \in DOMAIN call.queue :
             /\ call.queue[i].text.n = Taken(u) + i - 1
             /\ call.queue[i] \in ToSet(mailbox[u])
        /\ \A i \in DOMAIN call.done :
             call.done[i] = Nth(u, Len(received[u]) + i - 1)
    BY <1>3, <1>4 DEF CallInOrder
  <2>2. /\ fetch'[u][Poll] = call /\ Taken(u)' = Taken(u)
        /\ received' = received /\ mailbox' = mailbox
    BY <1>2, <1>5
  <2>3. call.pc = "opk"
    BY <1>3
  <2> QED
    BY <2>1, <2>2, <2>3, ZenonT(30) DEF CallInOrder
<1>9. PastGone(u)'
  BY <1>2, <1>3 DEF PastGone
<1>10. ReaderOK(u)'
  BY <1>7, <1>8, <1>9 DEF ReaderOK
<1>11. /\ Starter \in User /\ Starter # u
       /\ \A v \in User : v = Starter \/ v = u
  BY CalmFacts
<1>12. /\ ReaderOK(Starter)' /\ Taken(Starter)' = Taken(Starter)
       /\ Unread(Starter)' = Unread(Starter)
  <2>1. ReaderOK(Starter)
    BY <1>11 DEF QuietInv
  <2> QED
    BY <1>2, <1>11, <2>1, OtherReader
<1>13. Talk(a, b)'
  <2>1. Filed(Starter, a)'
    BY <1>2, <1>11 DEF Talk, Filed
  <2>2. put(heap[u], ref, b)[ref] = b
    BY DEF put
  <2>3. Awaited(u, b)'
    BY <1>2, <1>3, <1>5, <2>2 DEF Awaited
  <2>4. /\ Flows(b, a, Unread(u), Taken(u), written[Starter])'
        /\ Flows(a, b, Unread(Starter), Taken(Starter), written[u])'
    BY <1>5, <1>6, <1>12 DEF Talk
  <2>5. /\ Made(Starter, a.localRatchet)'
        /\ Made(Starter, b.remoteRatchetPublic)'
        /\ Made(u, b.localRatchet)' /\ Made(u, a.remoteRatchetPublic)'
    BY DEF Talk, Made
  <2> QED
    BY <2>1, <2>3, <2>4, <2>5 DEF Talk
<1>14. InTouch'
  BY <1>13 DEF InTouch
<1>15. /\ DOMAIN sessions'[Answerer] \subseteq {"name"}
       /\ ~sending'[Answerer] /\ fetch'[Starter][Poll].pc # "opk"
       /\ DOMAIN sessions'[Answerer] = {}
  BY <1>2, <1>11 DEF QuietInv
<1> QED
  BY <1>10, <1>11, <1>12, <1>14, <1>15 DEF QuietInv

(* A first message.                                                        *)
LEMMA BeginSessionQuiet ==
  ASSUME Calm, MessengerInv, QuietInv, NEW u \in User, NEW f \in Polls,
         BeginSession(u, f)
  PROVE  QuietInv'
<1> DEFINE m == Head(fetch[u][f].queue)
           opks == [id \in opkMemory[u] |-> OpkOf(u, id)]
           st == initRatchetReceiver(x3dhReceive(KeysOf(u), opks, m.x3dh), m,
                                     KeysOf(u).spk)
           new == NewRef(heap[u])
           objects == put(heap[u], new, st)
<1>1. /\ f = Poll /\ fetch[u][f].pc = "loop" /\ fetch[u][f].queue # <<>>
      /\ DOMAIN sessions[u] = {}
  BY CalmFacts DEF BeginSession, Runs, found
<1>2. /\ u = Answerer /\ Taken(u) = 0 /\ written[Starter] > 0
      /\ m.x3dh # Null /\ m \in MessageTo(u)
      /\ \E a : Talk(a, Greeted(u, m))
  BY <1>1, FirstIsHeralded
<1>3. PICK a : Talk(a, Greeted(u, m))
  BY <1>2
<1>4. opkMemory[u] = OpkId
  BY DEF QuietInv, ReaderOK, LogInOrder
<1>5. st = Greeted(u, m)
  BY <1>4 DEF Greeted
<1>6. m.x3dh.opkId \in opkMemory[u] \cup {Null}
  BY <1>2, <1>4 DEF MessageTo
<1>7. \/ /\ heap' = [heap EXCEPT ![u] = objects]
         /\ fetch' = [fetch EXCEPT ![u][f].ref = new, ![u][f].pc = "opk"]
         /\ UNCHANGED <<sessions, generated, dropped>>
      \/ Decrypt(u, f, objects, new)
  BY <1>6 DEF BeginSession
<1>8. UNCHANGED <<mailbox, written, received, disk, opkMemory, sending>>
  BY DEF BeginSession, server, files
<1>9. StateFine(st)
  BY <1>2, <1>5, GreetedFine
<1> HIDE DEF m, st
<1>10. new \notin DOMAIN heap[u]
  BY NewRefFree DEF MessengerInv, ClientOK, StoreOK
<1> HIDE DEF new
<1>11. Talk(a, st)
  BY <1>3, <1>5
<1>12. CASE Decrypt(u, f, objects, new)
  <2>1. new \in DOMAIN objects /\ objects[new] = st
    BY DEF put
  <2>2. StateOK(objects[new], KeysRead(u))
    BY <1>2, <1>9, <2>1, NothingRead DEF StateFine
  <2>3. \A k \in DOMAIN sessions[u] : sessions[u][k] = new
    BY <1>1
  <2>4. objects[new] = IF u = Starter THEN a ELSE st
    BY <1>2, <2>1, CalmFacts
  <2>5. MessengerInv'
    BY BeginSessionOK
  <2> HIDE DEF objects
  <2> QED
    BY <1>1, <1>11, <1>12, <2>1, <2>2, <2>3, <2>4, <2>5, ReadQuiet
<1>13. CASE /\ heap' = [heap EXCEPT ![u] = objects]
            /\ fetch' = [fetch EXCEPT ![u][f].ref = new, ![u][f].pc = "opk"]
            /\ UNCHANGED <<sessions, generated, dropped>>
  BY <1>1, <1>2, <1>8, <1>10, <1>11, <1>13, AwaitQuiet
<1> QED
  BY <1>7, <1>12, <1>13

(* deleteConsumedOpk has ended.                                            *)
LEMMA OpkDeletedQuiet ==
  ASSUME Calm, MessengerInv, QuietInv, NEW u \in User, NEW f \in Polls,
         OpkDeleted(u, f)
  PROVE  QuietInv'
<1> DEFINE ref == fetch[u][f].ref
<1>1. /\ f = Poll /\ fetch[u][f].pc = "opk" /\ Decrypt(u, f, heap[u], ref)
  BY CalmFacts DEF OpkDeleted
<1>2. u = Answerer /\ u # Starter /\ DOMAIN sessions[u] = {}
  BY <1>1, CalmFacts DEF QuietInv
<1>3. AtOpk(u, fetch[u][f], heap[u]) /\ IsHeap(heap[u])
  BY <1>1 DEF MessengerInv, ClientOK, CallsOK, StoreOK
<1>4. fetch[u][f].queue # <<>> /\ ref \in DOMAIN heap[u]
  BY <1>3 DEF AtOpk
<1>5. ~Silence
  BY <1>1, <1>4, HeadIsNext
<1>6. PICK a, b : Talk(a, b)
  BY <1>5 DEF QuietInv, InTouch
<1>7. Awaited(u, b)
  BY <1>1, <1>2, <1>6 DEF Talk, Filed, Heralded
<1>8. heap[u][ref] = b /\ Taken(u) = 0
  BY <1>1, <1>7 DEF Awaited
<1>9. StateOK(heap[u][ref], KeysRead(u))
  BY <1>3, <1>4, <1>8, NothingRead DEF IsHeap, StateFine
<1>10. MessengerInv'
  BY OpkDeletedOK
<1>11. /\ \A k \in DOMAIN sessions[u] : sessions[u][k] = ref
       /\ heap[u][ref] = IF u = Starter THEN a ELSE b
  BY <1>2, <1>8
<1> HIDE DEF ref
<1> QED
  BY <1>1, <1>4, <1>6, <1>9, <1>10, <1>11, ReadQuiet

---------------------------------------------------------------------------
(* Writing.                                                                *)

(* The request ends well, and the handler with it: what Transmit does when *)
(* nothing goes wrong.                                                     *)
Posted(u, st, ref, map, key, x3dh, m) ==
  LET enc == ratchetEncrypt(st)
      objects == put(heap[u], ref, enc.st)
      filed == [k \in DOMAIN map \cup {key} |-> IF k = key THEN ref ELSE map[k]]
  IN  /\ m = [text |-> [from |-> u, n |-> written[u]], x3dh |-> x3dh,
              ratchetPublic |-> enc.header.ratchetPublic,
              Ns |-> enc.header.Ns, PN |-> enc.header.PN,
              messageKey |-> enc.messageKey]
      /\ mailbox' = [mailbox EXCEPT ![Peer(u)] = Append(@, m)]
      /\ written' = [written EXCEPT ![u] = @ + 1]
      /\ heap' = [heap EXCEPT ![u] = objects]
      /\ sessions' = [sessions EXCEPT ![u] = filed]
      /\ disk' = [disk EXCEPT ![u] = Snapshot(filed, objects)]
      /\ sending' = [sending EXCEPT ![u] = FALSE]
      /\ UNCHANGED <<opkMemory, fetch, received, dropped>>

(* When nothing may go wrong it is all that Transmit can do.               *)
LEMMA TransmitPosts ==
  ASSUME Calm, NEW u, NEW st, NEW ref, NEW map, NEW key, NEW x3dh,
         Transmit(u, st, ref, map, key, x3dh)
  PROVE  \E m : Posted(u, st, ref, map, key, x3dh, m)
<1>1. \A kind : ~MayHappen(kind)
  BY CalmFacts
<1> QED
  BY <1>1 DEF Transmit, Posted

(* What it leaves behind at the writer and in the reader's mailbox, when   *)
(* all of map is the session at ref.                                       *)
LEMMA PostedStep ==
  ASSUME Calm, MessengerInv, QuietInv, NEW u \in User, NEW st, NEW ref, NEW map,
         NEW key, NEW x3dh, NEW m, Posted(u, st, ref, map, key, x3dh, m),
         \A k \in DOMAIN map : map[k] = ref,
         StateOK(ratchetEncrypt(st).st, KeysRead(u)),
         u = Starter \/ (key = "name" /\ DOMAIN map \subseteq {"name"}),
         u = Answerer => fetch[u][Poll].pc # "opk"
  PROVE  LET p == Peer(u)
             new == ratchetEncrypt(st).st
         IN  /\ ReaderOK(u)' /\ ReaderOK(p)'
             /\ Taken(u)' = Taken(u) /\ Unread(u)' = Unread(u)
             /\ Taken(p)' = Taken(p) /\ Unread(p)' = Unread(p) \cup {m}
             /\ written'[u] = written[u] + 1 /\ written'[p] = written[p]
             /\ fetch' = fetch
             /\ \A x : x = new => Filed(u, x)'
             /\ ToSet(mailbox'[p]) = ToSet(mailbox[p]) \cup {m}
             /\ heap'[p] = heap[p] /\ sessions'[p] = sessions[p]
             /\ DOMAIN sessions'[Answerer] \subseteq {"name"}
             /\ ~sending'[Answerer]
             /\ fetch'[Starter][Poll].pc # "opk"
             /\ fetch'[Answerer][Poll].pc = "opk" =>
                  DOMAIN sessions'[Answerer] = {}
<1> DEFINE p == Peer(u)
           new == ratchetEncrypt(st).st
           objects == put(heap[u], ref, new)
           filed == [k \in DOMAIN map \cup {key} |->
                       IF k = key THEN ref ELSE map[k]]
           file == Snapshot(filed, objects)
           box == mailbox[p]
<1>1. /\ mailbox' = [mailbox EXCEPT ![p] = Append(box, m)]
      /\ written' = [written EXCEPT ![u] = @ + 1]
      /\ heap' = [heap EXCEPT ![u] = objects]
      /\ sessions' = [sessions EXCEPT ![u] = filed]
      /\ disk' = [disk EXCEPT ![u] = file]
      /\ sending' = [sending EXCEPT ![u] = FALSE]
      /\ UNCHANGED <<opkMemory, fetch, received, dropped>>
      /\ m.text.n = written[u]
  BY DEF Posted
<1>2. /\ DOMAIN mailbox = User /\ DOMAIN written = User /\ DOMAIN heap = User
      /\ DOMAIN sessions = User /\ DOMAIN disk = User /\ DOMAIN sending = User
  BY DEF MessengerInv, DomainsOK
<1>3. /\ p \in User /\ p # u /\ Peer(p) = u
      /\ \A v \in User : v = u \/ v = p
  BY Peers
<1>4. /\ Starter \in User /\ Answerer \in User /\ Starter # Answerer
  BY CalmFacts
<1>5. /\ DOMAIN filed = DOMAIN map \cup {key} /\ DOMAIN filed # {}
      /\ \A k \in DOMAIN filed : filed[k] = ref
  OBVIOUS
<1>6. /\ ref \in DOMAIN objects /\ objects[ref] = new
      /\ DOMAIN file = DOMAIN filed /\ \A k \in DOMAIN file : file[k] = new
  BY <1>5 DEF put, Snapshot
<1> HIDE DEF new, objects, filed, file, box, p
<1>7. /\ mailbox'[p] = Append(box, m) /\ mailbox'[u] = mailbox[u]
      /\ written'[u] = written[u] + 1 /\ written'[p] = written[p]
      /\ heap'[u] = objects /\ heap'[p] = heap[p]
      /\ sessions'[u] = filed /\ sessions'[p] = sessions[p]
      /\ disk'[u] = file /\ disk'[p] = disk[p]
      /\ sending'[u] = FALSE /\ sending'[p] = sending[p]
      /\ opkMemory' = opkMemory /\ fetch' = fetch /\ received' = received
      /\ dropped' = dropped
  BY <1>1, <1>2, <1>3
<1>8. Taken(u)' = Taken(u) /\ Taken(p)' = Taken(p)
      /\ Taken(u) \in Nat /\ Taken(p) \in Nat
  BY <1>3, <1>7, CallFacts DEF Taken
<1>9. /\ BoxInOrder(u) /\ CallInOrder(u) /\ LogInOrder(u)
      /\ BoxInOrder(p) /\ CallInOrder(p) /\ LogInOrder(p) /\ PastGone(p)
  BY <1>3 DEF QuietInv, ReaderOK
<1>10. \A x : x = new => Filed(u, x)'
  BY <1>5, <1>6, <1>7 DEF Filed
<1>11. Unread(u)' = Unread(u) /\ KeysRead(u)' = KeysRead(u)
  BY <1>7, <1>8 DEF Unread, KeysRead
<1>12. ReaderOK(u)'
  <2>1. BoxInOrder(u)'
    BY <1>7, <1>8, <1>9 DEF BoxInOrder, p
  <2>2. CallInOrder(u)' /\ LogInOrder(u)'
    BY <1>7, <1>8, <1>9 DEF CallInOrder, LogInOrder
  <2>3. PastGone(u)'
    BY <1>5, <1>6, <1>7, <1>11 DEF PastGone, new
  <2> QED
    BY <2>1, <2>2, <2>3 DEF ReaderOK
<1>13. /\ box \in Seq(MessageTo(p)) /\ written[u] \in Nat
       /\ \A x \in ToSet(box) : x.text.n \in Nat /\ x.text.n < written[u]
  BY <1>3, MailFacts DEF box
<1>14. Taken(p) <= written[u]
  BY <1>3, <1>9 DEF BoxInOrder
<1> DEFINE k == Len(box)
<1>15. /\ k \in Nat /\ DOMAIN box = 1..k /\ DOMAIN Append(box, m) = 1..(k + 1)
       /\ \A i \in 1..(k + 1) :
            Append(box, m)[i] = IF i = k + 1 THEN m ELSE box[i]
  BY <1>13
<1> HIDE DEF k
<1>16. ToSet(mailbox'[p]) = ToSet(mailbox[p]) \cup {m}
  <2>1. \A i \in 1..(k + 1) : i \in 1..k \/ i = k + 1
    BY <1>15
  <2>2. /\ k + 1 \in 1..(k + 1)
        /\ \A i \in 1..k : i \in 1..(k + 1) /\ i # k + 1
    BY <1>15
  <2> QED
    BY <1>7, <1>15, <2>1, <2>2 DEF ToSet, box
<1>17. Unread(p)' = Unread(p) \cup {m}
  BY <1>1, <1>7, <1>8, <1>13, <1>14, <1>16 DEF Unread
<1>18. KeysRead(p)' = KeysRead(p)
  BY <1>1, <1>7, <1>8, <1>13, <1>14, <1>16 DEF KeysRead
<1>19. BoxInOrder(p)'
  <2>1. Taken(p) <= written[u] + 1
    BY <1>8, <1>13, <1>14
  <2>2. \A i, j \in 1..(k + 1) : i < j =>
          Append(box, m)[i].text.n < Append(box, m)[j].text.n
    <3> SUFFICES ASSUME NEW i \in 1..(k + 1), NEW j \in 1..(k + 1), i < j
                 PROVE  Append(box, m)[i].text.n < Append(box, m)[j].text.n
      OBVIOUS
    <3>1. i \in 1..k /\ i # k + 1 /\ (j \in 1..k \/ j = k + 1)
      BY <1>15
    <3>2. Append(box, m)[i] = box[i] /\ box[i] \in ToSet(box)
      BY <1>15, <3>1 DEF ToSet
    <3>3. CASE j = k + 1
      BY <1>1, <1>13, <1>15, <3>2, <3>3
    <3>4. CASE j \in 1..k
      <4>1. j # k + 1
        BY <1>15, <3>4
      <4> QED
        BY <1>9, <1>15, <3>1, <3>2, <3>4, <4>1 DEF BoxInOrder, box
    <3> QED
      BY <3>1, <3>3, <3>4
  <2>3. \A n \in Taken(p)..(written[u] + 1 - 1) :
          \E x \in ToSet(mailbox'[p]) : x.text.n = n
    <3> SUFFICES ASSUME NEW n \in Taken(p)..written[u]
                 PROVE  \E x \in ToSet(mailbox'[p]) : x.text.n = n
      BY <1>13
    <3>1. CASE n = written[u]
      BY <1>1, <1>16, <3>1
    <3>2. CASE n # written[u]
      <4>1. n \in Taken(p)..(written[u] - 1)
        BY <1>8, <1>13, <3>2
      <4>2. PICK x \in ToSet(mailbox[p]) : x.text.n = n
        BY <1>3, <1>9, <4>1 DEF BoxInOrder
      <4> QED
        BY <1>16, <4>2
    <3> QED
      BY <3>1, <3>2
  <2>4. \A x \in ToSet(mailbox'[p]) :
          x.text.n < Taken(p) => x.text \in ToSet(fetch[p][Poll].done)
    <3> SUFFICES ASSUME NEW x \in ToSet(mailbox'[p]), x.text.n < Taken(p)
                 PROVE  x.text \in ToSet(fetch[p][Poll].done)
      OBVIOUS
    <3>1. x # m
      BY <1>1, <1>8, <1>13, <1>14
    <3>2. x \in ToSet(mailbox[p])
      BY <1>16, <3>1
    <3> QED
      BY <1>9, <3>2 DEF BoxInOrder
  <2>5. /\ mailbox'[p] = Append(box, m) /\ DOMAIN mailbox'[p] = 1..(k + 1)
        /\ Taken(p)' = Taken(p) /\ written'[Peer(p)] = written[u] + 1
        /\ fetch' = fetch
    BY <1>3, <1>7, <1>8, <1>15
  <2>6. \A i, j \in DOMAIN mailbox'[p] :
          i < j => mailbox'[p][i].text.n < mailbox'[p][j].text.n
    BY <2>2, <2>5
  <2>7. \A n \in Taken(p)'..(written'[Peer(p)] - 1) :
          \E x \in ToSet(mailbox'[p]) : x.text.n = n
    <3> SUFFICES ASSUME NEW n \in Taken(p)'..(written'[Peer(p)] - 1)
                 PROVE  \E x \in ToSet(mailbox'[p]) : x.text.n = n
      OBVIOUS
    <3>1. Taken(p)' = Taken(p) /\ written'[Peer(p)] = written[u] + 1
      BY <2>5
    <3>2. n \in Taken(p)..(written[u] + 1 - 1)
      BY <1>8, <1>13, <3>1
    <3> QED
      BY <2>3, <3>2
  <2>8. \A x \in ToSet(mailbox'[p]) :
          x.text.n < Taken(p)' => x.text \in ToSet(fetch'[p][Poll].done)
    BY <2>4, <2>5
  <2>9. Taken(p)' <= written'[Peer(p)]
    BY <2>1, <2>5
  <2> QED
    BY <2>6, <2>7, <2>8, <2>9 DEF BoxInOrder
<1>20. CallInOrder(p)' /\ LogInOrder(p)'
  BY <1>7, <1>8, <1>9, <1>16 DEF CallInOrder, LogInOrder
<1>21. PastGone(p)'
  BY <1>7, <1>9, <1>18 DEF PastGone
<1>22. ReaderOK(p)'
  BY <1>19, <1>20, <1>21 DEF ReaderOK
<1>23. /\ DOMAIN sessions'[Answerer] \subseteq {"name"}
       /\ ~sending'[Answerer]
       /\ fetch'[Starter][Poll].pc # "opk"
       /\ fetch'[Answerer][Poll].pc = "opk" => DOMAIN sessions'[Answerer] = {}
  <2>1. CASE u = Starter
    BY <1>3, <1>4, <1>7, <2>1 DEF QuietInv
  <2>2. CASE u = Answerer
    BY <1>3, <1>4, <1>5, <1>7, <2>2 DEF QuietInv
  <2> QED
    BY <1>3, <1>4, <2>1, <2>2
<1> QED
  BY <1>7, <1>8, <1>10, <1>11, <1>12, <1>16, <1>17, <1>22, <1>23 DEF p, new

(* The state st of u is one under which the next message to o is written.  *)
HasToSay(u, p, st, o) ==
  /\ IsRatchetState(st) /\ WritesOn(st)
  /\ Flows(st, o, Unread(u), Taken(u), written[p])
  /\ Flows(o, st, Unread(p), Taken(p), written[u])
  /\ \/ WritesOn(o) /\ (Leads(st, o) \/ Leads(o, st))
     \/ u = Starter /\ Listens(o, st) /\ written[Answerer] = 0
  /\ Filed(p, o) \/ (u = Starter /\ (Awaited(p, o) \/ Heralded(p, o)))
  /\ Made(u, o.remoteRatchetPublic) /\ Made(p, o.localRatchet)
  /\ Made(p, st.remoteRatchetPublic)

(* After it was written the two talk on.                                   *)
LEMMA PostedTalk ==
  ASSUME Calm, MessengerInv, QuietInv, NEW u \in User, NEW p, p = Peer(u),
         NEW st, NEW ref, NEW map, NEW key, NEW x3dh, NEW m,
         Posted(u, st, ref, map, key, x3dh, m),
         \A k \in DOMAIN map : map[k] = ref,
         StateOK(st, KeysRead(u)),
         u = Starter \/ (key = "name" /\ DOMAIN map \subseteq {"name"}),
         u = Answerer => fetch[u][Poll].pc # "opk",
         written[Starter] > 0,
         NEW o, HasToSay(u, p, st, o),
         \A k : k = st.localRatchet => Made(u, k)',
         \A k : Made(u, k) => Made(u, k)', generated'[p] = generated[p]
  PROVE  QuietInv'
<1> DEFINE enc == ratchetEncrypt(st)
           new == enc.st
           box == Unread(p)
           lo == Taken(p)
           hi == written[u]
<1>1. /\ p \in User /\ p # u /\ Peer(p) = u
      /\ \A v \in User : v = u \/ v = p
  BY Peers
<1>2. /\ Starter \in User /\ Answerer \in User /\ Starter # Answerer
  BY CalmFacts
<1>3. /\ IsRatchetState(st) /\ WritesOn(st)
      /\ Flows(st, o, Unread(u), Taken(u), written[p])
      /\ Flows(o, st, box, lo, hi)
      /\ \/ WritesOn(o) /\ (Leads(st, o) \/ Leads(o, st))
         \/ u = Starter /\ Listens(o, st) /\ written[Answerer] = 0
      /\ Filed(p, o) \/ (u = Starter /\ (Awaited(p, o) \/ Heralded(p, o)))
      /\ Made(u, o.remoteRatchetPublic) /\ Made(p, o.localRatchet)
      /\ Made(p, st.remoteRatchetPublic)
  BY DEF HasToSay
<1>4. /\ enc.messageKey = [id |-> st.rootKey, step |-> st.Ns]
      /\ enc.header = NextHeader(st) /\ WritesOn(new)
      /\ new.localRatchet = st.localRatchet
      /\ new.remoteRatchetPublic = st.remoteRatchetPublic
  BY <1>3, EncryptMoves
<1>5. st.sendingChainKey # Null
  <2>1. [id |-> st.rootKey, step |-> st.Ns] \in ChainKey
    BY <1>3 DEF IsRatchetState, ChainKey
  <2> QED
    BY <1>3, <2>1, NullAssumption DEF WritesOn
<1>6. StateOK(new, KeysRead(u))
  <2> DEFINE used == KeysRead(u)
  <2>1. StateOK(st, used)
    OBVIOUS
  <2> HIDE DEF used
  <2>2. StateOK(new, used \cup {enc.messageKey})
    BY <1>5, <2>1, EncryptOK
  <2> HIDE DEF enc, new
  <2>3. StateOK(new, used)
    BY <2>2, FewerKeysGone
  <2> QED
    BY <2>3 DEF used
<1>7. /\ m.text.n = hi /\ m.ratchetPublic = st.localRatchet
      /\ m.Ns = st.Ns /\ m.PN = st.PN /\ m.messageKey = enc.messageKey
  BY <1>4 DEF Posted, NextHeader
<1>8. /\ ReaderOK(u)' /\ ReaderOK(p)'
      /\ Taken(u)' = Taken(u) /\ Unread(u)' = Unread(u)
      /\ Taken(p)' = Taken(p) /\ Unread(p)' = Unread(p) \cup {m}
      /\ written'[u] = written[u] + 1 /\ written'[p] = written[p]
      /\ fetch' = fetch
      /\ \A x : x = new => Filed(u, x)'
      /\ ToSet(mailbox'[p]) = ToSet(mailbox[p]) \cup {m}
      /\ heap'[p] = heap[p] /\ sessions'[p] = sessions[p]
      /\ DOMAIN sessions'[Answerer] \subseteq {"name"}
      /\ ~sending'[Answerer]
      /\ fetch'[Starter][Poll].pc # "opk"
      /\ fetch'[Answerer][Poll].pc = "opk" => DOMAIN sessions'[Answerer] = {}
  BY <1>6, PostedStep
<1> HIDE DEF enc, new
<1>9. /\ lo \in Nat /\ hi \in Nat /\ lo <= hi /\ Lettered(box)
      /\ \A v \in User : written[v] \in Nat
  BY <1>1, CallFacts, MailFacts DEF QuietInv, ReaderOK, BoxInOrder
<1>10. OnChain(o, st) \/ Leads(st, o)
  BY <1>3 DEF Leads, Listens
<1> HIDE DEF box, lo, hi
<1>11. Flows(o, new, box \cup {m}, lo, hi + 1)
  BY <1>3, <1>7, <1>9, <1>10, PostFlows DEF enc, new
<1>12. /\ Flows(new, o, Unread(u), Taken(u), written[p])
       /\ Leads(st, o) => Leads(new, o)
       /\ Leads(o, st) => Leads(o, new)
       /\ Listens(o, st) => Listens(o, new)
  BY <1>3, PostReads DEF enc, new
<1>13. ASSUME NEW x, NEW y, x = new, y = o
       PROVE  IF u = Starter THEN Talk(x, y)' ELSE Talk(y, x)'
  <2>1. /\ Flows(x, y, Unread(u), Taken(u), written[p])'
        /\ Flows(y, x, Unread(p), Taken(p), written[u])'
    BY <1>8, <1>11, <1>12, <1>13 DEF box, lo, hi
  <2>2. Filed(u, x)'
    BY <1>8, <1>13
  <2>3. Filed(p, y) => Filed(p, y)'
    BY <1>8 DEF Filed
  <2>4. Awaited(p, y) => Awaited(p, y)'
    BY <1>8 DEF Awaited
  <2>5. Heralded(p, y) => Heralded(p, y)'
    BY <1>8 DEF Heralded
  <2>6. /\ Made(u, x.localRatchet)' /\ Made(u, y.remoteRatchetPublic)'
        /\ Made(p, y.localRatchet)' /\ Made(p, x.remoteRatchetPublic)'
    <3>1. \A k : Made(p, k) => Made(p, k)'
      BY DEF Made
    <3> QED
      BY <1>3, <1>4, <1>13, <3>1
  <2>7. WritesOn(x)
    BY <1>4, <1>13
  <2>8. \/ WritesOn(y) /\ (Leads(x, y) \/ Leads(y, x))
        \/ u = Starter /\ Listens(y, x) /\ written[Answerer] = 0
    BY <1>3, <1>12, <1>13
  <2>9. CASE u = Starter
    <3>1. p = Answerer
      BY <1>1, <1>2, <2>9
    <3>2. Filed(p, y)' \/ Awaited(p, y)' \/ Heralded(p, y)'
      BY <1>3, <1>13, <2>3, <2>4, <2>5
    <3>3. Talk(x, y)'
      BY <1>8, <2>1, <2>2, <2>6, <2>7, <2>8, <2>9, <3>1, <3>2 DEF Talk
    <3> QED
      BY <2>9, <3>3
  <2>10. CASE u = Answerer
    <3>1. p = Starter /\ u # Starter
      BY <1>1, <1>2, <2>10
    <3>2. Filed(p, y)'
      BY <1>3, <1>13, <2>3, <3>1
    <3>3. WritesOn(y) /\ (Leads(x, y) \/ Leads(y, x))
      BY <2>8, <3>1
    <3>4. Talk(y, x)'
      BY <2>1, <2>2, <2>6, <2>7, <2>10, <3>1, <3>2, <3>3 DEF Talk
    <3> QED
      BY <3>1, <3>4
  <2> QED
    BY <1>1, <1>2, <2>9, <2>10
<1>14. InTouch'
  <2>1. \E x, y : Talk(x, y)'
    <3>1. PICK x, y : x = new /\ y = o
      OBVIOUS
    <3> QED
      BY <1>13, <3>1
  <2>2. written'[Starter] > 0
    BY <1>1, <1>2, <1>8, <1>9
  <2> QED
    BY <2>1, <2>2 DEF InTouch
<1>15. \A v \in User : ReaderOK(v)'
  BY <1>1, <1>8
<1> QED
  BY <1>8, <1>14, <1>15 DEF QuietInv

(* A message in the session, after the DH step if this is the first answer.*)
LEMMA InSessionQuiet ==
  ASSUME Calm, MessengerInv, QuietInv, NEW u \in User, NEW map, NEW key,
         NEW ref, DOMAIN sessions[u] # {},
         \A k \in DOMAIN sessions[u] : sessions[u][k] = ref,
         \A k \in DOMAIN map : map[k] = ref,
         u = Starter \/ (key = "name" /\ DOMAIN map \subseteq {"name"}),
         TransmitInSession(u, ref, map, key)
  PROVE  QuietInv'
<1> DEFINE p == Peer(u)
           st == heap[u][ref]
           fresher == <<u, generated[u]>>
           stepped == dhRatchetStep(st, fresher)
<1>1. PICK a, b : \E r \in DOMAIN heap[u] :
        /\ Talk(a, b) /\ heap[u][r] = (IF u = Starter THEN a ELSE b)
        /\ \A k \in DOMAIN sessions[u] : sessions[u][k] = r
        /\ StateOK(heap[u][r], KeysRead(u))
        /\ written[Starter] > 0
  BY FiledState
<1>2. /\ Talk(a, b) /\ st = (IF u = Starter THEN a ELSE b)
      /\ StateOK(st, KeysRead(u)) /\ written[Starter] > 0
  BY <1>1
<1> DEFINE o == IF u = Starter THEN b ELSE a
<1>3. /\ p \in User /\ p # u /\ Starter \in User /\ Answerer \in User
      /\ Starter # Answerer /\ Peer(Starter) = Answerer
      /\ Peer(Answerer) = Starter
      /\ u = Starter \/ u = Answerer
  BY Peers, CalmFacts
<1>4. IsRatchetState(st)
  BY <1>2 DEF StateOK
<1>5. /\ generated[u] \in Nat /\ fresher \in Key /\ DOMAIN generated = User
      /\ \A v \in User : written[v] \in Nat
  BY MailFacts DEF MessengerInv, ClientOK, KeysOK, DomainsOK, Key, User
<1>6. /\ Flows(st, o, Unread(u), Taken(u), written[p])
      /\ Flows(o, st, Unread(p), Taken(p), written[u])
      /\ Made(u, st.localRatchet) /\ Made(u, o.remoteRatchetPublic)
      /\ Made(p, o.localRatchet) /\ Made(p, st.remoteRatchetPublic)
      /\ Filed(p, o) \/ (u = Starter /\ (Awaited(p, o) \/ Heralded(p, o)))
      /\ \/ WritesOn(st) /\ WritesOn(o) /\ (Leads(st, o) \/ Leads(o, st))
         \/ /\ u = Starter /\ WritesOn(st) /\ Listens(o, st)
            /\ written[Answerer] = 0
         \/ /\ u = Answerer /\ WritesOn(o) /\ Listens(st, o)
            /\ written[Answerer] = 0
  <2>1. CASE u = Starter
    <3>1. p = Answerer /\ st = a /\ o = b
      BY <1>2, <1>3, <2>1
    <3> HIDE DEF p, st, o
    <3> QED
      BY <1>2, <2>1, <3>1 DEF Talk
  <2>2. CASE u = Answerer
    <3>1. p = Starter /\ st = b /\ o = a /\ u # Starter
      BY <1>2, <1>3, <2>2
    <3> HIDE DEF p, st, o
    <3> QED
      BY <1>2, <2>2, <3>1 DEF Talk
  <2> QED
    BY <1>3, <2>1, <2>2
<1>7. u = Answerer => fetch[u][Poll].pc # "opk"
  BY DEF QuietInv
<1>8. CASE WritesOn(st)
  <2>1. st.sendingChainKey # Null
    <3>1. [id |-> st.rootKey, step |-> st.Ns] \in ChainKey
      BY <1>4 DEF IsRatchetState, ChainKey
    <3> QED
      BY <1>8, <3>1, NullAssumption DEF WritesOn
  <2>2. Transmit(u, st, ref, map, key, Null) /\ generated' = generated
    BY <2>1 DEF TransmitInSession
  <2> HIDE DEF st, o
  <2>3. PICK m : Posted(u, st, ref, map, key, Null, m)
    BY <2>2, TransmitPosts
  <2>4. ~Listens(st, o)
    BY <2>1 DEF Listens
  <2>5. HasToSay(u, p, st, o)
    BY <1>4, <1>6, <1>8, <2>4 DEF HasToSay
  <2>6. /\ \A k : k = st.localRatchet => Made(u, k)'
        /\ \A k : Made(u, k) => Made(u, k)'
        /\ generated'[p] = generated[p]
    <3>1. \A k : Made(u, k) => Made(u, k)'
      BY <2>2 DEF Made
    <3>2. \A k : k = st.localRatchet => Made(u, k)'
      BY <1>6, <3>1
    <3> QED
      BY <2>2, <3>1, <3>2
  <2> QED
    BY <1>2, <1>7, <2>3, <2>5, <2>6, PostedTalk
<1>9. CASE ~WritesOn(st)
  <2>1. /\ u = Answerer /\ u # Starter /\ WritesOn(o) /\ Listens(st, o)
        /\ written[Answerer] = 0 /\ Filed(p, o)
    BY <1>3, <1>6, <1>9
  <2>2. st.sendingChainKey = Null
    BY <2>1 DEF Listens
  <2>3. /\ Transmit(u, stepped, ref, map, key, Null)
        /\ generated' = [generated EXCEPT ![u] = @ + 1]
    BY <2>2 DEF TransmitInSession
  <2>4. StateOK(stepped, KeysRead(u))
    <3> HIDE DEF st, fresher
    <3> QED
      BY <1>2, <1>5, DhRatchetStepOK
  <2>5. fresher # st.localRatchet
    BY <1>5, <1>6 DEF Made
  <2>6. Taken(p) = 0 /\ Taken(p) \in Nat
    <3>1. p = Starter /\ Peer(p) = Answerer
      BY <1>3, <2>1
    <3>2. Taken(p) <= written[Peer(p)]
      BY <1>3 DEF QuietInv, ReaderOK, BoxInOrder
    <3>3. Taken(p) \in Nat
      BY <1>3, CallFacts
    <3> HIDE DEF p
    <3> QED
      BY <2>1, <3>1, <3>2, <3>3
  <2> DEFINE due == Unread(p)
             n == Taken(p)
             box == Unread(u)
             lo == Taken(u)
             hi == written[p]
  <2>7. Flows(o, st, due, n, n) /\ Flows(st, o, box, lo, hi) /\ n \in Nat
    BY <1>6, <2>1, <2>6
  <2> HIDE DEF st, o, fresher, due, n, box, lo, hi
  <2>8. /\ WritesOn(stepped) /\ Leads(stepped, o)
        /\ Flows(o, stepped, due, n, n) /\ Flows(stepped, o, box, lo, hi)
        /\ stepped.localRatchet = fresher
        /\ stepped.remoteRatchetPublic = st.remoteRatchetPublic
    BY <1>4, <1>5, <2>1, <2>5, <2>7, AnswerFlows
  <2> HIDE DEF stepped
  <2>9. HasToSay(u, p, stepped, o)
    <3>1. IsRatchetState(stepped)
      BY <2>4 DEF StateOK
    <3>2. /\ Flows(stepped, o, Unread(u), Taken(u), written[p])
          /\ Flows(o, stepped, Unread(p), Taken(p), written[u])
      BY <2>1, <2>6, <2>8 DEF due, n, box, lo, hi
    <3> QED
      BY <1>6, <2>1, <2>8, <3>1, <3>2 DEF HasToSay
  <2>10. PICK m : Posted(u, stepped, ref, map, key, Null, m)
    BY <2>3, TransmitPosts
  <2>11. /\ generated'[u] = generated[u] + 1 /\ generated'[p] = generated[p]
    BY <1>3, <1>5, <2>3
  <2>12. \A k : Made(u, k) => Made(u, k)'
    <3>1. \A i \in 0..(generated[u] - 1) : i \in 0..(generated'[u] - 1)
      BY <1>5, <2>11
    <3> QED
      BY <3>1 DEF Made
  <2>13. \A k : k = stepped.localRatchet => Made(u, k)'
    <3>1. generated[u] \in 0..(generated'[u] - 1)
      BY <1>5, <2>11
    <3> QED
      BY <2>8, <3>1 DEF Made, fresher
  <2> QED
    BY <1>2, <1>7, <2>1, <2>4, <2>9, <2>10, <2>11, <2>12, <2>13, PostedTalk
<1> QED
  BY <1>8, <1>9

(* The session is under the name: a later message.                         *)
LEMMA SendInSessionQuiet ==
  ASSUME Calm, MessengerInv, QuietInv, NEW u \in User, SendInSession(u)
  PROVE  QuietInv'
<1> DEFINE map == sessions[u]
           ref == map["name"]
<1>1. /\ "name" \in DOMAIN map
      /\ TransmitInSession(u, ref, map, "name")
  BY DEF SendInSession
<1>2. \A k \in DOMAIN map : map[k] = ref
  <2>1. PICK a, b : \E r \in DOMAIN heap[u] :
          /\ Talk(a, b) /\ heap[u][r] = (IF u = Starter THEN a ELSE b)
          /\ \A k \in DOMAIN sessions[u] : sessions[u][k] = r
          /\ StateOK(heap[u][r], KeysRead(u))
          /\ written[Starter] > 0
    BY <1>1, FiledState
  <2> QED
    BY <1>1, <2>1
<1>3. u = Starter \/ DOMAIN map \subseteq {"name"}
  BY CalmFacts DEF QuietInv
<1>4. /\ DOMAIN sessions[u] # {}
      /\ \A k \in DOMAIN sessions[u] : sessions[u][k] = ref
  BY <1>1, <1>2
<1> HIDE DEF map, ref
<1> QED
  BY <1>1, <1>2, <1>3, <1>4, InSessionQuiet

(* The first message of all.                                               *)
LEMMA FirstQuiet ==
  ASSUME Calm, MessengerInv, QuietInv, NEW u \in User, u = Starter, Silence,
         NEW p, p = Peer(u), NEW rk \in RootKey, rk # <<>>,
         NEW ref, NEW map, DOMAIN map = {}, NEW x3dh, x3dh # Null,
         rk = x3dhReceive(KeysOf(p), [id \in OpkId |-> OpkOf(p, id)], x3dh),
         Transmit(u, initRatchet(rk, KeysOf(p).spk, <<u, generated[u] + 1>>),
                  ref, map, "uuid", x3dh),
         generated' = [generated EXCEPT ![u] = @ + 2]
  PROVE  QuietInv'
<1> DEFINE spk == KeysOf(p).spk
           ratchet == <<u, generated[u] + 1>>
           o == initRatchet(rk, spk, ratchet)
           enc == ratchetEncrypt(o)
           a == enc.st
<1>1. /\ p \in User /\ p # u /\ p = Answerer /\ u # Answerer /\ Peer(p) = u
      /\ Starter # Answerer /\ \A v \in User : v = u \/ v = p
  BY Peers, CalmFacts
<1>2. /\ generated[u] \in Nat /\ DOMAIN generated = User
      /\ generated[p] \in Nat /\ 1 \in 0..(generated[p] - 1)
  BY <1>1, BoundsAssumption
     DEF MessengerInv, ClientOK, KeysOK, DomainsOK, FirstFresh
<1>3. spk \in Key /\ ratchet \in Key /\ spk = <<p, 1>>
  BY <1>1, <1>2 DEF KeysOf, Key, User
<1>4. PICK m : Posted(u, o, ref, map, "uuid", x3dh, m)
  <2> HIDE DEF o
  <2>1. Transmit(u, o, ref, map, "uuid", x3dh)
    BY DEF o
  <2> QED
    BY <2>1, TransmitPosts
<1> HIDE DEF spk, ratchet
<1>5. /\ StateFine(o) /\ o.sendingChainKey # Null
      /\ o.localRatchet = ratchet /\ o.Ns = 0 /\ o.PN = 0
  BY <1>3, InitRatchetFine DEF initRatchet
<1>6. StateFine(a)
  <2> HIDE DEF o
  <2> QED
    BY <1>5, EncryptFollows DEF SameSession
<1>7. WritesOn(o) /\ IsRatchetState(o)
  <2> DEFINE d == kdfRk(rk, agree(ratchet, spk))
  <2>1. d.chainKey = [id |-> d.rootKey, step |-> 0]
    BY DEF kdfRk
  <2> HIDE DEF d
  <2>2. o.rootKey = d.rootKey /\ o.sendingChainKey = d.chainKey
    BY DEF initRatchet, d
  <2> HIDE DEF o
  <2>3. IsRatchetState(o)
    BY <1>5 DEF StateFine, StateOK
  <2> QED
    BY <1>5, <2>1, <2>2, <2>3 DEF WritesOn
<1>8. enc.header = NextHeader(o)
  <2> HIDE DEF o
  <2> QED
    BY <1>7, EncryptMoves
<1>9. /\ m.text.n = written[u] /\ m.x3dh = x3dh
      /\ m.ratchetPublic = ratchet /\ m.Ns = 0 /\ m.PN = 0
      /\ m.messageKey = enc.messageKey
  <2> HIDE DEF o, enc
  <2>1. /\ m.text.n = written[u] /\ m.x3dh = x3dh
        /\ m.ratchetPublic = enc.header.ratchetPublic
        /\ m.Ns = enc.header.Ns /\ m.PN = enc.header.PN
        /\ m.messageKey = enc.messageKey
    BY <1>4 DEF Posted, enc
  <2> QED
    BY <1>5, <1>8, <2>1 DEF NextHeader
<1>10. \A v \in User : /\ written[v] = 0 /\ DOMAIN sessions[v] = {}
                       /\ Taken(v) = 0 /\ Unread(v) = {}
  <2>1. ASSUME NEW v \in User PROVE Taken(v) = 0 /\ Unread(v) = {}
    <3>1. Peer(v) \in User /\ written[Peer(v)] = 0
      BY Peers DEF Silence
    <3>2. Taken(v) <= written[Peer(v)] /\ Taken(v) \in Nat
      BY CallFacts DEF QuietInv, ReaderOK, BoxInOrder
    <3>3. \A x \in ToSet(mailbox[v]) : x.text.n \in Nat /\ x.text.n < 0
      BY <3>1, MailFacts
    <3>4. ToSet(mailbox[v]) = {}
      BY <3>3
    <3> QED
      BY <3>1, <3>2, <3>4 DEF Unread
  <2> QED
    BY <2>1 DEF Silence
<1>11. fetch[p][Poll].pc # "opk"
  <2> SUFFICES ASSUME fetch[p][Poll].pc = "opk" PROVE FALSE
    OBVIOUS
  <2>1. AtOpk(p, fetch[p][Poll], heap[p])
    BY <1>1, CalmFacts DEF MessengerInv, ClientOK, CallsOK
  <2>2. fetch[p][Poll].queue # <<>>
    BY <2>1 DEF AtOpk
  <2> QED
    BY <1>1, <2>2, HeadIsNext
<1> DEFINE b == initRatchetReceiver(rk, m, spk)
<1>12. b = Greeted(p, m)
  BY <1>9 DEF Greeted, spk
<1>13. /\ WritesOn(a) /\ Listens(b, a)
       /\ Flows(b, a, {m}, 0, 1) /\ Flows(a, b, {}, 0, 0)
       /\ a.localRatchet = ratchet /\ a.remoteRatchetPublic = spk
       /\ b.localRatchet = spk /\ b.remoteRatchetPublic = ratchet
  <2>1. m.text.n = 0
    BY <1>9, <1>10
  <2>2. m.messageKey = ratchetEncrypt(initRatchet(rk, spk, ratchet)).messageKey
    BY <1>9
  <2>3. FirstPair(rk, spk, ratchet, m)
    BY <1>3, <1>9, <2>1, <2>2, FirstFlows
  <2> QED
    BY <2>3 DEF FirstPair
<1> HIDE DEF b
<1>14. StateOK(a, KeysRead(u))
  <2>1. KeysRead(u) = {}
    BY <1>10, NothingRead
  <2> QED
    BY <1>6, <2>1 DEF StateFine
<1>15. /\ ReaderOK(u)' /\ ReaderOK(p)'
       /\ Taken(u)' = Taken(u) /\ Unread(u)' = Unread(u)
       /\ Taken(p)' = Taken(p) /\ Unread(p)' = Unread(p) \cup {m}
       /\ written'[u] = written[u] + 1 /\ written'[p] = written[p]
       /\ fetch' = fetch
       /\ \A x : x = a => Filed(u, x)'
       /\ ToSet(mailbox'[p]) = ToSet(mailbox[p]) \cup {m}
       /\ heap'[p] = heap[p] /\ sessions'[p] = sessions[p]
       /\ DOMAIN sessions'[Answerer] \subseteq {"name"}
       /\ ~sending'[Answerer]
       /\ fetch'[Starter][Poll].pc # "opk"
       /\ fetch'[Answerer][Poll].pc = "opk" => DOMAIN sessions'[Answerer] = {}
  <2> HIDE DEF o
  <2>1. \A k \in DOMAIN map : map[k] = ref
    OBVIOUS
  <2>2. u = Answerer => fetch[u][Poll].pc # "opk"
    BY <1>1
  <2>3. StateOK(ratchetEncrypt(o).st, KeysRead(u))
    BY <1>14
  <2>4. Posted(u, o, ref, map, "uuid", x3dh, m)
    BY <1>4
  <2> QED
    BY <2>1, <2>2, <2>3, <2>4, PostedStep
<1> HIDE DEF a
<1>16. /\ generated'[u] = generated[u] + 2 /\ generated'[p] = generated[p]
       /\ generated[u] + 1 \in 0..(generated'[u] - 1)
       /\ 1 \in 0..(generated'[p] - 1)
  BY <1>1, <1>2
<1>17. ASSUME NEW x, NEW y, x = a, y = b
       PROVE  Talk(x, y)'
  <2>1. /\ Flows(x, y, Unread(u), Taken(u), written[p])'
        /\ Flows(y, x, Unread(p), Taken(p), written[u])'
    <3>1. /\ Unread(u)' = {} /\ Taken(u)' = 0 /\ written'[p] = 0
          /\ Unread(p)' = {m} /\ Taken(p)' = 0 /\ written'[u] = 1
      BY <1>1, <1>10, <1>15
    <3> QED
      BY <1>13, <1>17, <3>1
  <2>2. Filed(u, x)'
    BY <1>15, <1>17
  <2>3. Heralded(p, y)'
    <3>1. y = Greeted(p, m)
      BY <1>12, <1>17
    <3>2. m \in ToSet(mailbox'[p]) /\ m.text.n = 0 /\ m.x3dh # Null
      BY <1>1, <1>9, <1>10, <1>15
    <3>3. /\ DOMAIN sessions'[p] = {} /\ Taken(p)' = 0
          /\ fetch'[p][Poll].pc # "opk"
      BY <1>1, <1>10, <1>11, <1>15
    <3> QED
      BY <3>1, <3>2, <3>3 DEF Heralded
  <2>4. /\ Made(u, x.localRatchet)' /\ Made(u, y.remoteRatchetPublic)'
        /\ Made(p, y.localRatchet)' /\ Made(p, x.remoteRatchetPublic)'
    <3>1. \A k : k = ratchet => Made(u, k)'
      BY <1>16 DEF Made, ratchet
    <3>2. \A k : k = spk => Made(p, k)'
      BY <1>3, <1>16 DEF Made
    <3> QED
      BY <1>13, <1>17, <3>1, <3>2
  <2>5. WritesOn(x) /\ Listens(y, x) /\ written'[p] = 0
    BY <1>1, <1>10, <1>13, <1>15, <1>17
  <2> QED
    BY <1>1, <2>1, <2>2, <2>3, <2>4, <2>5 DEF Talk
<1>18. InTouch'
  <2>1. \E x, y : Talk(x, y)'
    <3>1. PICK x, y : x = a /\ y = b
      OBVIOUS
    <3> QED
      BY <1>17, <3>1
  <2>2. written'[Starter] > 0
    BY <1>10, <1>15
  <2> QED
    BY <2>1, <2>2 DEF InTouch
<1>19. \A v \in User : ReaderOK(v)'
  BY <1>1, <1>15
<1> QED
  BY <1>15, <1>18, <1>19 DEF QuietInv

(* The bundle comes: a first message when there is no session, a later one *)
(* when the peer's answer was read in the meantime.                        *)
LEMMA SendWithBundleQuiet ==
  ASSUME Calm, MessengerInv, QuietInv, NEW u \in User, SendWithBundle(u)
  PROVE  QuietInv'
<1> DEFINE p == Peer(u)
           pool == opkPool[p]
           opkId == IF pool = <<>> THEN Null ELSE Head(pool)
           map == IF "name" \in DOMAIN sessions[u]
                  THEN [k \in {"uuid"} |-> sessions[u]["name"]]
                  ELSE sessions[u]
           eph == <<u, generated[u]>>
           opk == IF opkId = Null THEN Null ELSE OpkOf(p, opkId)
           bundle == [ikDh |-> KeysOf(p).ikDh, spk |-> KeysOf(p).spk,
                      opk |-> opk]
           rk == x3dhSend(KeysOf(u), eph, bundle)
           x3dh == [eph |-> eph, ikDh |-> KeysOf(u).ikDh, opkId |-> opkId]
<1>1. /\ sending[u]
      /\ IF "uuid" \in DOMAIN map
         THEN TransmitInSession(u, map["uuid"], map, "uuid")
         ELSE /\ Transmit(u, initRatchet(rk, KeysOf(p).spk,
                                         <<u, generated[u] + 1>>),
                          NewRef(heap[u]), map, "uuid", x3dh)
              /\ generated' = [generated EXCEPT ![u] = @ + 2]
  BY DEF SendWithBundle
<1>2. u = Starter
  BY <1>1, CalmFacts DEF QuietInv
<1>3. DOMAIN sessions[u] \subseteq {"name", "uuid"}
  BY DEF MessengerInv, ClientOK, StoreOK, IsMap
<1>4. CASE "uuid" \in DOMAIN map
  <2> DEFINE ref == map["uuid"]
  <2>1. DOMAIN sessions[u] # {}
    BY <1>4
  <2>2. PICK a, b : \E r \in DOMAIN heap[u] :
          /\ Talk(a, b) /\ heap[u][r] = (IF u = Starter THEN a ELSE b)
          /\ \A k \in DOMAIN sessions[u] : sessions[u][k] = r
          /\ StateOK(heap[u][r], KeysRead(u))
          /\ written[Starter] > 0
    BY <2>1, FiledState
  <2>3. \A k \in DOMAIN sessions[u] : sessions[u][k] = ref
    BY <1>4, <2>2
  <2>4. \A k \in DOMAIN map : map[k] = ref
    BY <1>4, <2>3
  <2>5. TransmitInSession(u, ref, map, "uuid")
    BY <1>1, <1>4
  <2> HIDE DEF map, ref
  <2> QED
    BY <1>2, <2>1, <2>3, <2>4, <2>5, InSessionQuiet
<1>5. CASE "uuid" \notin DOMAIN map
  <2>1. DOMAIN sessions[u] = {} /\ DOMAIN map = {}
    BY <1>3, <1>5
  <2>2. Silence
    <3>1. \A a, b : ~Talk(a, b)
      BY <1>2, <2>1 DEF Talk, Filed
    <3> QED
      BY <3>1 DEF QuietInv, InTouch
  <2>3. p \in User
    BY Peers
  <2>4. opkId \in OpkId \cup {Null}
    <3>1. pool \in Seq(OpkId)
      BY <2>3 DEF MessengerInv
    <3> HIDE DEF pool
    <3> QED
      BY <3>1
  <2>5. /\ generated[u] \in Nat /\ generated[u] >= FirstFresh
    BY DEF MessengerInv, ClientOK, KeysOK
  <2> HIDE DEF map, opkId
  <2>6. opk \in {OpkOf(p, id) : id \in OpkId} \cup {Null}
    BY <2>4
  <2>7. rk = x3dhReceive(KeysOf(p), [id \in OpkId |-> OpkOf(p, id)], x3dh)
    BY <2>4, <2>5, SameSecret
  <2>8. x3dh # Null
    <3>1. eph \in Key /\ KeysOf(u).ikDh \in Key
      BY <2>5 DEF Key, User, KeysOf
    <3>2. opkId \in Nat \cup {Null}
      BY <2>4 DEF OpkId
    <3>3. x3dh \in [eph : Key, ikDh : Key, opkId : Nat \cup {Null}]
      BY <3>1, <3>2
    <3> QED
      BY <3>3, NullIsNoKeyAssumption
  <2> HIDE DEF opk
  <2>9. rk \in RootKey /\ rk # <<>>
    BY <2>5, <2>6, BegunSend
  <2>10. /\ Transmit(u, initRatchet(rk, KeysOf(p).spk,
                                    <<u, generated[u] + 1>>),
                     NewRef(heap[u]), map, "uuid", x3dh)
         /\ generated' = [generated EXCEPT ![u] = @ + 2]
    BY <1>1, <1>5
  <2> HIDE DEF rk, x3dh, p
  <2>11. p = Peer(u)
    BY DEF p
  <2> QED
    BY <1>2, <2>1, <2>2, <2>7, <2>8, <2>9, <2>10, <2>11, FirstQuiet
<1> QED
  BY <1>4, <1>5

---------------------------------------------------------------------------
(* The conversation as a whole.                                            *)

(* It holds when the clients have registered and nothing was sent yet.     *)
LEMMA QuietInit ==
  ASSUME Calm, Init PROVE QuietInv
<1>1. /\ Polls = {Poll} /\ Starter \in User /\ Answerer \in User
  BY CalmFacts
<1>2. ASSUME NEW u \in User
      PROVE  /\ mailbox[u] = <<>> /\ received[u] = <<>> /\ dropped[u] = <<>>
             /\ opkMemory[u] = OpkId /\ written[u] = 0 /\ ~sending[u]
             /\ sessions[u] = NoSessions /\ disk[u] = NoSessions
             /\ fetch[u][Poll] = Idle
  BY <1>1, <1>2 DEF Init
<1>3. /\ Idle.pc = "idle" /\ Idle.queue = <<>> /\ Idle.done = <<>>
      /\ DOMAIN NoSessions = {} /\ ToSet(<<>>) = {}
  BY DEF Idle, NoSessions, ToSet
<1>4. ASSUME NEW u \in User PROVE ReaderOK(u)
  <2>1. Taken(u) = 0
    <3>1. fetch[u][Poll].pc # "delete" /\ fetch[u][Poll].done = <<>>
      BY <1>2, <1>3
    <3>2. received[u] = <<>> /\ Len(<<>>) = 0
      BY <1>2
    <3> QED
      BY <3>1, <3>2 DEF Taken
  <2>2. BoxInOrder(u)
    <3>1. Peer(u) \in User /\ 0..(0 - 1) = {}
      BY Peers
    <3> QED
      BY <1>2, <1>3, <2>1, <3>1 DEF BoxInOrder
  <2>3. CallInOrder(u)
    BY <1>2, <1>3 DEF CallInOrder
  <2>4. LogInOrder(u)
    BY <1>2 DEF LogInOrder
  <2>5. PastGone(u)
    BY <1>2, <1>3 DEF PastGone
  <2> QED
    BY <2>2, <2>3, <2>4, <2>5 DEF ReaderOK
<1>5. Silence
  BY <1>2, <1>3 DEF Silence
<1>6. InTouch
  BY <1>5 DEF InTouch
<1> QED
  BY <1>1, <1>2, <1>3, <1>4, <1>6 DEF QuietInv

(* Only the end of a DELETE takes a row from a mailbox.                    *)
RowsGo ==
  \A v \in User :
    /\ ToSet(mailbox[v]) \ ToSet(mailbox'[v])
         \subseteq {m \in ToSet(mailbox[v]) : m.text.n < Taken(v)}
    /\ ToSet(mailbox[v]) \ ToSet(mailbox'[v]) # {} =>
         fetch[v][Poll].pc = "delete"

(* What is posted comes behind the rows that are there.                    *)
LEMMA PostedStays ==
  ASSUME Calm, MessengerInv, NEW u \in User, NEW st, NEW ref, NEW map, NEW key,
         NEW x3dh, Transmit(u, st, ref, map, key, x3dh)
  PROVE  \A v \in User : ToSet(mailbox[v]) \ ToSet(mailbox'[v]) = {}
<1>1. PICK m : mailbox' = [mailbox EXCEPT ![Peer(u)] = Append(@, m)]
  <2>1. PICK m : Posted(u, st, ref, map, key, x3dh, m)
    BY TransmitPosts
  <2> QED
    BY <2>1 DEF Posted
<1>2. DOMAIN mailbox = User /\ Peer(u) \in User
  BY Peers DEF MessengerInv, DomainsOK
<1> SUFFICES ASSUME NEW v \in User
             PROVE  ToSet(mailbox[v]) \subseteq ToSet(mailbox'[v])
  OBVIOUS
<1>3. CASE v # Peer(u)
  BY <1>1, <1>2, <1>3
<1>4. CASE v = Peer(u)
  <2> DEFINE box == mailbox[v]
  <2>1. mailbox'[v] = Append(box, m) /\ box \in Seq(MessageTo(v))
    BY <1>1, <1>2, <1>4, MailFacts
  <2> HIDE DEF box
  <2>2. \A i \in DOMAIN box :
          i \in DOMAIN Append(box, m) /\ Append(box, m)[i] = box[i]
    BY <2>1
  <2> QED
    BY <2>1, <2>2 DEF ToSet, box
<1> QED
  BY <1>3, <1>4

(* So no row goes when a message is sent.                                  *)
LEMMA SendStays ==
  ASSUME Calm, MessengerInv, NEW u \in User,
         SendInSession(u) \/ SendWithBundle(u)
  PROVE  RowsGo
<1>1. \E st, ref, map, key, x3dh : Transmit(u, st, ref, map, key, x3dh)
  BY DEF SendInSession, SendWithBundle, TransmitInSession
<1>2. \A v \in User : ToSet(mailbox[v]) \ ToSet(mailbox'[v]) = {}
  BY <1>1, PostedStays
<1> QED
  BY <1>2 DEF RowsGo

(* Every step keeps the invariant, and deletes only what was read.         *)
LEMMA QuietNext ==
  ASSUME Calm, MessengerInv, QuietInv, Next
  PROVE  QuietInv' /\ RowsGo
<1>1. PICK u \in User :
        \/ SendInSession(u) \/ RequestBundle(u) \/ SendWithBundle(u)
        \/ \E f \in Polls : StartFetch(u, f) \/ FetchStep(u, f)
        \/ Revoke(u) \/ Erase(u) \/ Crash(u)
  BY DEF Next
<1>2. mailbox' = mailbox => RowsGo
  BY DEF RowsGo
<1>3. CASE SendInSession(u)
  BY <1>3, SendInSessionQuiet, SendStays
<1>4. CASE RequestBundle(u)
  <2>1. mailbox' = mailbox
    BY <1>4 DEF RequestBundle, server
  <2> QED
    BY <1>2, <1>4, <2>1, RequestBundleQuiet
<1>5. CASE SendWithBundle(u)
  BY <1>5, SendWithBundleQuiet, SendStays
<1>6. ASSUME NEW f \in Polls, StartFetch(u, f)
      PROVE  QuietInv' /\ RowsGo
  <2>1. mailbox' = mailbox
    BY <1>6 DEF StartFetch, server
  <2> QED
    BY <1>2, <1>6, <2>1, StartFetchQuiet
<1>7. ASSUME NEW f \in Polls, FetchStep(u, f)
      PROVE  QuietInv' /\ RowsGo
  <2>1. CASE ReadInSession(u, f)
    <3>1. mailbox' = mailbox
      BY <2>1 DEF ReadInSession, Decrypt, server
    <3> QED
      BY <1>2, <2>1, <3>1, ReadInSessionQuiet
  <2>2. CASE DropHeaderless(u, f)
    BY <2>2, NeverHeaderless
  <2>3. CASE BeginSession(u, f)
    <3>1. mailbox' = mailbox
      BY <2>3 DEF BeginSession, server
    <3> QED
      BY <1>2, <2>3, <3>1, BeginSessionQuiet
  <2>4. CASE OpkDeleted(u, f)
    <3>1. mailbox' = mailbox
      BY <2>4 DEF OpkDeleted, Decrypt, server
    <3> QED
      BY <1>2, <2>4, <3>1, OpkDeletedQuiet
  <2>5. CASE SaveSessions(u, f)
    <3>1. mailbox' = mailbox
      BY <2>5 DEF SaveSessions, server
    <3> QED
      BY <1>2, <2>5, <3>1, SaveSessionsQuiet
  <2>6. CASE LogReceived(u, f)
    <3>1. mailbox' = mailbox
      BY <2>6 DEF LogReceived, server
    <3> QED
      BY <1>2, <2>6, <3>1, LogReceivedQuiet
  <2>7. CASE DeleteOne(u, f)
    BY <2>7, DeleteOneQuiet DEF RowsGo
  <2> QED
    BY <1>7, <2>1, <2>2, <2>3, <2>4, <2>5, <2>6, <2>7 DEF FetchStep
<1>8. ~Revoke(u) /\ ~Erase(u) /\ ~Crash(u)
  BY CalmFacts DEF Revoke, Erase, Crash
<1> QED
  BY <1>1, <1>3, <1>4, <1>5, <1>6, <1>7, <1>8

(* A step that changes nothing.                                            *)
LEMMA QuietStutter ==
  ASSUME Calm, QuietInv, UNCHANGED vars
  PROVE  QuietInv' /\ RowsGo
<1>1. mailbox' = mailbox
  BY DEF vars, server
<1> QED
  BY <1>1, StutterQuiet DEF RowsGo

(* The inductive invariant of a calm conversation.                         *)
THEOREM MessengerQuiet ==
  ASSUME Calm PROVE Spec => []QuietInv
<1>1. Init => QuietInv
  BY QuietInit
<1>2. MessengerInv /\ QuietInv /\ [Next]_vars => QuietInv'
  BY QuietNext, QuietStutter
<1> QED
  BY <1>1, <1>2, MessengerInvariance, PTL DEF Spec

(* In a calm conversation msg:fetch opens every message it gets, however   *)
(* sends and polls interleave, for all numbers of messages and one-time    *)
(* keys: each finds the session of main.js:247-252, or begins it with the  *)
(* X3DH header (main.js:255-285), and is the next of its chain or the      *)
(* first of the chain after it, so that MAX_SKIP never matters.            *)
THEOREM MessengerNothingDropped ==
  ASSUME Calm PROVE Spec => []NothingDropped
<1>1. QuietInv => NothingDropped
  BY DEF QuietInv, ReaderOK, LogInOrder, NothingDropped
<1> QED
  BY <1>1, MessengerQuiet, PTL

(* The received log is then the beginning of what the peer wrote, in the   *)
(* order of writing and without a gap (main.js:308-317).                   *)
THEOREM MessengerReceivedIsPrefix ==
  ASSUME Calm PROVE Spec => []ReceivedIsPrefix
<1>1. QuietInv => ReceivedIsPrefix
  BY DEF QuietInv, ReaderOK, LogInOrder, Nth, ReceivedIsPrefix
<1> QED
  BY <1>1, MessengerQuiet, PTL

(* And a row that leaves the mailbox leaves no key behind in the session   *)
(* file that the next login resumes: saveSessions comes before the DELETEs *)
(* (main.js:322-331), and what is on disk is past every message that was   *)
(* opened.                                                                 *)
THEOREM MessengerSavedBeforeDeleted ==
  ASSUME Calm PROVE Spec => SavedBeforeDeleted
<1>1. ASSUME MessengerInv, QuietInv, [Next]_vars
      PROVE  \A u \in User : \A m \in ToSet(mailbox[u]) \ ToSet(mailbox'[u]) :
               m.text \in withdrawn' \/
               \A st \in Effective(disk[u]) : ~Derivable(st, m.messageKey)
  <2> SUFFICES ASSUME NEW u \in User,
                      NEW m \in ToSet(mailbox[u]) \ ToSet(mailbox'[u]),
                      NEW st \in Effective(disk[u])
               PROVE  ~Derivable(st, m.messageKey)
    OBVIOUS
  <2>1. RowsGo
    BY <1>1, QuietNext, QuietStutter
  <2>2. m \in ToSet(mailbox[u]) /\ m.text.n < Taken(u)
        /\ fetch[u][Poll].pc = "delete"
    BY <2>1 DEF RowsGo
  <2>3. m.messageKey \in KeysRead(u)
    BY <2>2 DEF KeysRead
  <2>4. PICK k \in DOMAIN disk[u] : st = disk[u][k]
    BY DEF Effective
  <2>5. StateOK(st, KeysRead(u))
    BY <1>1, <2>2, <2>4 DEF QuietInv, ReaderOK, PastGone
  <2> QED
    BY <2>3, <2>5, GoneNotDerivable
<1> QED
  BY <1>1, MessengerInvariance, MessengerQuiet, PTL DEF Spec, SavedBeforeDeleted
=============================================================================
