------------------------- MODULE RatchetPair_proofs -------------------------
(***************************************************************************)
(* The safety of RatchetPair, for every MAX_SKIP, MaxSend and MaxReplays.  *)
(* The inductive invariant says of each end what RatchetState_proofs says  *)
(* of one state: the keys of the messages it sent and read are gone.       *)
(***************************************************************************)
EXTENDS RatchetBreakIn, RatchetState_proofs

(* The message keys p has used, to send or to read.                        *)
UsedBy(p) == {m.messageKey : m \in {x \in net : x.text.from = p \/ Read(p, x)}}

(* A text names one message, and its number is below its author's count.   *)
NetOK ==
  /\ \A m1, m2 \in net : m1.text = m2.text => m1 = m2
  /\ \A m \in net : m.text.n < written[m.text.from]

(* What p read was sent to p.                                              *)
LogOK ==
  \A p \in Parties : \A i \in DOMAIN log[p] :
    \E m \in net : m.text = log[p][i] /\ m.text.from # p

EndsOK ==
  \A p \in Parties :
    IF p \in DOMAIN session
    THEN StateOK(session[p], UsedBy(p))
    ELSE UsedBy(p) = {}

IInv == TypeOK /\ NetOK /\ LogOK /\ EndsOK /\ AtMostOnce

---------------------------------------------------------------------------
(* The numbered pairs of a party are keys, its long-term ones among them.  *)
LEMMA KeysAreKeys ==
  /\ \A p \in Parties, n \in Nat : <<p, n>> \in Key
  /\ \A p \in Parties :
       /\ LongTerm(p).ikDh \in Key /\ LongTerm(p).spk \in Key
       /\ LongTerm(p).opk \in Key
BY DEF Key, LongTerm

(* A root key may begin with three or four DH outputs.                     *)
LEMMA MasterSecretType ==
  ASSUME NEW dh1 \in SUBSET Key, NEW dh2 \in SUBSET Key,
         NEW dh3 \in SUBSET Key
  PROVE  /\ << <<dh1, dh2, dh3>> >> \in RootKey
         /\ \A dh4 \in SUBSET Key : << <<dh1, dh2, dh3, dh4>> >> \in RootKey
<1>1. <<dh1, dh2, dh3>> \in Seq(SUBSET Key)
  OBVIOUS
<1>2. \A dh4 \in SUBSET Key : <<dh1, dh2, dh3, dh4>> \in Seq(SUBSET Key)
  OBVIOUS
<1>3. \A s \in Seq(SUBSET Key) : <<s>> \in RootKey
  BY DEF RootKey
<1> QED
  BY <1>1, <1>2, <1>3

(* The initiator's master secret is a root key, with or without an OPK.    *)
LEMMA X3dhSendType ==
  ASSUME NEW keys, NEW eph \in Key, NEW bundle, keys.ikDh \in Key,
         bundle.ikDh \in Key, bundle.spk \in Key,
         bundle.opk # Null => bundle.opk \in Key
  PROVE  x3dhSend(keys, eph, bundle) \in RootKey
<1>1. /\ agree(keys.ikDh, bundle.spk) \in SUBSET Key
      /\ agree(eph, bundle.ikDh) \in SUBSET Key
      /\ agree(eph, bundle.spk) \in SUBSET Key
      /\ bundle.opk # Null => agree(eph, bundle.opk) \in SUBSET Key
  BY DEF agree
<1>2. CASE bundle.opk = Null
  BY <1>1, <1>2, MasterSecretType DEF x3dhSend
<1>3. CASE bundle.opk # Null
  BY <1>1, <1>3, MasterSecretType DEF x3dhSend
<1> QED
  BY <1>2, <1>3

(* So is the responder's, for every header.                                *)
LEMMA X3dhReceiveType ==
  ASSUME NEW p \in Parties, NEW x3dh,
         x3dh \in [eph : Key, ikDh : Key, opkId : {OpkId, Null}]
  PROVE  x3dhReceive(LongTerm(p), [id \in {OpkId} |-> LongTerm(p).opk], x3dh)
           \in RootKey
<1> DEFINE keys == LongTerm(p)
           opks == [id \in {OpkId} |-> LongTerm(p).opk]
<1>1. /\ keys.ikDh \in Key /\ keys.spk \in Key
      /\ x3dh.opkId # Null => opks[x3dh.opkId] \in Key
  BY KeysAreKeys
<1> HIDE DEF opks, keys
<1>2. /\ agree(keys.spk, x3dh.ikDh) \in SUBSET Key
      /\ agree(keys.ikDh, x3dh.eph) \in SUBSET Key
      /\ agree(keys.spk, x3dh.eph) \in SUBSET Key
      /\ x3dh.opkId # Null =>
           agree(opks[x3dh.opkId], x3dh.eph) \in SUBSET Key
  BY <1>1 DEF agree
<1>3. CASE x3dh.opkId = Null
  BY <1>2, <1>3, MasterSecretType DEF x3dhReceive, keys, opks
<1>4. CASE x3dh.opkId # Null
  BY <1>2, <1>4, MasterSecretType DEF x3dhReceive, keys, opks
<1> QED
  BY <1>3, <1>4

(* A master secret is the first link of a root key, whoever computes it.   *)
LEMMA MasterSecretIsOne ==
  /\ \A keys, eph, bundle : Len(x3dhSend(keys, eph, bundle)) = 1
  /\ \A keys, opks, x3dh : Len(x3dhReceive(keys, opks, x3dh)) = 1
BY DEF x3dhSend, x3dhReceive

---------------------------------------------------------------------------
(* At the start nothing was sent or read.                                  *)
LEMMA InitOK == Init => IInv
<1> SUFFICES ASSUME Init PROVE IInv
  OBVIOUS
<1>1. DOMAIN session = {} /\ net = {}
  BY DEF Init
<1>2. TypeOK
  BY <1>1, BoundsAssumption
  DEF Init, TypeOK, FirstFresh, Parties
<1>3. \A p \in Parties : log[p] = <<>> /\ DOMAIN log[p] = {}
  BY DEF Init
<1>4. NetOK /\ LogOK /\ AtMostOnce
  BY <1>1, <1>3 DEF NetOK, LogOK, AtMostOnce, IsInjective
<1>5. EndsOK
  BY <1>1 DEF EndsOK, UsedBy
<1> QED
  BY <1>2, <1>4, <1>5 DEF IInv

(* p posts under a state whose past is gone.                               *)
LEMMA PostOK ==
  ASSUME IInv, NEW p \in Parties, NEW st, StateOK(st, UsedBy(p)),
         st.sendingChainKey # Null, written[p] < MaxSend,
         NEW x3dh \in [eph : Key, ikDh : Key, opkId : {OpkId, Null}]
                        \cup {Null},
         Post(p, st, x3dh), generated' \in [Parties -> Nat]
  PROVE  IInv'
<1> DEFINE enc == ratchetEncrypt(st)
           text == [from |-> p, n |-> written[p]]
           new == [text |-> text, x3dh |-> x3dh,
                   ratchetPublic |-> enc.header.ratchetPublic,
                   Ns |-> enc.header.Ns, PN |-> enc.header.PN,
                   messageKey |-> enc.messageKey]
<1>1. TypeOK /\ NetOK /\ LogOK /\ EndsOK /\ AtMostOnce
  BY DEF IInv
<1>2. /\ StateOK(enc.st, UsedBy(p) \cup {enc.messageKey})
      /\ enc.messageKey \in ChainKey
      /\ enc.header \in [ratchetPublic : Key, Ns : Nat, PN : Nat]
  BY EncryptOK
<1> HIDE DEF enc
<1>3. /\ net' = net \cup {new}
      /\ session' = [q \in DOMAIN session \cup {p} |->
                       IF q = p THEN enc.st ELSE session[q]]
      /\ written' = [written EXCEPT ![p] = @ + 1]
      /\ UNCHANGED <<handed, replays, log, lost>>
  BY DEF Post, Keep, enc
<1>4. written[p] \in Nat /\ written[p] + 1 \in 0..MaxSend /\ text \in Text
  BY <1>1, BoundsAssumption DEF TypeOK, Text
<1>5. new \in Message
  BY <1>2, <1>4 DEF Message
<1>6. /\ new.text = text /\ new.messageKey = enc.messageKey
      /\ text.from = p /\ text.n = written[p]
  OBVIOUS
<1> HIDE DEF new, text
<1>7. IsRatchetState(enc.st)
  BY <1>2 DEF StateOK
<1>8. TypeOK'
  <2>1. /\ DOMAIN session' \subseteq Parties
        /\ session' = [q \in DOMAIN session' |-> session'[q]]
        /\ \A q \in DOMAIN session' : IsRatchetState(session'[q])
    BY <1>1, <1>3, <1>7 DEF TypeOK
  <2>2. written' \in [Parties -> 0..MaxSend]
    BY <1>1, <1>3, <1>4 DEF TypeOK
  <2>3. net' \subseteq Message
    BY <1>1, <1>3, <1>5 DEF TypeOK
  <2>4. /\ handed' \in [Parties -> SUBSET Text] /\ replays' \in 0..MaxReplays
        /\ log' \in [Parties -> Seq(Text)]
        /\ lost' \in [Parties -> SUBSET Text]
    BY <1>1, <1>3 DEF TypeOK
  <2>5. \A q \in DOMAIN session' : IsRatchetState(session[q])'
    BY <2>1 DEF IsRatchetState
  <2> QED
    BY <2>1, <2>2, <2>3, <2>4, <2>5 DEF TypeOK
<1>9. \A m \in net : /\ m.text # text /\ m.text.from \in Parties
                     /\ m.text.n \in Nat
  BY <1>1, <1>6 DEF NetOK, TypeOK, Message, Text
<1>10. NetOK'
  <2>1. \A m1, m2 \in net' : m1.text = m2.text => m1 = m2
    BY <1>1, <1>3, <1>6, <1>9 DEF NetOK
  <2>2. \A m \in net' : m.text.n < written'[m.text.from]
    BY <1>1, <1>3, <1>4, <1>6, <1>9 DEF NetOK, TypeOK
  <2> QED
    BY <2>1, <2>2 DEF NetOK
<1>11. LogOK' /\ AtMostOnce'
  BY <1>1, <1>3 DEF LogOK, AtMostOnce
<1>12. \A q \in Parties : text \notin Range(log[q])
  BY <1>1, <1>9 DEF LogOK, Range
<1>13. UsedBy(p)' = UsedBy(p) \cup {enc.messageKey}
  BY <1>3, <1>6 DEF UsedBy, Read
<1>14. \A q \in Parties \ {p} : UsedBy(q)' = UsedBy(q)
  BY <1>3, <1>6, <1>12 DEF UsedBy, Read
<1>15. EndsOK'
  <2> SUFFICES ASSUME NEW q \in Parties
               PROVE  IF q \in DOMAIN session'
                      THEN StateOK(session'[q], UsedBy(q)')
                      ELSE UsedBy(q)' = {}
    BY DEF EndsOK
  <2>1. CASE q = p
    BY <1>2, <1>3, <1>13, <2>1
  <2>2. CASE q # p
    BY <1>1, <1>3, <1>14, <2>2 DEF EndsOK
  <2> QED
    BY <2>1, <2>2
<1> QED
  BY <1>8, <1>10, <1>11, <1>15 DEF IInv

(* Alice's first message goes out under a state made from a master secret. *)
LEMMA InitiatePosts ==
  ASSUME IInv, Initiate
  PROVE  \E rk \in RootKey, spk \in Key, new \in Key,
            x3dh \in [eph : Key, ikDh : Key, opkId : {OpkId, Null}] :
           Len(rk) = 1 /\ Post(Alice, initRatchet(rk, spk, new), x3dh)
<1>1. PICK withOpk \in BOOLEAN :
        LET eph == <<Alice, generated[Alice]>>
            bundle == IF withOpk THEN LongTerm(Bob)
                      ELSE [LongTerm(Bob) EXCEPT !.opk = Null]
            rootKey == x3dhSend(LongTerm(Alice), eph, bundle)
        IN  Post(Alice,
                 initRatchet(rootKey, bundle.spk,
                             <<Alice, generated[Alice] + 1>>),
                 [eph |-> eph, ikDh |-> LongTerm(Alice).ikDh,
                  opkId |-> IF withOpk THEN OpkId ELSE Null])
  BY DEF Initiate
<1> DEFINE eph == <<Alice, generated[Alice]>>
           key == <<Alice, generated[Alice] + 1>>
           bundle == IF withOpk THEN LongTerm(Bob)
                     ELSE [LongTerm(Bob) EXCEPT !.opk = Null]
           rootKey == x3dhSend(LongTerm(Alice), eph, bundle)
           st == initRatchet(rootKey, bundle.spk, key)
           x3dh == [eph |-> eph, ikDh |-> LongTerm(Alice).ikDh,
                    opkId |-> IF withOpk THEN OpkId ELSE Null]
<1>2. generated \in [Parties -> Nat] /\ Alice \in Parties /\ Bob \in Parties
  BY DEF IInv, TypeOK, Parties
<1>3. eph \in Key /\ key \in Key /\ generated' \in [Parties -> Nat]
  BY <1>2, KeysAreKeys DEF Initiate
<1>4. /\ bundle.spk \in Key /\ bundle.ikDh \in Key
      /\ bundle.opk # Null => bundle.opk \in Key
  <2>1. CASE withOpk
    BY <1>2, <2>1, KeysAreKeys
  <2>2. CASE ~withOpk
    <3>1. bundle = [LongTerm(Bob) EXCEPT !.opk = Null]
      BY <2>2
    <3>2. bundle.spk = LongTerm(Bob).spk /\ bundle.ikDh = LongTerm(Bob).ikDh
          /\ bundle.opk = Null
      BY <3>1 DEF LongTerm
    <3> QED
      BY <1>2, <3>2, KeysAreKeys
  <2> QED
    BY <2>1, <2>2
<1>5. x3dh \in [eph : Key, ikDh : Key, opkId : {OpkId, Null}]
  BY <1>2, <1>3, KeysAreKeys
<1> HIDE DEF bundle, eph
<1>6. rootKey \in RootKey
  BY <1>2, <1>3, <1>4, KeysAreKeys, X3dhSendType
<1>7. Len(rootKey) = 1
  BY MasterSecretIsOne
<1>8. Post(Alice, st, x3dh)
  BY <1>1 DEF bundle, eph
<1> HIDE DEF rootKey, key, x3dh
<1> QED
  BY <1>3, <1>4, <1>5, <1>6, <1>7, <1>8

(* Such a state has no past.                                               *)
LEMMA InitiateOK == IInv /\ Initiate => IInv'
<1> SUFFICES ASSUME IInv, Initiate PROVE IInv'
  OBVIOUS
<1>1. PICK rk \in RootKey, spk \in Key, new \in Key,
           x3dh \in [eph : Key, ikDh : Key, opkId : {OpkId, Null}] :
        Post(Alice, initRatchet(rk, spk, new), x3dh)
  BY InitiatePosts
<1>2. /\ StateOK(initRatchet(rk, spk, new), {})
      /\ initRatchet(rk, spk, new).sendingChainKey # Null
  BY InitRatchetOK
<1>3. /\ Alice \in Parties /\ UsedBy(Alice) = {}
      /\ written[Alice] < MaxSend /\ generated' \in [Parties -> Nat]
  BY DEF IInv, EndsOK, TypeOK, Initiate, Parties
<1> QED
  BY <1>1, <1>2, <1>3, PostOK

(* A later message goes out under the session, or under its DH step.       *)
LEMMA ContinueOK ==
  ASSUME IInv, NEW p \in Parties, Continue(p)
  PROVE  IInv'
<1> DEFINE key == <<p, generated[p]>>
<1>1. /\ StateOK(session[p], UsedBy(p)) /\ generated \in [Parties -> Nat]
      /\ written[p] < MaxSend
  BY DEF IInv, EndsOK, TypeOK, Continue
<1>2. CASE session[p].sendingChainKey = Null
  <2>1. key \in Key
    BY <1>1, KeysAreKeys
  <2>2. /\ Post(p, dhRatchetStep(session[p], key), Null)
        /\ generated' \in [Parties -> Nat]
    BY <1>1, <1>2 DEF Continue
  <2> HIDE DEF key
  <2>3. /\ StateOK(dhRatchetStep(session[p], key), UsedBy(p))
        /\ dhRatchetStep(session[p], key).sendingChainKey # Null
    BY <1>1, <2>1, DhRatchetStepOK
  <2> QED
    BY <1>1, <2>2, <2>3, PostOK
<1>3. CASE session[p].sendingChainKey # Null
  <2>1. Post(p, session[p], Null) /\ generated' \in [Parties -> Nat]
    BY <1>1, <1>3 DEF Continue
  <2> QED
    BY <1>1, <1>3, <2>1, PostOK
<1> QED
  BY <1>2, <1>3

---------------------------------------------------------------------------
(* Deliveries.                                                             *)

(* The state a message is tried under is well formed: the session, or one  *)
(* rebuilt from the header that has no past.                               *)
LEMMA StateForOK ==
  ASSUME IInv, NEW p \in Parties, NEW m \in net,
         p \in DOMAIN session \/ m.x3dh # Null
  PROVE  StateOK(StateFor(p, m), UsedBy(p))
<1>1. m \in Message
  BY DEF IInv, TypeOK
<1>2. CASE p \in DOMAIN session
  BY <1>2 DEF IInv, EndsOK, StateFor
<1>3. CASE p \notin DOMAIN session
  <2>1. m.x3dh \in [eph : Key, ikDh : Key, opkId : {OpkId, Null}]
    BY <1>1, <1>3 DEF Message
  <2>2. m.ratchetPublic \in Key /\ LongTerm(p).spk \in Key
    BY <1>1, KeysAreKeys DEF Message
  <2> DEFINE rk == x3dhReceive(LongTerm(p),
                               [id \in {OpkId} |-> LongTerm(p).opk], m.x3dh)
  <2>3. rk \in RootKey
    BY <2>1, X3dhReceiveType
  <2>4. StateFor(p, m) = initRatchetReceiver(rk, m, LongTerm(p).spk)
    BY <1>3 DEF StateFor
  <2> HIDE DEF rk
  <2>5. UsedBy(p) = {}
    BY <1>3 DEF IInv, EndsOK
  <2> QED
    BY <2>2, <2>3, <2>4, <2>5, InitRatchetReceiverOK
<1> QED
  BY <1>2, <1>3

(* A delivery that opens the message reads a text not read before, and one *)
(* that does not reads nothing.                                            *)
LEMMA DeliverReads ==
  ASSUME IInv, NEW p \in Parties, NEW m \in net, Deliver(p, m)
  PROVE  LET result == ratchetDecrypt(StateFor(p, m), m, <<p, generated[p]>>)
         IN  /\ DecryptOK(result, m, UsedBy(p))
             /\ \/ /\ result.outcome = "opened"
                   /\ m.text \notin Range(log[p])
                   /\ log' = [log EXCEPT ![p] = Append(@, m.text)]
                \/ /\ result.outcome # "opened"
                   /\ UNCHANGED log
<1> DEFINE key == <<p, generated[p]>>
           result == ratchetDecrypt(StateFor(p, m), m, key)
<1>1. StateOK(StateFor(p, m), UsedBy(p))
  BY StateForOK DEF Deliver
<1>2. /\ m.Ns \in Nat /\ m.PN \in Nat /\ m.ratchetPublic \in Key
      /\ generated[p] \in Nat
  BY DEF IInv, TypeOK, Message
<1>3. key \in Key
  BY <1>2, KeysAreKeys
<1>4. /\ result.outcome = "opened" =>
           log' = [log EXCEPT ![p] = Append(@, m.text)]
      /\ result.outcome # "opened" => UNCHANGED log
  BY DEF Deliver
<1> HIDE DEF key
<1>5. DecryptOK(result, m, UsedBy(p))
  BY <1>1, <1>2, <1>3, RatchetDecryptOK
<1> HIDE DEF result
<1>6. ASSUME result.outcome = "opened" PROVE m.text \notin Range(log[p])
  <2>1. m.messageKey \notin UsedBy(p)
    BY <1>5, <1>6 DEF DecryptOK, Opened
  <2> QED
    BY <2>1 DEF UsedBy, Read
<1> QED
  BY <1>4, <1>5, <1>6 DEF result, key

(* A delivery keeps the invariant, whether or not the message opens.       *)
LEMMA DeliverOK ==
  ASSUME IInv, NEW p \in Parties, NEW m \in net, Deliver(p, m)
  PROVE  IInv'
<1> DEFINE result == ratchetDecrypt(StateFor(p, m), m, <<p, generated[p]>>)
<1>1. TypeOK /\ NetOK /\ LogOK /\ EndsOK /\ AtMostOnce
  BY DEF IInv
<1>2. /\ DecryptOK(result, m, UsedBy(p))
      /\ \/ /\ result.outcome = "opened"
            /\ m.text \notin Range(log[p])
            /\ log' = [log EXCEPT ![p] = Append(@, m.text)]
         \/ /\ result.outcome # "opened"
            /\ UNCHANGED log
  BY DeliverReads
<1>3. /\ m.text.from # p
      /\ IF p \in DOMAIN session \/ result.outcome = "opened"
         THEN session' = [q \in DOMAIN session \cup {p} |->
                            IF q = p THEN result.st ELSE session[q]]
         ELSE UNCHANGED session
      /\ generated' =
           [generated EXCEPT ![p] =
              IF result.st.localRatchet = <<p, @>> THEN @ + 1 ELSE @]
      /\ handed' = [handed EXCEPT ![p] = @ \cup {m.text}]
      /\ UNCHANGED <<written, net>>
  BY DEF Deliver, Keep
<1>3a. lost' = lost \/ lost' = [lost EXCEPT ![p] = @ \cup
                                   ({m.text} \ handed[p])]
  BY DEF Deliver
<1>3b. replays' = replays \/ (replays < MaxReplays /\ replays' = replays + 1)
  BY DEF Deliver
<1> HIDE DEF result
<1>4. m \in Message /\ m.text \in Text
  BY <1>1 DEF TypeOK, Message
<1>5. IsRatchetState(result.st)
  BY <1>2 DEF DecryptOK, StateOK
<1>6. TypeOK'
  <2>1. /\ DOMAIN session' \subseteq Parties
        /\ session' = [q \in DOMAIN session' |-> session'[q]]
        /\ \A q \in DOMAIN session' : IsRatchetState(session'[q])
    <3>1. CASE p \in DOMAIN session \/ result.outcome = "opened"
      <4>1. session' = [q \in DOMAIN session \cup {p} |->
                          IF q = p THEN result.st ELSE session[q]]
        BY <1>3, <3>1
      <4> QED
        BY <1>1, <1>5, <4>1 DEF TypeOK
    <3>2. CASE ~(p \in DOMAIN session \/ result.outcome = "opened")
      BY <1>1, <1>3, <3>2 DEF TypeOK
    <3> QED
      BY <3>1, <3>2
  <2>2. \A q \in DOMAIN session' : IsRatchetState(session[q])'
    BY <2>1 DEF IsRatchetState
  <2>3. generated' \in [Parties -> Nat]
    BY <1>1, <1>3 DEF TypeOK
  <2>4. handed' \in [Parties -> SUBSET Text]
        /\ lost' \in [Parties -> SUBSET Text]
    <3>1. /\ handed \in [Parties -> SUBSET Text]
          /\ lost \in [Parties -> SUBSET Text]
      BY <1>1 DEF TypeOK
    <3>2. handed[p] \cup {m.text} \in SUBSET Text
          /\ lost[p] \cup ({m.text} \ handed[p]) \in SUBSET Text
      BY <1>4, <3>1
    <3> QED
      BY <1>3, <1>3a, <3>1, <3>2
  <2>5. replays' \in 0..MaxReplays
    BY <1>1, <1>3b, BoundsAssumption DEF TypeOK
  <2>6. log' \in [Parties -> Seq(Text)]
    <3>1. \A t \in Text : Append(log[p], t) \in Seq(Text)
      BY <1>1 DEF TypeOK
    <3> QED
      BY <1>1, <1>2, <1>4, <3>1 DEF TypeOK
  <2>7. written' \in [Parties -> 0..MaxSend] /\ net' \subseteq Message
    BY <1>1, <1>3 DEF TypeOK
  <2> QED
    BY <2>1, <2>2, <2>3, <2>4, <2>5, <2>6, <2>7 DEF TypeOK
<1>7. NetOK'
  BY <1>1, <1>3 DEF NetOK
<1>8. log \in [Parties -> Seq(Text)]
  BY <1>1 DEF TypeOK
<1>9. CASE result.outcome = "opened"
  <2>1. /\ m.text \notin Range(log[p])
        /\ log' = [log EXCEPT ![p] = Append(@, m.text)]
    BY <1>2, <1>9
  <2>2. Opened(result, m) = {m.messageKey}
    BY <1>9 DEF Opened
  <2>3. /\ log'[p] = Append(log[p], m.text)
        /\ DOMAIN log'[p] = DOMAIN log[p] \cup {Len(log[p]) + 1}
        /\ \A i \in DOMAIN log[p] : log'[p][i] = log[p][i]
        /\ log'[p][Len(log[p]) + 1] = m.text
        /\ \A q \in Parties \ {p} : log'[q] = log[q]
    BY <1>4, <1>8, <2>1
  <2>4. LogOK'
    BY <1>1, <1>3, <2>3 DEF LogOK
  <2>5. AtMostOnce'
    BY <1>1, <2>1, <2>3 DEF AtMostOnce, IsInjective, Range
  <2>6. Range(log'[p]) = Range(log[p]) \cup {m.text}
    BY <2>3 DEF Range
  <2>7. UsedBy(p)' = UsedBy(p) \cup {m.messageKey}
    <3>1. \A x \in net : x.text = m.text => x = m
      BY <1>1 DEF NetOK
    <3> QED
      BY <1>3, <2>6, <3>1 DEF UsedBy, Read
  <2>8. \A q \in Parties \ {p} : UsedBy(q)' = UsedBy(q)
    BY <1>3, <2>3 DEF UsedBy, Read
  <2>9. EndsOK'
    <3>1. StateOK(result.st, UsedBy(p)')
      BY <1>2, <2>2, <2>7 DEF DecryptOK
    <3>2. session' = [q \in DOMAIN session \cup {p} |->
                        IF q = p THEN result.st ELSE session[q]]
      BY <1>3, <1>9
    <3> SUFFICES ASSUME NEW q \in Parties
                 PROVE  IF q \in DOMAIN session'
                        THEN StateOK(session'[q], UsedBy(q)')
                        ELSE UsedBy(q)' = {}
      BY DEF EndsOK
    <3>3. CASE q = p
      BY <3>1, <3>2, <3>3
    <3>4. CASE q # p
      BY <1>1, <2>8, <3>2, <3>4 DEF EndsOK
    <3> QED
      BY <3>3, <3>4
  <2> QED
    BY <1>6, <1>7, <2>4, <2>5, <2>9 DEF IInv
<1>10. CASE result.outcome # "opened"
  <2>1. log' = log
    BY <1>2, <1>10
  <2>2. Opened(result, m) = {} /\ UsedBy(p) \cup {} = UsedBy(p)
    BY <1>10 DEF Opened
  <2>3. \A q \in Parties : UsedBy(q)' = UsedBy(q)
    BY <1>3, <2>1 DEF UsedBy, Read
  <2>4. LogOK' /\ AtMostOnce'
    BY <1>1, <1>3, <2>1 DEF LogOK, AtMostOnce
  <2>5. StateOK(result.st, UsedBy(p))
    BY <1>2, <2>2 DEF DecryptOK
  <2>6. EndsOK'
    BY <1>1, <1>3, <1>10, <2>3, <2>5 DEF EndsOK
  <2> QED
    BY <1>6, <1>7, <2>4, <2>6 DEF IInv
<1> QED
  BY <1>9, <1>10

---------------------------------------------------------------------------
(* The theorems.                                                           *)

(* Nothing changes when no variable does.                                  *)
LEMMA StutterOK == IInv /\ UNCHANGED vars => IInv'
<1> SUFFICES ASSUME IInv, UNCHANGED vars PROVE IInv'
  OBVIOUS
<1>1. TypeOK'
  BY DEF IInv, TypeOK, IsRatchetState, vars
<1>2. NetOK' /\ LogOK' /\ AtMostOnce'
  BY DEF IInv, NetOK, LogOK, AtMostOnce, vars
<1>3. \A p \in Parties : UsedBy(p)' = UsedBy(p)
  BY DEF UsedBy, Read, vars
<1>4. EndsOK'
  BY <1>3 DEF IInv, EndsOK, vars
<1> QED
  BY <1>1, <1>2, <1>4 DEF IInv

(* The invariant is inductive.                                             *)
THEOREM Invariance == Spec => []IInv
<1>1. IInv /\ [Next]_vars => IInv'
  BY InitiateOK, ContinueOK, DeliverOK, StutterOK DEF Next
<1> QED
  BY <1>1, InitOK, PTL DEF Spec

(* A conversation's state stays well formed: a chain key is null or a key, *)
(* a counter a number, whatever the network does.                          *)
THEOREM TypeCorrect == Spec => []TypeOK
<1>1. IInv => TypeOK
  BY DEF IInv
<1> QED
  BY <1>1, Invariance, PTL

(* No text is read twice, however often and in whatever order the mailbox  *)
(* hands its message to ratchetDecrypt.                                    *)
THEOREM ReadAtMostOnce == Spec => []AtMostOnce
<1>1. IInv => AtMostOnce
  BY DEF IInv
<1> QED
  BY <1>1, Invariance, PTL

(* A ratchet state never lets its holder compute the key of a message the  *)
(* party has already sent or read.                                         *)
THEOREM PastKeysGone == Spec => []ForwardSecrecy
<1>1. IInv => ForwardSecrecy
  <2> SUFFICES ASSUME IInv, NEW p \in Parties, NEW m \in net,
                      m.text.from = p \/ Read(p, m)
               PROVE  p \in DOMAIN session
                      /\ ~Derivable(session[p], m.messageKey)
    BY DEF ForwardSecrecy
  <2>1. m.messageKey \in UsedBy(p)
    BY DEF UsedBy
  <2>2. p \in DOMAIN session /\ StateOK(session[p], UsedBy(p))
    BY <2>1 DEF IInv, EndsOK
  <2> QED
    BY <2>1, <2>2, GoneNotDerivable
<1> QED
  BY <1>1, Invariance, PTL

(* A conversation implements SecureChannel: a step sends one new text,     *)
(* reads one the other party wrote and this one had not read, or does      *)
(* neither.                                                                *)
THEOREM Implementation == Spec => ImplementsChannel
<1>1. Init => Channel!Init
  BY DEF Init, Channel!Init
<1>2. IInv /\ [Next]_vars => [Channel!Next]_<<{m.text : m \in net}, log>>
  <2> SUFFICES ASSUME IInv, [Next]_vars
               PROVE  [Channel!Next]_<<{m.text : m \in net}, log>>
    OBVIOUS
  <2>1. ASSUME NEW p \in Parties, NEW st, NEW x3dh, Post(p, st, x3dh),
               written[p] < MaxSend
        PROVE  Channel!Next
    <3> DEFINE text == [from |-> p, n |-> written[p]]
    <3>1. text \in Text
      BY <2>1, BoundsAssumption DEF IInv, TypeOK, Text
    <3>2. text \notin {m.text : m \in net}
      BY DEF IInv, NetOK, TypeOK, Message, Text
    <3> HIDE DEF text
    <3>3. PICK new : new.text = text /\ net' = net \cup {new} /\ log' = log
      BY <2>1 DEF Post, text
    <3>4. {m.text : m \in net'} = {m.text : m \in net} \cup {text}
      BY <3>3
    <3> QED
      BY <3>1, <3>2, <3>3, <3>4 DEF Channel!Next, Channel!Send
  <2>2. CASE Initiate
    BY <2>1, <2>2 DEF Initiate, Parties
  <2>3. ASSUME NEW p \in Parties, Continue(p) PROVE Channel!Next
    BY <2>1, <2>3 DEF Continue
  <2>4. ASSUME NEW p \in Parties, NEW m \in net, Deliver(p, m)
        PROVE  Channel!Next \/ UNCHANGED <<{x.text : x \in net}, log>>
    <3>1. \/ /\ m.text \notin Range(log[p])
             /\ log' = [log EXCEPT ![p] = Append(@, m.text)]
          \/ UNCHANGED log
      BY <2>4, DeliverReads
    <3>2. m.text \in Text /\ m.text.from # p /\ UNCHANGED net
      BY <2>4 DEF Deliver, IInv, TypeOK, Message
    <3>3. CASE /\ m.text \notin Range(log[p])
               /\ log' = [log EXCEPT ![p] = Append(@, m.text)]
      <4>1. Channel!Read(p, m.text)
        BY <3>2, <3>3 DEF Channel!Read, Channel!Range, Range
      <4> QED
        BY <3>2, <4>1 DEF Channel!Next
    <3> QED
      BY <3>1, <3>2, <3>3
  <2>5. CASE UNCHANGED vars
    BY <2>5 DEF vars
  <2> QED
    BY <2>2, <2>3, <2>4, <2>5 DEF Next
<1> QED
  BY <1>1, <1>2, Invariance, PTL DEF Spec, ImplementsChannel, Channel!Spec
---------------------------------------------------------------------------
(* No key seals two messages.                                              *)

(* The chains a party sends on have ids of its own parity: every two-phase *)
(* step makes the root key longer by two, and Bob's first step, alone, by  *)
(* one.                                                                    *)
Side(p) == IF p = Alice THEN 0 ELSE 1
OnSide(p, ck) == \E k \in Nat : Len(ck.id) = 2 * k + Side(p)

SendingOK(p, st) ==
  st.sendingChainKey # Null =>
    OnSide(p, st.sendingChainKey)
    /\ Len(st.sendingChainKey.id) = Len(st.rootKey)

(* Bob cannot have sent: he has no session, or one without a sending chain.*)
BobIsSilent ==
  Bob \in DOMAIN session => session[Bob].sendingChainKey = Null

(* As long as Bob has not sent, Alice has one ratchet key, and he no reason*)
(* to make the two-phase step, which would put him on her side.            *)
SidesOK ==
  /\ net # {} => Alice \in DOMAIN session
  /\ \A m \in net : /\ OnSide(m.text.from, m.messageKey)
                    /\ m.x3dh # Null => m.text.from = Alice
  /\ \A p \in DOMAIN session : SendingOK(p, session[p])
  /\ Bob \in DOMAIN session => Alice \in DOMAIN session
  /\ Alice \in DOMAIN session => session[Alice].sendingChainKey # Null
  /\ BobIsSilent =>
       \A m \in net : /\ m.text.from = Alice
                      /\ m.ratchetPublic = session[Alice].localRatchet
  /\ BobIsSilent /\ Bob \in DOMAIN session =>
       /\ session[Bob].remoteRatchetPublic = session[Alice].localRatchet
       /\ Len(session[Bob].rootKey) = 2

OnceInv == IInv /\ SidesOK /\ OneKeyPerMessage

(* How a chain is shown to be on a side, ...                               *)
LEMMA SideWitness ==
  ASSUME NEW p, NEW ck, NEW k \in Nat, Len(ck.id) = 2 * k + Side(p)
  PROVE  OnSide(p, ck)
BY Zenon DEF OnSide

(* ... and no chain is on both.                                            *)
LEMMA SidesApart ==
  ASSUME NEW p \in Parties, NEW q \in Parties, p # q, NEW ck,
         OnSide(p, ck), OnSide(q, ck)
  PROVE  FALSE
BY PartiesAssumption DEF OnSide, Side, Parties

(* The initiator's sending chain is the second link, ...                   *)
LEMMA InitRatchetSending ==
  ASSUME NEW rk \in RootKey, Len(rk) = 1, NEW spk \in Key, NEW new \in Key
  PROVE  SendingOK(Alice, initRatchet(rk, spk, new))
<1> DEFINE d == kdfRk(rk, agree(new, spk))
<1>1. /\ Len(d.rootKey) = Len(rk) + 1
      /\ d.chainKey = [id |-> d.rootKey, step |-> 0]
  BY RootKeyGrows
<1> HIDE DEF d
<1>2. /\ initRatchet(rk, spk, new).rootKey = d.rootKey
      /\ initRatchet(rk, spk, new).sendingChainKey = d.chainKey
  BY DEF initRatchet, d
<1>3. d.chainKey.id = d.rootKey /\ Len(d.rootKey) = 2 * 1 + Side(Alice)
  BY <1>1 DEF Side
<1>4. OnSide(Alice, d.chainKey)
  BY <1>3, SideWitness
<1> QED
  BY <1>2, <1>3, <1>4 DEF SendingOK

(* ... and the responder's the third.                                      *)
LEMMA DhRatchetStepSending ==
  ASSUME NEW st, IsRatchetState(st), Len(st.rootKey) = 2, NEW key \in Key
  PROVE  SendingOK(Bob, dhRatchetStep(st, key))
<1> DEFINE d == kdfRk(st.rootKey, agree(key, st.remoteRatchetPublic))
<1>1. st.rootKey \in RootKey /\ st.remoteRatchetPublic \in Key
  BY DEF IsRatchetState
<1>2. /\ Len(d.rootKey) = Len(st.rootKey) + 1
      /\ d.chainKey = [id |-> d.rootKey, step |-> 0]
  BY <1>1, RootKeyGrows
<1> HIDE DEF d
<1>3. /\ dhRatchetStep(st, key).rootKey = d.rootKey
      /\ dhRatchetStep(st, key).sendingChainKey = d.chainKey
  BY DEF dhRatchetStep, IsRatchetState, d
<1>4. d.chainKey.id = d.rootKey /\ Len(d.rootKey) = 2 * 1 + Side(Bob)
  BY <1>2, PartiesAssumption DEF Side
<1>5. OnSide(Bob, d.chainKey)
  BY <1>4, SideWitness
<1> QED
  BY <1>3, <1>4, <1>5 DEF SendingOK

(* A state that was received into stays on its side.                       *)
LEMMA ReceivedSending ==
  ASSUME NEW p \in Parties, NEW st, NEW new, NEW msg, NEW key,
         IsRatchetState(st), SendingOK(p, st), st.sendingChainKey # Null,
         SameRatchet(st, new) \/ Stepped(st, new, msg, key)
  PROVE  SendingOK(p, new) /\ new.sendingChainKey # Null
<1>1. CASE SameRatchet(st, new)
  BY <1>1 DEF SameRatchet, SendingOK
<1>2. CASE Stepped(st, new, msg, key)
  <2>1. PICK k \in Nat : Len(st.rootKey) = 2 * k + Side(p)
    BY DEF SendingOK, OnSide
  <2> DEFINE next == k + 1
  <2>2. next \in Nat /\ Len(new.sendingChainKey.id) = 2 * next + Side(p)
    BY <1>2, <2>1 DEF Stepped, Side
  <2> HIDE DEF next
  <2>3. OnSide(p, new.sendingChainKey)
    BY <2>2, SideWitness
  <2> QED
    BY <1>2, <2>3, NullAssumption DEF Stepped, SendingOK
<1> QED
  BY <1>1, <1>2

(* A post keeps the parties apart and uses a key of its own: not of the    *)
(* sender's past, since that is gone, nor of the other's, who is on        *)
(* another side.                                                           *)
LEMMA PostOnce ==
  ASSUME OnceInv, NEW p \in Parties, NEW st, StateOK(st, UsedBy(p)),
         st.sendingChainKey # Null, SendingOK(p, st),
         NEW x3dh, x3dh # Null => p = Alice,
         IF p = Alice
         THEN IF Alice \in DOMAIN session
              THEN st.localRatchet = session[Alice].localRatchet
              ELSE net = {} /\ Bob \notin DOMAIN session
         ELSE Bob \in DOMAIN session /\ Alice \in DOMAIN session,
         Post(p, st, x3dh)
  PROVE  SidesOK' /\ OneKeyPerMessage'
<1> DEFINE enc == ratchetEncrypt(st)
           new == [text |-> [from |-> p, n |-> written[p]], x3dh |-> x3dh,
                   ratchetPublic |-> enc.header.ratchetPublic,
                   Ns |-> enc.header.Ns, PN |-> enc.header.PN,
                   messageKey |-> enc.messageKey]
<1>1. IInv /\ SidesOK /\ OneKeyPerMessage
  BY DEF OnceInv
<1>2. IsRatchetState(st) /\ enc.messageKey \notin UsedBy(p)
  BY EncryptOK DEF StateOK
<1>3. /\ enc.messageKey = st.sendingChainKey
      /\ enc.header.ratchetPublic = st.localRatchet
      /\ enc.st.localRatchet = st.localRatchet
      /\ enc.st.rootKey = st.rootKey
      /\ enc.st.remoteRatchetPublic = st.remoteRatchetPublic
      /\ enc.st.sendingChainKey # Null
      /\ enc.st.sendingChainKey.id = st.sendingChainKey.id
  BY <1>2, EncryptSending
<1> HIDE DEF enc
<1>4. /\ net' = net \cup {new}
      /\ session' = [q \in DOMAIN session \cup {p} |->
                       IF q = p THEN enc.st ELSE session[q]]
  BY DEF Post, Keep, enc
<1>5. /\ new.text.from = p /\ new.messageKey = st.sendingChainKey
      /\ new.x3dh = x3dh /\ new.ratchetPublic = st.localRatchet
  BY <1>3
<1> HIDE DEF new
<1>6. OnSide(p, new.messageKey) /\ SendingOK(p, enc.st)
  BY <1>3, <1>5 DEF SendingOK, OnSide
<1>7. \A m \in net : m.text.from \in Parties
  BY <1>1 DEF IInv, TypeOK, Message, Text
<1>8. \A m \in net : m.messageKey # new.messageKey
  <2> SUFFICES ASSUME NEW m \in net, m.messageKey = new.messageKey
               PROVE  FALSE
    OBVIOUS
  <2>1. CASE m.text.from = p
    BY <1>2, <1>3, <1>5, <2>1 DEF UsedBy
  <2>2. CASE m.text.from # p
    BY <1>1, <1>6, <1>7, <2>2, SidesApart DEF SidesOK
  <2> QED
    BY <2>1, <2>2
<1>9. OneKeyPerMessage'
  BY <1>1, <1>4, <1>8 DEF OneKeyPerMessage
<1>10. CASE p = Alice
  <2>1. session'[Alice] = enc.st /\ Alice \in DOMAIN session'
        /\ (Bob \in DOMAIN session' <=> Bob \in DOMAIN session)
        /\ (Bob \in DOMAIN session => session'[Bob] = session[Bob])
    BY <1>4, <1>10, PartiesAssumption
  <2>2. BobIsSilent' <=> BobIsSilent
    BY <2>1 DEF BobIsSilent
  <2>3. \A q \in DOMAIN session' : SendingOK(q, session'[q])
    BY <1>1, <1>4, <1>6 DEF SidesOK
  <2>4. \A m \in net' : /\ OnSide(m.text.from, m.messageKey)
                        /\ m.x3dh # Null => m.text.from = Alice
    BY <1>1, <1>4, <1>5, <1>6, <1>10 DEF SidesOK
  <2>5. BobIsSilent =>
          \A m \in net' : /\ m.text.from = Alice
                          /\ m.ratchetPublic = session'[Alice].localRatchet
    BY <1>1, <1>3, <1>4, <1>5, <1>10, <2>1 DEF SidesOK
  <2>6. BobIsSilent /\ Bob \in DOMAIN session' =>
          /\ session'[Bob].remoteRatchetPublic = session'[Alice].localRatchet
          /\ Len(session'[Bob].rootKey) = 2
    BY <1>1, <1>3, <1>10, <2>1 DEF SidesOK
  <2> QED
    BY <1>3, <1>9, <2>1, <2>2, <2>3, <2>4, <2>5, <2>6 DEF SidesOK
<1>11. CASE p # Alice
  <2>1. p = Bob
    BY <1>11 DEF Parties
  <2>2. ~BobIsSilent'
    BY <1>3, <1>4, <2>1 DEF BobIsSilent
  <2>3. \A q \in DOMAIN session' : SendingOK(q, session'[q])
    BY <1>1, <1>4, <1>6 DEF SidesOK
  <2>4. \A m \in net' : /\ OnSide(m.text.from, m.messageKey)
                        /\ m.x3dh # Null => m.text.from = Alice
    BY <1>1, <1>4, <1>5, <1>6, <1>11 DEF SidesOK
  <2>5. Alice \in DOMAIN session' /\ session'[Alice] = session[Alice]
    BY <1>4, <1>11
  <2> QED
    BY <1>1, <1>9, <1>11, <2>2, <2>3, <2>4, <2>5 DEF SidesOK
<1> QED
  BY <1>10, <1>11

(* Alice's first message is the first of all.                              *)
LEMMA InitiateOnce ==
  ASSUME OnceInv, Initiate
  PROVE  SidesOK' /\ OneKeyPerMessage'
<1>1. IInv /\ SidesOK
  BY DEF OnceInv
<1>2. PICK rk \in RootKey, spk \in Key, new \in Key,
           x3dh \in [eph : Key, ikDh : Key, opkId : {OpkId, Null}] :
        Len(rk) = 1 /\ Post(Alice, initRatchet(rk, spk, new), x3dh)
  BY <1>1, InitiatePosts
<1>3. /\ StateOK(initRatchet(rk, spk, new), {})
      /\ initRatchet(rk, spk, new).sendingChainKey # Null
      /\ SendingOK(Alice, initRatchet(rk, spk, new))
  BY <1>2, InitRatchetOK, InitRatchetSending
<1>4. /\ Alice \in Parties /\ UsedBy(Alice) = {}
      /\ Alice \notin DOMAIN session
      /\ net = {} /\ Bob \notin DOMAIN session
  BY <1>1 DEF IInv, EndsOK, Initiate, Parties, SidesOK
<1> QED
  BY <1>2, <1>3, <1>4, PostOnce

(* Alice can always send in a session; Bob, before his DH step, is silent. *)
LEMMA ContinueOnce ==
  ASSUME OnceInv, NEW p \in Parties, Continue(p)
  PROVE  SidesOK' /\ OneKeyPerMessage'
<1> DEFINE key == <<p, generated[p]>>
<1>1. /\ IInv /\ SidesOK /\ p \in DOMAIN session
      /\ StateOK(session[p], UsedBy(p)) /\ generated[p] \in Nat
  BY DEF OnceInv, IInv, EndsOK, TypeOK, Continue
<1>2. Bob \in DOMAIN session => Alice \in DOMAIN session
  BY <1>1 DEF SidesOK
<1>3. CASE session[p].sendingChainKey = Null
  <2>1. p = Bob /\ Len(session[Bob].rootKey) = 2
    BY <1>1, <1>3 DEF SidesOK, BobIsSilent, Parties
  <2>2. key \in Key /\ Post(p, dhRatchetStep(session[p], key), Null)
    BY <1>1, <1>3, KeysAreKeys DEF Continue
  <2> HIDE DEF key
  <2>3. /\ StateOK(dhRatchetStep(session[p], key), UsedBy(p))
        /\ dhRatchetStep(session[p], key).sendingChainKey # Null
    BY <1>1, <2>2, DhRatchetStepOK
  <2>4. SendingOK(p, dhRatchetStep(session[p], key))
    BY <1>1, <2>1, <2>2, DhRatchetStepSending DEF StateOK
  <2> QED
    BY <1>1, <1>2, <2>1, <2>2, <2>3, <2>4, PartiesAssumption, PostOnce
<1>4. CASE session[p].sendingChainKey # Null
  <2>1. Post(p, session[p], Null) /\ SendingOK(p, session[p])
    BY <1>1, <1>4 DEF Continue, SidesOK
  <2> QED
    BY <1>1, <1>2, <1>4, <2>1, PostOnce DEF Parties
<1> QED
  BY <1>3, <1>4

(* A delivery leaves each party on its side.  Bob does not step before he  *)
(* has sent: all that comes to him until then is under one ratchet key.    *)
LEMMA DeliverOnce ==
  ASSUME OnceInv, NEW p \in Parties, NEW m \in net, Deliver(p, m)
  PROVE  SidesOK' /\ OneKeyPerMessage'
<1> DEFINE key == <<p, generated[p]>>
           st == StateFor(p, m)
           result == ratchetDecrypt(st, m, key)
<1>1. IInv /\ SidesOK /\ OneKeyPerMessage
  BY DEF OnceInv
<1>2. /\ m.text.from # p /\ m.text.from \in Parties
      /\ p \in DOMAIN session \/ m.x3dh # Null
      /\ UNCHANGED net
      /\ IF p \in DOMAIN session \/ result.outcome = "opened"
         THEN session' = [q \in DOMAIN session \cup {p} |->
                            IF q = p THEN result.st ELSE session[q]]
         ELSE UNCHANGED session
  BY <1>1 DEF Deliver, Keep, IInv, TypeOK, Message, Text
<1>3. OneKeyPerMessage'
  BY <1>1, <1>2 DEF OneKeyPerMessage
<1>4. /\ m.Ns \in Nat /\ m.PN \in Nat /\ m.ratchetPublic \in Key
      /\ key \in Key
  BY <1>1, KeysAreKeys DEF IInv, TypeOK, Message
<1>5. StateOK(st, UsedBy(p))
  BY <1>1, <1>2, StateForOK
<1> HIDE DEF key, st
<1>6. SameRatchet(st, result.st) \/ Stepped(st, result.st, m, key)
  BY <1>4, <1>5, DecryptSending
<1>7. IsRatchetState(st)
  BY <1>5 DEF StateOK
<1> HIDE DEF result
<1>8. Alice \in DOMAIN session
  BY <1>1 DEF SidesOK
<1>9. CASE p = Alice
  <2>1. ~BobIsSilent /\ Bob \in DOMAIN session
    BY <1>1, <1>2, <1>9 DEF SidesOK, BobIsSilent
  <2>2. st = session[Alice] /\ SendingOK(Alice, st) /\ st.sendingChainKey # Null
    BY <1>1, <1>8, <1>9 DEF st, StateFor, SidesOK
  <2>3. SendingOK(Alice, result.st) /\ result.st.sendingChainKey # Null
    BY <1>6, <1>7, <1>9, <2>2, ReceivedSending
  <2>4. session' = [session EXCEPT ![Alice] = result.st]
    BY <1>1, <1>2, <1>8, <1>9 DEF IInv, TypeOK
  <2>5. ~BobIsSilent'
    BY <2>1, <2>4, PartiesAssumption DEF BobIsSilent
  <2>6. \A q \in DOMAIN session' : SendingOK(q, session'[q])
    BY <1>1, <2>3, <2>4 DEF SidesOK
  <2> QED
    BY <1>1, <1>2, <1>3, <1>8, <2>3, <2>4, <2>5, <2>6 DEF SidesOK
<1>10. CASE p = Bob /\ ~BobIsSilent
  <2>1. Bob \in DOMAIN session /\ session[Bob].sendingChainKey # Null
    BY <1>10 DEF BobIsSilent
  <2>2. st = session[Bob] /\ SendingOK(Bob, st)
    BY <1>1, <1>10, <2>1 DEF st, StateFor, SidesOK
  <2>3. SendingOK(Bob, result.st) /\ result.st.sendingChainKey # Null
    BY <1>6, <1>7, <1>10, <2>1, <2>2, ReceivedSending
  <2>4. /\ DOMAIN session' = DOMAIN session
        /\ session'[Bob] = result.st /\ session'[Alice] = session[Alice]
    BY <1>2, <1>8, <1>10, <2>1, PartiesAssumption
  <2>5. ~BobIsSilent'
    BY <2>1, <2>3, <2>4 DEF BobIsSilent
  <2>6. \A q \in DOMAIN session' : SendingOK(q, session'[q])
    BY <1>1, <1>2, <1>10, <2>1, <2>3 DEF SidesOK
  <2> QED
    BY <1>1, <1>2, <1>3, <2>4, <2>5, <2>6 DEF SidesOK
<1>11. CASE p = Bob /\ BobIsSilent
  <2>1. m.ratchetPublic = session[Alice].localRatchet
    BY <1>1, <1>11 DEF SidesOK
  <2>2. /\ st.remoteRatchetPublic = m.ratchetPublic
        /\ st.sendingChainKey = Null /\ Len(st.rootKey) = 2
    <3>1. CASE Bob \in DOMAIN session
      BY <1>1, <1>11, <2>1, <3>1 DEF st, StateFor, SidesOK, BobIsSilent
    <3>2. CASE Bob \notin DOMAIN session
      <4> DEFINE rk == x3dhReceive(LongTerm(Bob),
                           [id \in {OpkId} |-> LongTerm(Bob).opk], m.x3dh)
                 d == kdfRk(rk, agree(LongTerm(Bob).spk, m.ratchetPublic))
      <4>1. m.x3dh \in [eph : Key, ikDh : Key, opkId : {OpkId, Null}]
        BY <1>1, <1>2, <1>11, <3>2 DEF IInv, TypeOK, Message
      <4>2. rk \in RootKey /\ Len(rk) = 1 /\ LongTerm(Bob).spk \in Key
        BY <1>11, <4>1, X3dhReceiveType, MasterSecretIsOne, KeysAreKeys
      <4>3. st = initRatchetReceiver(rk, m, LongTerm(Bob).spk)
        BY <1>11, <3>2 DEF st, StateFor
      <4> HIDE DEF rk
      <4>4. Len(d.rootKey) = Len(rk) + 1
        BY <1>4, <4>2, RootKeyGrows
      <4> QED
        BY <4>2, <4>3, <4>4 DEF initRatchetReceiver
    <3> QED
      BY <3>1, <3>2
  <2>3. SameRatchet(st, result.st)
    BY <1>6, <2>2 DEF Stepped
  <2>4. /\ result.st.sendingChainKey = Null
        /\ result.st.remoteRatchetPublic = session[Alice].localRatchet
        /\ Len(result.st.rootKey) = 2
    BY <2>1, <2>2, <2>3 DEF SameRatchet
  <2>5. \/ UNCHANGED session
        \/ session' = [q \in DOMAIN session \cup {Bob} |->
                         IF q = Bob THEN result.st ELSE session[q]]
    BY <1>2, <1>11
  <2>6. /\ Alice \in DOMAIN session' /\ session'[Alice] = session[Alice]
        /\ BobIsSilent'
        /\ \A q \in DOMAIN session' : SendingOK(q, session'[q])
    BY <1>1, <1>8, <1>11, <2>4, <2>5, PartiesAssumption
    DEF BobIsSilent, SidesOK, SendingOK
  <2> QED
    BY <1>1, <1>2, <1>3, <1>11, <2>4, <2>5, <2>6 DEF SidesOK
<1> QED
  BY <1>9, <1>10, <1>11 DEF Parties

(* The invariant is inductive.                                             *)
LEMMA OnceInvariance == Spec => []OnceInv
<1>1. Init => OnceInv
  <2> SUFFICES ASSUME Init PROVE OnceInv
    OBVIOUS
  <2>1. DOMAIN session = {} /\ net = {}
    BY DEF Init
  <2> QED
    BY <2>1, InitOK DEF OnceInv, SidesOK, OneKeyPerMessage
<1>2. OnceInv /\ [Next]_vars => OnceInv'
  <2> SUFFICES ASSUME OnceInv, [Next]_vars PROVE OnceInv'
    OBVIOUS
  <2>1. IInv'
    BY InitiateOK, ContinueOK, DeliverOK, StutterOK DEF Next, OnceInv
  <2>2. CASE UNCHANGED vars
    BY <2>1, <2>2
    DEF vars, OnceInv, SidesOK, BobIsSilent, OneKeyPerMessage
  <2>3. CASE Next
    BY <2>1, <2>3, InitiateOnce, ContinueOnce, DeliverOnce DEF Next, OnceInv
  <2> QED
    BY <2>2, <2>3
<1> QED
  BY <1>1, <1>2, PTL DEF Spec

(* No message key seals two messages, whoever of the two wrote them and    *)
(* whatever the network lost, repeated and reordered: AES-GCM is never     *)
(* called twice under one key.                                             *)
THEOREM KeysUsedOnce == Spec => []OneKeyPerMessage
<1>1. OnceInv => OneKeyPerMessage
  BY DEF OnceInv
<1> QED
  BY <1>1, OnceInvariance, PTL

---------------------------------------------------------------------------
(* What is written, and under which names.                                 *)

Other(p) == IF p = Alice THEN Bob ELSE Alice
From(p) == {m \in net : m.text.from = p}

(* k is one of the first n key pairs of p.                                 *)
MadeBy(p, n, k) == k[1] = p /\ k[2] < n

(* Every ratchet key in use is its owner's, and was made before.           *)
NamesOK ==
  /\ \A p \in Parties : generated[p] > 1
  /\ \A m \in net :
       MadeBy(m.text.from, generated[m.text.from], m.ratchetPublic)
  /\ \A p \in DOMAIN session :
       /\ MadeBy(p, generated[p], session[p].localRatchet)
       /\ MadeBy(Other(p), generated[Other(p)],
                 session[p].remoteRatchetPublic)

(* Each end is where its last message has left it.                         *)
SendersOK ==
  /\ \A p \in Parties : Letters(From(p))
  /\ \A p \in DOMAIN session : Sends(session[p], From(p))

WrittenInv == OnceInv /\ NamesOK /\ SendersOK

(* The two parties are each other's other.                                 *)
LEMMA OtherParty ==
  ASSUME NEW p \in Parties
  PROVE  /\ Other(p) \in Parties /\ Other(p) # p
         /\ \A q \in Parties : q # p => q = Other(p)
BY PartiesAssumption DEF Parties, Other

(* m is what p posts under st: the message that comes next, and the state  *)
(* after it.                                                               *)
Posted(p, st, x3dh, m) ==
  /\ IsNext(st, m) /\ m.text.from = p /\ m.x3dh = x3dh
  /\ net' = net \cup {m}
  /\ DOMAIN session' = DOMAIN session \cup {p}
  /\ session'[p] = ratchetEncrypt(st).st
  /\ \A q \in DOMAIN session \ {p} : session'[q] = session[q]
  /\ UNCHANGED <<handed, replays, log, lost>>

LEMMA PostMessage ==
  ASSUME NEW p, NEW st, NEW x3dh, Post(p, st, x3dh)
  PROVE  \E m : Posted(p, st, x3dh, m)
<1> DEFINE enc == ratchetEncrypt(st)
           m == [text |-> [from |-> p, n |-> written[p]], x3dh |-> x3dh,
                 ratchetPublic |-> enc.header.ratchetPublic,
                 Ns |-> enc.header.Ns, PN |-> enc.header.PN,
                 messageKey |-> enc.messageKey]
<1>1. /\ enc.header.ratchetPublic = st.localRatchet
      /\ enc.header.Ns = st.Ns /\ enc.header.PN = st.PN
      /\ enc.messageKey = st.sendingChainKey
  BY DEF ratchetEncrypt, kdfCk
<1>2. /\ net' = net \cup {m}
      /\ session' = [q \in DOMAIN session \cup {p} |->
                       IF q = p THEN enc.st ELSE session[q]]
      /\ UNCHANGED <<handed, replays, log, lost>>
  BY DEF Post, Keep
<1> HIDE DEF enc
<1>3. IsNext(st, m) /\ m.text.from = p /\ m.x3dh = x3dh
  BY <1>1 DEF IsNext
<1> HIDE DEF m
<1>4. /\ DOMAIN session' = DOMAIN session \cup {p}
      /\ session'[p] = enc.st
      /\ \A q \in DOMAIN session \ {p} : session'[q] = session[q]
  BY <1>2
<1>5. Posted(p, st, x3dh, m)
  BY <1>2, <1>3, <1>4 DEF Posted, enc
<1> QED
  BY <1>5

(* The names of keys only grow.                                            *)
LEMMA MadeByMore ==
  ASSUME NEW p, NEW n \in Nat, NEW l \in Nat, n <= l, NEW k \in Key,
         MadeBy(p, n, k)
  PROVE  MadeBy(p, l, k)
<1>1. k[2] \in Nat
  BY DEF Key
<1> QED
  BY <1>1 DEF MadeBy

(* A post under a state that is where the last message left it leaves it   *)
(* so.                                                                     *)
LEMMA PostWritten ==
  ASSUME WrittenInv, NEW p \in Parties, NEW st, StateOK(st, UsedBy(p)),
         st.sendingChainKey # Null, Sends(st, From(p)),
         generated' \in [Parties -> Nat],
         \A q \in Parties : generated[q] <= generated'[q],
         MadeBy(p, generated'[p], st.localRatchet),
         MadeBy(Other(p), generated'[Other(p)], st.remoteRatchetPublic),
         NEW x3dh, Post(p, st, x3dh)
  PROVE  NamesOK' /\ SendersOK'
<1>0. PICK m : Posted(p, st, x3dh, m)
  BY PostMessage
<1>1. /\ IsNext(st, m) /\ m.text.from = p
      /\ net' = net \cup {m}
      /\ DOMAIN session' = DOMAIN session \cup {p}
      /\ session'[p] = ratchetEncrypt(st).st
      /\ \A q \in DOMAIN session \ {p} : session'[q] = session[q]
  BY <1>0 DEF Posted
<1> DEFINE new == ratchetEncrypt(st).st
<1>2. /\ IsRatchetState(st) /\ ratchetEncrypt(st).messageKey \notin UsedBy(p)
      /\ ratchetEncrypt(st).messageKey = st.sendingChainKey
      /\ new.localRatchet = st.localRatchet
      /\ new.remoteRatchetPublic = st.remoteRatchetPublic
  BY EncryptOK, EncryptSending DEF StateOK
<1> HIDE DEF new
<1>3. /\ \A q \in Parties : generated[q] \in Nat /\ generated'[q] \in Nat
      /\ \A x \in net : x.text.from \in Parties /\ x.ratchetPublic \in Key
      /\ DOMAIN session \subseteq Parties
      /\ \A q \in DOMAIN session : /\ session[q].localRatchet \in Key
                                   /\ session[q].remoteRatchetPublic \in Key
  BY DEF WrittenInv, OnceInv, IInv, TypeOK, Message, Text, IsRatchetState
<1>4. \A q \in Parties, k \in Key :
        MadeBy(q, generated[q], k) => MadeBy(q, generated'[q], k)
  BY <1>3, MadeByMore
<1>5. NamesOK'
  <2>1. \A q \in Parties : generated'[q] > 1
    BY <1>3 DEF WrittenInv, NamesOK
  <2>2. \A x \in net' :
          MadeBy(x.text.from, generated'[x.text.from], x.ratchetPublic)
    BY <1>1, <1>3, <1>4 DEF WrittenInv, NamesOK, IsNext
  <2>3. ASSUME NEW q \in DOMAIN session'
        PROVE  /\ MadeBy(q, generated'[q], session'[q].localRatchet)
               /\ MadeBy(Other(q), generated'[Other(q)],
                         session'[q].remoteRatchetPublic)
    <3>1. CASE q = p
      <4>1. session'[q] = new
        BY <1>1, <3>1 DEF new
      <4> QED
        BY <1>2, <3>1, <4>1
    <3>2. CASE q # p
      <4>1. q \in DOMAIN session /\ session'[q] = session[q]
        BY <1>1, <3>2
      <4>2. q \in Parties /\ Other(q) \in Parties
        BY <1>3, <4>1, OtherParty
      <4> QED
        BY <1>3, <1>4, <4>1, <4>2 DEF WrittenInv, NamesOK
    <3> QED
      BY <3>1, <3>2
  <2> QED
    BY <2>1, <2>2, <2>3 DEF NamesOK
<1>6. /\ From(p)' = From(p) \cup {m}
      /\ \A q \in Parties : q # p => From(q)' = From(q)
  BY <1>1 DEF From
<1>7. Letters(From(p)')
  <2>1. \A x \in From(p) : x.messageKey # m.messageKey
    BY <1>1, <1>2 DEF From, UsedBy, IsNext
  <2> QED
    BY <1>1, <1>2, <1>6, <2>1, PostLetters DEF WrittenInv, SendersOK
<1>8. Sends(new, From(p)')
  BY <1>1, <1>2, <1>6, PostSends DEF WrittenInv, SendersOK, new
<1>9. \A q \in Parties : Letters(From(q)')
  BY <1>6, <1>7 DEF WrittenInv, SendersOK
<1>10. ASSUME NEW q \in DOMAIN session' PROVE Sends(session'[q], From(q)')
  <2>1. CASE q = p
    BY <1>1, <1>8, <2>1 DEF new
  <2>2. CASE q # p
    BY <1>1, <1>3, <1>6, <2>2 DEF WrittenInv, SendersOK
  <2> QED
    BY <2>1, <2>2
<1>11. SendersOK'
  BY <1>9, <1>10 DEF SendersOK
<1> QED
  BY <1>5, <1>11


(* Alice's first message.                                                  *)
LEMMA InitiateState ==
  ASSUME IInv, Initiate
  PROVE  \E rk \in RootKey, new \in Key,
            x3dh \in [eph : Key, ikDh : Key, opkId : {OpkId, Null}] :
           /\ new = <<Alice, generated[Alice] + 1>>
           /\ rk = x3dhReceive(LongTerm(Bob),
                               [id \in {OpkId} |-> LongTerm(Bob).opk], x3dh)
           /\ Post(Alice, initRatchet(rk, LongTerm(Bob).spk, new), x3dh)
<1>1. PICK withOpk \in BOOLEAN :
        LET eph == <<Alice, generated[Alice]>>
            bundle == IF withOpk THEN LongTerm(Bob)
                      ELSE [LongTerm(Bob) EXCEPT !.opk = Null]
            rootKey == x3dhSend(LongTerm(Alice), eph, bundle)
        IN  Post(Alice,
                 initRatchet(rootKey, bundle.spk,
                             <<Alice, generated[Alice] + 1>>),
                 [eph |-> eph, ikDh |-> LongTerm(Alice).ikDh,
                  opkId |-> IF withOpk THEN OpkId ELSE Null])
  BY DEF Initiate
<1> DEFINE eph == <<Alice, generated[Alice]>>
           new == <<Alice, generated[Alice] + 1>>
           bundle == IF withOpk THEN LongTerm(Bob)
                     ELSE [LongTerm(Bob) EXCEPT !.opk = Null]
           x3dh == [eph |-> eph, ikDh |-> LongTerm(Alice).ikDh,
                    opkId |-> IF withOpk THEN OpkId ELSE Null]
           opks == [id \in {OpkId} |-> LongTerm(Bob).opk]
           rk == x3dhReceive(LongTerm(Bob), opks, x3dh)
<1>2. /\ generated[Alice] \in Nat /\ generated[Alice] + 1 \in Nat
      /\ Alice \in Parties /\ Bob \in Parties
  BY DEF IInv, TypeOK, Parties
<1>3. eph \in Key /\ new \in Key
  BY <1>2, KeysAreKeys
<1>4. x3dh \in [eph : Key, ikDh : Key, opkId : {OpkId, Null}]
  BY <1>2, <1>3, KeysAreKeys
<1>5. /\ bundle.spk = LongTerm(Bob).spk /\ bundle.ikDh = LongTerm(Bob).ikDh
      /\ bundle.opk = IF withOpk THEN LongTerm(Bob).opk ELSE Null
  BY DEF LongTerm
<1>6. /\ LongTerm(Bob).opk # Null /\ OpkId # Null
      /\ opks[OpkId] = LongTerm(Bob).opk
  BY <1>2, KeysAreKeys, NullIsNoKeyAssumption
<1>7. /\ x3dh.eph = eph /\ x3dh.ikDh = LongTerm(Alice).ikDh
      /\ x3dh.opkId = IF withOpk THEN OpkId ELSE Null
  OBVIOUS
<1>8. Post(Alice, initRatchet(x3dhSend(LongTerm(Alice), eph, bundle),
                              bundle.spk, new), x3dh)
  BY <1>1
<1> HIDE DEF eph, new, bundle, x3dh, opks
<1>9. /\ agree(LongTerm(Alice).ikDh, bundle.spk)
           = agree(LongTerm(Bob).spk, x3dh.ikDh)
      /\ agree(eph, bundle.ikDh) = agree(LongTerm(Bob).ikDh, x3dh.eph)
      /\ agree(eph, bundle.spk) = agree(LongTerm(Bob).spk, x3dh.eph)
      /\ agree(eph, LongTerm(Bob).opk) = agree(opks[OpkId], x3dh.eph)
  BY <1>5, <1>6, <1>7 DEF agree
<1>10. x3dhSend(LongTerm(Alice), eph, bundle) = rk
  <2>1. CASE withOpk
    BY <1>5, <1>6, <1>7, <1>9, <2>1 DEF x3dhSend, x3dhReceive
  <2>2. CASE ~withOpk
    BY <1>5, <1>7, <1>9, <2>2 DEF x3dhSend, x3dhReceive
  <2> QED
    BY <2>1, <2>2
<1>11. rk \in RootKey
  BY <1>2, <1>4, X3dhReceiveType DEF opks
<1>12. /\ new = <<Alice, generated[Alice] + 1>>
       /\ rk = x3dhReceive(LongTerm(Bob),
                           [id \in {OpkId} |-> LongTerm(Bob).opk], x3dh)
       /\ Post(Alice, initRatchet(rk, LongTerm(Bob).spk, new), x3dh)
  BY <1>5, <1>8, <1>10 DEF new, opks
<1> QED
  BY <1>3, <1>4, <1>11, <1>12

LEMMA InitiateWritten ==
  ASSUME WrittenInv, Initiate
  PROVE  NamesOK' /\ SendersOK'
<1>1. PICK rk \in RootKey, new \in Key,
           x3dh \in [eph : Key, ikDh : Key, opkId : {OpkId, Null}] :
        /\ new = <<Alice, generated[Alice] + 1>>
        /\ Post(Alice, initRatchet(rk, LongTerm(Bob).spk, new), x3dh)
  BY InitiateState DEF WrittenInv, OnceInv
<1> DEFINE st == initRatchet(rk, LongTerm(Bob).spk, new)
<1>2. /\ Alice \in Parties /\ Bob \in Parties
      /\ LongTerm(Bob).spk = <<Bob, 1>> /\ LongTerm(Bob).spk \in Key
      /\ \A q \in Parties : generated[q] \in Nat /\ generated[q] > 1
      /\ generated' = [generated EXCEPT ![Alice] = @ + 2]
      /\ generated \in [Parties -> Nat]
      /\ UsedBy(Alice) = {}
  BY KeysAreKeys
  DEF Parties, LongTerm, WrittenInv, OnceInv, IInv, EndsOK, TypeOK, Initiate,
      NamesOK
<1>3. From(Alice) = {}
  BY DEF From, Initiate, WrittenInv, OnceInv, SidesOK
<1>4. /\ StateOK(st, UsedBy(Alice)) /\ st.sendingChainKey # Null
      /\ st.localRatchet = new /\ st.remoteRatchetPublic = LongTerm(Bob).spk
  BY <1>2, InitRatchetOK DEF initRatchet
<1>5. /\ st.Ns = 0
      /\ st.sendingChainKey = [id |-> st.rootKey, step |-> 0]
  BY DEF initRatchet, kdfRk
<1> HIDE DEF st
<1>6. Sends(st, From(Alice))
  BY <1>3, <1>4, <1>5 DEF Sends
<1>7. /\ generated' \in [Parties -> Nat]
      /\ \A q \in Parties : generated[q] <= generated'[q]
      /\ generated'[Alice] = generated[Alice] + 2
      /\ generated'[Bob] = generated[Bob]
  BY <1>2, PartiesAssumption
<1>8. /\ MadeBy(Alice, generated'[Alice], st.localRatchet)
      /\ MadeBy(Other(Alice), generated'[Other(Alice)], st.remoteRatchetPublic)
  BY <1>1, <1>2, <1>4, <1>7 DEF MadeBy, Other
<1> QED
  BY <1>1, <1>2, <1>4, <1>6, <1>7, <1>8, PostWritten DEF st

(* Bob's DH step begins a chain under a key that nothing was written under.*)
LEMMA DhRatchetStepSends ==
  ASSUME NEW st, IsRatchetState(st), NEW msgs, NEW key,
         \A x \in msgs : x.ratchetPublic # key
  PROVE  Sends(dhRatchetStep(st, key), msgs)
<1> DEFINE new == dhRatchetStep(st, key)
<1>1. /\ new.Ns = 0 /\ new.localRatchet = key
      /\ new.sendingChainKey = [id |-> new.rootKey, step |-> 0]
  BY DEF dhRatchetStep, kdfRk, IsRatchetState
<1> HIDE DEF new
<1> QED
  BY <1>1 DEF Sends, new

(* A party's next key is new.                                              *)
LEMMA NextKeyIsNew ==
  ASSUME WrittenInv, NEW p \in Parties
  PROVE  LET key == <<p, generated[p]>>
         IN  /\ key \in Key
             /\ \A x \in From(p) : x.ratchetPublic # key
             /\ p \in DOMAIN session => session[p].localRatchet # key
             /\ LongTerm(p).spk # key
<1>1. generated[p] \in Nat /\ generated[p] > 1
  BY DEF WrittenInv, OnceInv, IInv, TypeOK, NamesOK
<1> QED
  BY <1>1, KeysAreKeys DEF From, WrittenInv, NamesOK, MadeBy, LongTerm

LEMMA ContinueWritten ==
  ASSUME WrittenInv, NEW p \in Parties, Continue(p)
  PROVE  NamesOK' /\ SendersOK'
<1> DEFINE key == <<p, generated[p]>>
<1>1. /\ StateOK(session[p], UsedBy(p)) /\ p \in DOMAIN session
      /\ generated \in [Parties -> Nat] /\ Sends(session[p], From(p))
      /\ Other(p) \in Parties /\ Other(p) # p
  BY OtherParty DEF WrittenInv, OnceInv, IInv, EndsOK, TypeOK, Continue, SendersOK
<1>2. CASE session[p].sendingChainKey = Null
  <2> DEFINE st == dhRatchetStep(session[p], key)
  <2>1. key \in Key /\ \A x \in From(p) : x.ratchetPublic # key
    BY NextKeyIsNew
  <2>2. /\ Post(p, st, Null)
        /\ generated' = [generated EXCEPT ![p] = @ + 1]
    BY <1>2 DEF Continue
  <2>3. MadeBy(p, generated'[p], key)
    BY <1>1, <2>2 DEF MadeBy
  <2> HIDE DEF key
  <2>4. /\ StateOK(st, UsedBy(p)) /\ st.sendingChainKey # Null
        /\ Sends(st, From(p))
    BY <1>1, <2>1, DhRatchetStepOK, DhRatchetStepSends DEF StateOK
  <2>5. /\ st.localRatchet = key
        /\ st.remoteRatchetPublic = session[p].remoteRatchetPublic
    BY <1>1 DEF dhRatchetStep, StateOK, IsRatchetState
  <2> HIDE DEF st
  <2>6. /\ generated' \in [Parties -> Nat]
        /\ \A q \in Parties : generated[q] <= generated'[q]
        /\ generated'[Other(p)] = generated[Other(p)]
    BY <1>1, <2>2
  <2>7. MadeBy(Other(p), generated'[Other(p)], st.remoteRatchetPublic)
    BY <1>1, <2>5, <2>6 DEF WrittenInv, NamesOK
  <2> QED
    BY <2>2, <2>3, <2>4, <2>5, <2>6, <2>7, PostWritten
<1>3. CASE session[p].sendingChainKey # Null
  <2>1. Post(p, session[p], Null) /\ generated' = generated
    BY <1>1, <1>3 DEF Continue
  <2>2. /\ MadeBy(p, generated'[p], session[p].localRatchet)
        /\ MadeBy(Other(p), generated'[Other(p)],
                  session[p].remoteRatchetPublic)
        /\ \A q \in Parties : generated[q] <= generated'[q]
    BY <1>1, <2>1 DEF WrittenInv, NamesOK
  <2> QED
    BY <1>1, <1>3, <2>1, <2>2, PostWritten
<1> QED
  BY <1>2, <1>3


(* The state Bob rebuilds from a header is one that has sent nothing and   *)
(* listens to the key of the header.                                       *)
LEMMA StateForFirst ==
  ASSUME NEW p, p \notin DOMAIN session, NEW m
  PROVE  LET st == StateFor(p, m)
         IN  /\ st.sendingChainKey = Null /\ st.Ns = 0 /\ st.Nr = 0
             /\ st.localRatchet = LongTerm(p).spk
             /\ st.remoteRatchetPublic = m.ratchetPublic
             /\ st.receivingChainKey = [id |-> st.rootKey, step |-> 0]
             /\ DOMAIN st.MKSKIPPED = {}
             /\ st.rootKey =
                  kdfRk(x3dhReceive(LongTerm(p),
                                    [id \in {OpkId} |-> LongTerm(p).opk],
                                    m.x3dh),
                        agree(LongTerm(p).spk, m.ratchetPublic)).rootKey
<1> DEFINE rk == x3dhReceive(LongTerm(p),
                             [id \in {OpkId} |-> LongTerm(p).opk], m.x3dh)
           d == kdfRk(rk, agree(LongTerm(p).spk, m.ratchetPublic))
<1>1. StateFor(p, m) = initRatchetReceiver(rk, m, LongTerm(p).spk)
  BY DEF StateFor
<1> HIDE DEF rk
<1>2. d.chainKey = [id |-> d.rootKey, step |-> 0]
  BY DEF kdfRk
<1> QED
  BY <1>1, <1>2, NoKeysIsCache DEF initRatchetReceiver, rk

(* What a delivery finds and leaves, whichever branch of the code it takes.*)
LEMMA DeliverStates ==
  ASSUME WrittenInv, NEW p \in Parties, NEW m \in net, Deliver(p, m)
  PROVE  LET key == <<p, generated[p]>>
             st == StateFor(p, m)
             result == ratchetDecrypt(st, m, key)
         IN  /\ m \in From(Other(p)) /\ m \in Message
             /\ StateOK(st, UsedBy(p)) /\ Sends(st, From(p))
             /\ MadeBy(p, generated[p], st.localRatchet)
             /\ MadeBy(Other(p), generated[Other(p)], st.remoteRatchetPublic)
             /\ SameRatchet(st, result.st) \/ Stepped(st, result.st, m, key)
             /\ Alice \in DOMAIN session
             /\ p \notin DOMAIN session => p = Bob /\ m.x3dh # Null
             /\ IF p \in DOMAIN session \/ result.outcome = "opened"
                THEN session' = [q \in DOMAIN session \cup {p} |->
                                   IF q = p THEN result.st ELSE session[q]]
                ELSE UNCHANGED session
             /\ generated' =
                  [generated EXCEPT ![p] =
                     IF result.st.localRatchet = key THEN @ + 1 ELSE @]
             /\ UNCHANGED net
<1> DEFINE key == <<p, generated[p]>>
           st == StateFor(p, m)
           result == ratchetDecrypt(st, m, key)
<1>1. /\ m.text.from # p
      /\ p \in DOMAIN session \/ m.x3dh # Null
      /\ UNCHANGED net
      /\ IF p \in DOMAIN session \/ result.outcome = "opened"
         THEN session' = [q \in DOMAIN session \cup {p} |->
                            IF q = p THEN result.st ELSE session[q]]
         ELSE UNCHANGED session
      /\ generated' =
           [generated EXCEPT ![p] =
              IF result.st.localRatchet = key THEN @ + 1 ELSE @]
  BY DEF Deliver, Keep
<1>2. /\ m \in Message /\ m.text.from \in Parties /\ IInv /\ SidesOK
      /\ generated[p] \in Nat /\ generated[p] > 1
      /\ key \in Key
  BY KeysAreKeys
  DEF WrittenInv, OnceInv, IInv, TypeOK, Message, Text, NamesOK
<1>3. m \in From(Other(p)) /\ m.text.from = Other(p)
  <2>1. m.text.from # p
    BY <1>1
  <2>2. m.text.from = Other(p)
    BY <1>2, <2>1, OtherParty
  <2> QED
    BY <2>2 DEF From
<1>4. /\ m.Ns \in Nat /\ m.PN \in Nat /\ m.ratchetPublic \in Key
  BY <1>2 DEF Message
<1>5. StateOK(st, UsedBy(p))
  BY <1>1, <1>2, StateForOK
<1>6. Alice \in DOMAIN session /\ (p \notin DOMAIN session => p = Bob)
  BY <1>2 DEF SidesOK, Parties
<1>7. /\ Sends(st, From(p)) /\ MadeBy(p, generated[p], st.localRatchet)
      /\ MadeBy(Other(p), generated[Other(p)], st.remoteRatchetPublic)
  <2>1. CASE p \in DOMAIN session
    BY <2>1 DEF StateFor, WrittenInv, SendersOK, NamesOK
  <2>2. CASE p \notin DOMAIN session
    <3>1. p = Bob /\ BobIsSilent
      BY <1>6, <2>2 DEF BobIsSilent
    <3>2. From(p) = {}
      BY <1>2, <3>1, PartiesAssumption DEF From, SidesOK
    <3>3. /\ st.sendingChainKey = Null /\ st.Ns = 0
          /\ st.localRatchet = <<p, 1>>
          /\ st.remoteRatchetPublic = m.ratchetPublic
      BY <2>2, StateForFirst DEF LongTerm
    <3> HIDE DEF st
    <3>4. Sends(st, From(p))
      BY <3>2, <3>3 DEF Sends
    <3>5. MadeBy(Other(p), generated[Other(p)], m.ratchetPublic)
      BY <1>3 DEF WrittenInv, NamesOK
    <3> QED
      BY <1>2, <3>3, <3>4, <3>5 DEF MadeBy
  <2> QED
    BY <2>1, <2>2
<1> HIDE DEF key, st
<1>8. SameRatchet(st, result.st) \/ Stepped(st, result.st, m, key)
  BY <1>2, <1>4, <1>5, DecryptSending
<1> HIDE DEF result
<1> QED
  BY <1>1, <1>2, <1>3, <1>5, <1>6, <1>7, <1>8 DEF key, st, result

LEMMA DeliverWritten ==
  ASSUME WrittenInv, NEW p \in Parties, NEW m \in net, Deliver(p, m)
  PROVE  NamesOK' /\ SendersOK'
<1> DEFINE key == <<p, generated[p]>>
           st == StateFor(p, m)
           result == ratchetDecrypt(st, m, key)
           new == result.st
<1>1. /\ m \in From(Other(p)) /\ Sends(st, From(p))
      /\ MadeBy(p, generated[p], st.localRatchet)
      /\ MadeBy(Other(p), generated[Other(p)], st.remoteRatchetPublic)
      /\ SameRatchet(st, new) \/ Stepped(st, new, m, key)
      /\ \/ session' = [q \in DOMAIN session \cup {p} |->
                          IF q = p THEN new ELSE session[q]]
         \/ UNCHANGED session
      /\ generated' =
           [generated EXCEPT ![p] =
              IF new.localRatchet = key THEN @ + 1 ELSE @]
      /\ UNCHANGED net
  BY DeliverStates
<1>2. key \in Key /\ \A x \in From(p) : x.ratchetPublic # key
  BY NextKeyIsNew
<1>3. /\ generated \in [Parties -> Nat] /\ generated' \in [Parties -> Nat]
      /\ \A x \in net : x.text.from \in Parties /\ x.ratchetPublic \in Key
      /\ DOMAIN session \subseteq Parties
      /\ \A q \in DOMAIN session : /\ session[q].localRatchet \in Key
                                   /\ session[q].remoteRatchetPublic \in Key
      /\ Other(p) \in Parties /\ Other(p) # p
  <2>1. generated \in [Parties -> Nat] /\ generated' \in [Parties -> Nat]
    BY <1>1 DEF WrittenInv, OnceInv, IInv, TypeOK
  <2>2. /\ \A x \in net : x.text.from \in Parties /\ x.ratchetPublic \in Key
        /\ DOMAIN session \subseteq Parties
        /\ \A q \in DOMAIN session :
             /\ session[q].localRatchet \in Key
             /\ session[q].remoteRatchetPublic \in Key
    BY DEF WrittenInv, OnceInv, IInv, TypeOK, Message, Text, IsRatchetState
  <2> QED
    BY <2>1, <2>2, OtherParty
<1>4. /\ \A q \in Parties : /\ generated[q] \in Nat /\ generated'[q] \in Nat
                            /\ generated[q] <= generated'[q]
                            /\ generated'[q] > 1
      /\ generated'[Other(p)] = generated[Other(p)]
      /\ new.localRatchet = key => generated'[p] = generated[p] + 1
      /\ new.localRatchet # key => generated'[p] = generated[p]
  BY <1>1, <1>3 DEF WrittenInv, NamesOK
<1>5. /\ new.localRatchet = st.localRatchet \/ new.localRatchet = key
      /\ \/ new.remoteRatchetPublic = st.remoteRatchetPublic
         \/ new.remoteRatchetPublic = m.ratchetPublic
  BY <1>1 DEF SameRatchet, Stepped
<1>6. Sends(new, From(p))
  BY <1>1, <1>2, DeliverySends
<1>7. MadeBy(p, generated[p], key) => FALSE
  BY <1>4 DEF MadeBy
<1>8. MadeBy(p, generated[p] + 1, key)
  BY <1>4 DEF MadeBy
<1> HIDE DEF key, st, result
<1>9. MadeBy(p, generated'[p], new.localRatchet)
  BY <1>1, <1>4, <1>5, <1>7, <1>8
<1>10. MadeBy(Other(p), generated'[Other(p)], new.remoteRatchetPublic)
  BY <1>1, <1>4, <1>5 DEF WrittenInv, NamesOK, From
<1> HIDE DEF new
<1>11. \A q \in Parties, k \in Key :
         MadeBy(q, generated[q], k) => MadeBy(q, generated'[q], k)
  BY <1>4, MadeByMore
<1>12. \A x \in net' :
         MadeBy(x.text.from, generated'[x.text.from], x.ratchetPublic)
  BY <1>1, <1>3, <1>11 DEF WrittenInv, NamesOK
<1>13. ASSUME NEW q \in DOMAIN session'
       PROVE  /\ MadeBy(q, generated'[q], session'[q].localRatchet)
              /\ MadeBy(Other(q), generated'[Other(q)],
                        session'[q].remoteRatchetPublic)
              /\ Sends(session'[q], From(q))
  <2>1. CASE q = p /\ session'[q] = new
    BY <1>6, <1>9, <1>10, <2>1
  <2>2. CASE q \in DOMAIN session /\ session'[q] = session[q]
    <3>1. q \in Parties /\ Other(q) \in Parties
      BY <1>3, <2>2, OtherParty
    <3> QED
      BY <1>3, <1>11, <2>2, <3>1 DEF WrittenInv, NamesOK, SendersOK
  <2> QED
    BY <1>1, <2>1, <2>2
<1>14. \A q : From(q)' = From(q)
  BY <1>1 DEF From
<1>15. NamesOK'
  BY <1>4, <1>12, <1>13 DEF NamesOK
<1>16. SendersOK'
  BY <1>13, <1>14 DEF SendersOK, WrittenInv
<1> QED
  BY <1>15, <1>16

(* The invariant is inductive.                                             *)
LEMMA WrittenStep ==
  ASSUME WrittenInv, OnceInv', [Next]_vars
  PROVE  WrittenInv'
<1>1. CASE Next
  BY <1>1, InitiateWritten, ContinueWritten, DeliverWritten
  DEF Next, WrittenInv
<1>2. CASE UNCHANGED vars
  BY <1>2 DEF vars, WrittenInv, NamesOK, SendersOK, From
<1> QED
  BY <1>1, <1>2

LEMMA WrittenInvariance == Spec => []WrittenInv
<1>1. Init => NamesOK /\ SendersOK
  <2> SUFFICES ASSUME Init PROVE NamesOK /\ SendersOK
    OBVIOUS
  <2>1. /\ DOMAIN session = {} /\ net = {}
        /\ \A p \in Parties : generated[p] = 3
    BY DEF Init, FirstFresh
  <2>2. \A p \in Parties : Letters(From(p))
    BY <2>1 DEF From, Letters
  <2> QED
    BY <2>1, <2>2 DEF NamesOK, SendersOK
<1>2. Init /\ OnceInv => WrittenInv
  BY <1>1 DEF WrittenInv
<1> QED
  BY <1>2, WrittenStep, OnceInvariance, PTL DEF Spec

---------------------------------------------------------------------------
(* Nothing handed over twice: both ends hear each other.                   *)

NewTo(p) == {m \in MessagesTo(p) : m.text \notin handed[p]}

(* Alice's state before Bob has one: the state that he rebuilds from any   *)
(* of her headers begins on her chain.                                     *)
Greeting(a, msgs) ==
  /\ a.remoteRatchetPublic = LongTerm(Bob).spk
  /\ DOMAIN a.MKSKIPPED = {}
  /\ \A m \in msgs : m.x3dh # Null =>
       a.rootKey =
         kdfRk(x3dhReceive(LongTerm(Bob),
                           [id \in {OpkId} |-> LongTerm(Bob).opk], m.x3dh),
               agree(LongTerm(Bob).spk, m.ratchetPublic)).rootKey

(* Bob has read but not written: he follows Alice on her only chain.       *)
Listening(a, b, msgs, unheard) ==
  /\ Hears(b, a, msgs, unheard)
  /\ Follows(b, a)
  /\ a.remoteRatchetPublic = b.localRatchet
  /\ a.rootKey = b.rootKey
  /\ DOMAIN a.MKSKIPPED = {}

ConversationOK ==
  IF BobIsSilent
  THEN /\ Alice \in DOMAIN session /\ Bob \notin DOMAIN session =>
            Greeting(session[Alice], net)
       /\ Bob \in DOMAIN session =>
            Listening(session[Alice], session[Bob], From(Alice), NewTo(Bob))
  ELSE InStep(session[Alice], session[Bob], From(Alice), From(Bob),
              NewTo(Alice), NewTo(Bob))

CalmInv ==
  /\ WrittenInv
  /\ replays = 0 => ConversationOK /\ \A p \in Parties : lost[p] = {}

(* Fewer messages to be heard.                                             *)
LEMMA HearsLess ==
  ASSUME NEW st, NEW o, NEW msgs, NEW unheard, NEW fewer \in SUBSET unheard,
         Hears(st, o, msgs, unheard)
  PROVE  Hears(st, o, msgs, fewer)
BY DEF Hears

LEMMA InStepLess ==
  ASSUME NEW st, NEW o, NEW mine, NEW msgs, NEW unheard, NEW due,
         NEW fewer \in SUBSET unheard, NEW less \in SUBSET due,
         InStep(st, o, mine, msgs, unheard, due)
  PROVE  InStep(st, o, mine, msgs, fewer, less)
BY HearsLess DEF InStep

(* Two ends are in step whichever is looked at first.                      *)
LEMMA InStepTurned ==
  ASSUME NEW st, NEW o, NEW mine, NEW msgs, NEW unheard, NEW due,
         InStep(st, o, mine, msgs, unheard, due)
  PROVE  InStep(o, st, msgs, mine, due, unheard)
BY DEF InStep

(* Who is in net, seen from each side.                                     *)
LEMMA TwoSides ==
  ASSUME WrittenInv, NEW p \in Parties
  PROVE  /\ NewTo(p) \subseteq From(Other(p))
         /\ From(Alice) \cup From(Bob) = net
         /\ BobIsSilent => From(Bob) = {} /\ NewTo(Alice) = {}
<1>1. /\ \A m \in net : m.text.from \in Parties
      /\ BobIsSilent => \A m \in net : m.text.from = Alice
  BY DEF WrittenInv, OnceInv, IInv, TypeOK, Message, Text, SidesOK
<1>2. NewTo(p) \subseteq From(Other(p))
  BY <1>1, OtherParty DEF NewTo, MessagesTo, From
<1>3. From(Alice) \cup From(Bob) = net
  BY <1>1 DEF From, Parties
<1> QED
  BY <1>1, <1>2, <1>3, PartiesAssumption DEF NewTo, MessagesTo, From

(* A post is to be heard by the other end, and by no one else.             *)
LEMMA PostMessages ==
  ASSUME WrittenInv, NEW p \in Parties, NEW m, m.text.from = p,
         net' = net \cup {m}, UNCHANGED handed
  PROVE  /\ From(p)' = From(p) \cup {m}
         /\ From(Other(p))' = From(Other(p))
         /\ NewTo(p)' = NewTo(p)
         /\ NewTo(Other(p))' \subseteq NewTo(Other(p)) \cup {m}
BY OtherParty DEF From, NewTo, MessagesTo

(* A delivery leaves the rest.                                             *)
LEMMA DeliverMessages ==
  ASSUME WrittenInv, NEW p \in Parties, NEW m \in net, Deliver(p, m)
  PROVE  /\ \A q : From(q)' = From(q)
         /\ NewTo(p)' \subseteq NewTo(p) \ {m}
         /\ NewTo(Other(p))' \subseteq NewTo(Other(p))
<1>1. handed' = [handed EXCEPT ![p] = @ \cup {m.text}] /\ net' = net
  BY DEF Deliver
<1>2. handed \in [Parties -> SUBSET Text]
  BY DEF WrittenInv, OnceInv, IInv, TypeOK
<1>3. /\ handed'[p] = handed[p] \cup {m.text}
      /\ handed'[Other(p)] = handed[Other(p)]
  BY <1>1, <1>2, OtherParty
<1> QED
  BY <1>1, <1>3 DEF From, NewTo, MessagesTo


(* A post between two ends in step.                                        *)
LEMMA PostConversation ==
  ASSUME WrittenInv, NEW p \in Parties, NEW st, IsRatchetState(st),
         st.sendingChainKey # Null, Other(p) \in DOMAIN session,
         session[Other(p)].sendingChainKey # Null,
         InStep(session[Other(p)], st, From(Other(p)), From(p),
                NewTo(Other(p)), NewTo(p)),
         NEW x3dh, Post(p, st, x3dh)
  PROVE  ConversationOK'
<1> DEFINE q == Other(p)
           new == ratchetEncrypt(st).st
<1>0. PICK m : Posted(p, st, x3dh, m)
  BY PostMessage
<1>1. /\ IsNext(st, m) /\ m.text.from = p
      /\ net' = net \cup {m}
      /\ DOMAIN session' = DOMAIN session \cup {p}
      /\ session'[p] = new
      /\ \A r \in DOMAIN session \ {p} : session'[r] = session[r]
      /\ UNCHANGED handed
  BY <1>0 DEF Posted
<1>2. q \in Parties /\ q # p /\ Letters(From(p))
  BY OtherParty DEF WrittenInv, SendersOK
<1>3. new.sendingChainKey # Null
  BY EncryptSending
<1>4. /\ session'[p] = new /\ session'[q] = session[q]
      /\ p \in DOMAIN session' /\ q \in DOMAIN session'
  BY <1>1, <1>2
<1>5. /\ From(p)' = From(p) \cup {m} /\ From(q)' = From(q)
      /\ NewTo(p)' = NewTo(p) /\ NewTo(q)' \subseteq NewTo(q) \cup {m}
  BY <1>1, PostMessages
<1>6. InStep(session[q], new, From(q), From(p) \cup {m},
             NewTo(q) \cup {m}, NewTo(p))
  BY <1>1, <1>2, PostInStep
<1> HIDE DEF q, new
<1>7. InStep(session'[q], session'[p], From(q)', From(p)', NewTo(q)', NewTo(p)')
  BY <1>4, <1>5, <1>6, InStepLess
<1>8. session'[p].sendingChainKey # Null /\ session'[q].sendingChainKey # Null
  BY <1>3, <1>4 DEF q
<1>9. CASE p = Alice
  <2>1. q = Bob
    BY <1>9, PartiesAssumption DEF q, Other
  <2>2. InStep(session'[Alice], session'[Bob], From(Alice)', From(Bob)',
               NewTo(Alice)', NewTo(Bob)')
    BY <1>7, <1>9, <2>1, InStepTurned
  <2> QED
    BY <1>4, <1>8, <2>1, <2>2 DEF ConversationOK, BobIsSilent
<1>10. CASE p = Bob
  <2>1. q = Alice
    BY <1>10, PartiesAssumption DEF q, Other
  <2> QED
    BY <1>4, <1>7, <1>8, <1>10, <2>1 DEF ConversationOK, BobIsSilent
<1> QED
  BY <1>9, <1>10 DEF Parties

(* Alice's first message is one from which Bob can begin.                  *)
LEMMA InitiateConversation ==
  ASSUME CalmInv, Initiate
  PROVE  ConversationOK'
<1>1. PICK rk \in RootKey, new \in Key,
           x3dh \in [eph : Key, ikDh : Key, opkId : {OpkId, Null}] :
        /\ rk = x3dhReceive(LongTerm(Bob),
                            [id \in {OpkId} |-> LongTerm(Bob).opk], x3dh)
        /\ Post(Alice, initRatchet(rk, LongTerm(Bob).spk, new), x3dh)
  BY InitiateState DEF CalmInv, WrittenInv, OnceInv
<1> DEFINE st == initRatchet(rk, LongTerm(Bob).spk, new)
           after == ratchetEncrypt(st).st
<1>2. net = {} /\ Bob \notin DOMAIN session
  BY DEF CalmInv, WrittenInv, OnceInv, SidesOK, Initiate
<1>3. /\ st.localRatchet = new /\ st.remoteRatchetPublic = LongTerm(Bob).spk
      /\ DOMAIN st.MKSKIPPED = {}
      /\ st.rootKey = kdfRk(rk, agree(new, LongTerm(Bob).spk)).rootKey
  BY NoKeysIsCache DEF initRatchet
<1>4. agree(new, LongTerm(Bob).spk) = agree(LongTerm(Bob).spk, new)
  BY DEF agree
<1>5. StateOK(st, {}) /\ st.sendingChainKey # Null
  BY KeysAreKeys, InitRatchetOK DEF Parties
<1>6. Post(Alice, st, x3dh)
  BY <1>1
<1> HIDE DEF st
<1>0. PICK m : Posted(Alice, st, x3dh, m)
  BY <1>6, PostMessage
<1>7. /\ IsNext(st, m) /\ m.text.from = Alice /\ m.x3dh = x3dh
      /\ net' = net \cup {m}
      /\ DOMAIN session' = DOMAIN session \cup {Alice}
      /\ session'[Alice] = after
  BY <1>0 DEF Posted
<1>8. /\ after.rootKey = st.rootKey /\ after.MKSKIPPED = st.MKSKIPPED
      /\ after.remoteRatchetPublic = st.remoteRatchetPublic
  BY <1>5 DEF ratchetEncrypt, StateOK, IsRatchetState
<1> HIDE DEF after
<1>9. session'[Alice] = after /\ Bob \notin DOMAIN session'
  BY <1>2, <1>7, PartiesAssumption
<1>10. Greeting(after, net')
  BY <1>1, <1>2, <1>3, <1>4, <1>7, <1>8 DEF Greeting, IsNext
<1> QED
  BY <1>9, <1>10 DEF ConversationOK, BobIsSilent

(* Alice goes on before Bob has written.                                   *)
LEMMA GoOnConversation ==
  ASSUME CalmInv, ConversationOK, BobIsSilent, Alice \in DOMAIN session,
         Post(Alice, session[Alice], Null)
  PROVE  ConversationOK'
<1> DEFINE a == session[Alice]
           b == session[Bob]
           new == ratchetEncrypt(a).st
<1>1. /\ IsRatchetState(a) /\ a.sendingChainKey # Null /\ Alice \in Parties
      /\ Letters(From(Alice)) /\ Sends(a, From(Alice))
      /\ Other(Alice) = Bob
  BY DEF CalmInv, WrittenInv, OnceInv, IInv, TypeOK, SidesOK, SendersOK,
         Parties, Other
<1>0. PICK m : Posted(Alice, a, Null, m)
  <2>1. Post(Alice, a, Null)
    OBVIOUS
  <2> HIDE DEF a
  <2> QED
    BY <2>1, PostMessage
<1>2. /\ IsNext(a, m) /\ m.text.from = Alice /\ m.x3dh = Null
      /\ net' = net \cup {m}
      /\ DOMAIN session' = DOMAIN session \cup {Alice}
      /\ session'[Alice] = new
      /\ \A r \in DOMAIN session \ {Alice} : session'[r] = session[r]
      /\ UNCHANGED handed
  BY <1>0 DEF Posted
<1>3. /\ new.rootKey = a.rootKey /\ new.MKSKIPPED = a.MKSKIPPED
      /\ new.remoteRatchetPublic = a.remoteRatchetPublic
  BY <1>1 DEF ratchetEncrypt, IsRatchetState
<1>4. /\ From(Alice)' = From(Alice) \cup {m}
      /\ NewTo(Bob)' \subseteq NewTo(Bob) \cup {m}
  BY <1>1, <1>2, PostMessages DEF CalmInv
<1>5. CASE Bob \notin DOMAIN session
  <2>1. Greeting(a, net)
    BY <1>5 DEF ConversationOK
  <2> HIDE DEF new, a
  <2>2. Greeting(new, net')
    BY <1>2, <1>3, <2>1 DEF Greeting
  <2>3. session'[Alice] = new /\ Bob \notin DOMAIN session'
    BY <1>2, <1>5, PartiesAssumption
  <2> QED
    BY <2>2, <2>3 DEF ConversationOK, BobIsSilent
<1>6. CASE Bob \in DOMAIN session
  <2>1. Listening(a, b, From(Alice), NewTo(Bob)) /\ b.sendingChainKey = Null
    BY <1>6 DEF ConversationOK, BobIsSilent
  <2>2. /\ Hears(b, new, From(Alice) \cup {m}, NewTo(Bob) \cup {m})
        /\ Follows(b, new)
    BY <1>1, <1>2, <2>1, PostHears DEF Listening
  <2>3. Hears(b, new, From(Alice)', NewTo(Bob)')
    BY <1>4, <2>2, HearsLess
  <2>4. session'[Alice] = new /\ session'[Bob] = b /\ Bob \in DOMAIN session'
    BY <1>2, <1>6, PartiesAssumption
  <2> HIDE DEF new, a, b
  <2>5. Listening(new, b, From(Alice)', NewTo(Bob)')
    BY <1>3, <2>1, <2>2, <2>3 DEF Listening
  <2> QED
    BY <2>1, <2>4, <2>5 DEF ConversationOK, BobIsSilent
<1> QED
  BY <1>5, <1>6


(* Bob's first message, under the DH step, puts him ahead.                 *)
LEMMA AnswerConversation ==
  ASSUME CalmInv, ConversationOK, NEW key, key = <<Bob, generated[Bob]>>,
         Bob \in DOMAIN session, session[Bob].sendingChainKey = Null,
         Post(Bob, dhRatchetStep(session[Bob], key), Null)
  PROVE  ConversationOK'
<1> DEFINE a == session[Alice]
           b == session[Bob]
           st == dhRatchetStep(b, key)
<1>1. /\ Alice \in DOMAIN session /\ a.sendingChainKey # Null
      /\ StateOK(b, UsedBy(Bob)) /\ BobIsSilent
      /\ Sends(a, From(Alice)) /\ Sends(b, From(Bob)) /\ WrittenInv
      /\ Bob \in Parties /\ Other(Bob) = Alice
  BY PartiesAssumption
  DEF CalmInv, WrittenInv, OnceInv, IInv, EndsOK, SidesOK, SendersOK,
      Parties, Other, BobIsSilent
<1>2. Listening(a, b, From(Alice), NewTo(Bob))
  BY <1>1 DEF ConversationOK
<1>3. From(Bob) = {} /\ NewTo(Alice) = {}
  BY <1>1, TwoSides
<1>4. key \in Key /\ b.localRatchet # key
  BY <1>1, NextKeyIsNew
<1>5. StateOK(st, UsedBy(Bob)) /\ st.sendingChainKey # Null
  BY <1>1, <1>4, DhRatchetStepOK
<1>6. Sends(st, From(Bob))
  BY <1>1, <1>3, DhRatchetStepSends DEF StateOK
<1>7. /\ st.localRatchet = key /\ st.PN = b.Ns /\ b.Ns = 0
      /\ st.remoteRatchetPublic = b.remoteRatchetPublic
      /\ st.receivingChainKey = b.receivingChainKey
      /\ st.Nr = b.Nr /\ st.MKSKIPPED = b.MKSKIPPED
      /\ st.rootKey = Append(b.rootKey, <<agree(key, b.remoteRatchetPublic)>>)
  BY <1>1 DEF dhRatchetStep, kdfRk, StateOK, IsRatchetState, Sends
<1>8. Post(Bob, st, Null)
  OBVIOUS
<1> HIDE DEF a, b, st
<1>9. /\ b.remoteRatchetPublic = a.localRatchet
      /\ a.remoteRatchetPublic = b.localRatchet /\ a.rootKey = b.rootKey
  BY <1>2 DEF Listening, Follows
<1>10. Hears(st, a, From(Alice), NewTo(Bob))
  BY <1>2, <1>7 DEF Listening, Hears, ListensTo, CacheNames, Awaits
<1>11. Hears(a, st, From(Bob), NewTo(Alice))
  BY <1>2, <1>3 DEF Listening, Hears, ListensTo, CacheNames
<1>12. Follows(st, a)
  BY <1>2, <1>7 DEF Listening, Follows
<1>13. Ahead(st, a, From(Bob))
  BY <1>3, <1>4, <1>7, <1>9, <1>12 DEF Ahead
<1>14. InStep(a, st, From(Alice), From(Bob), NewTo(Alice), NewTo(Bob))
  BY <1>1, <1>6, <1>10, <1>11, <1>13 DEF InStep, a
<1> QED
  BY <1>1, <1>5, <1>8, <1>14, PostConversation DEF StateOK, a

LEMMA ContinueConversation ==
  ASSUME CalmInv, ConversationOK, NEW p \in Parties, Continue(p)
  PROVE  ConversationOK'
<1>1. /\ p \in DOMAIN session /\ WrittenInv
      /\ IsRatchetState(session[p])
      /\ Alice \in DOMAIN session /\ session[Alice].sendingChainKey # Null
  BY DEF CalmInv, WrittenInv, OnceInv, IInv, TypeOK, SidesOK, Continue, Parties
<1>2. CASE session[p].sendingChainKey = Null
  <2> DEFINE key == <<p, generated[p]>>
  <2>1. p = Bob
    BY <1>1, <1>2 DEF Parties
  <2>2. Post(p, dhRatchetStep(session[p], key), Null)
    BY <1>2 DEF Continue
  <2> QED
    BY <1>1, <1>2, <2>1, <2>2, AnswerConversation
<1>3. CASE session[p].sendingChainKey # Null
  <2>1. Post(p, session[p], Null)
    BY <1>3 DEF Continue
  <2>2. CASE BobIsSilent
    <3>1. p = Alice
      BY <1>1, <1>3, <2>2 DEF BobIsSilent, Parties
    <3> QED
      BY <1>1, <2>1, <2>2, <3>1, GoOnConversation
  <2>3. CASE ~BobIsSilent
    <3>1. /\ Bob \in DOMAIN session /\ session[Bob].sendingChainKey # Null
          /\ InStep(session[Alice], session[Bob], From(Alice), From(Bob),
                    NewTo(Alice), NewTo(Bob))
      BY <2>3 DEF BobIsSilent, ConversationOK
    <3>2. CASE p = Alice
      <4>1. Other(p) = Bob
        BY <3>2, PartiesAssumption DEF Other
      <4>2. InStep(session[Bob], session[Alice], From(Bob), From(Alice),
                   NewTo(Bob), NewTo(Alice))
        BY <3>1, InStepTurned
      <4> QED
        BY <1>1, <1>3, <2>1, <3>1, <3>2, <4>1, <4>2, PostConversation
    <3>3. CASE p = Bob
      <4>1. Other(p) = Alice
        BY <3>3, PartiesAssumption DEF Other
      <4> QED
        BY <1>1, <1>3, <2>1, <3>1, <3>3, <4>1, PostConversation
    <3> QED
      BY <3>2, <3>3 DEF Parties
  <2> QED
    BY <2>2, <2>3
<1> QED
  BY <1>2, <1>3

(* The state Bob rebuilds from a header listens to Alice.                  *)
LEMMA GreetingHeard ==
  ASSUME CalmInv, Bob \notin DOMAIN session, Alice \in DOMAIN session,
         Greeting(session[Alice], net), NEW m \in net, m.x3dh # Null
  PROVE  Listening(session[Alice], StateFor(Bob, m), From(Alice), NewTo(Bob))
<1> DEFINE a == session[Alice]
           st == StateFor(Bob, m)
<1>1. /\ st.Nr = 0 /\ st.localRatchet = LongTerm(Bob).spk
      /\ st.remoteRatchetPublic = m.ratchetPublic
      /\ st.receivingChainKey = [id |-> st.rootKey, step |-> 0]
      /\ DOMAIN st.MKSKIPPED = {} /\ st.rootKey = a.rootKey
  BY StateForFirst DEF Greeting
<1>2. /\ Sends(a, From(Alice)) /\ Letters(From(Alice))
      /\ \A x \in net : x.ratchetPublic = a.localRatchet
      /\ \A x \in net : x.ratchetPublic \in Key
      /\ a.Ns \in Nat /\ StateOK(st, UsedBy(Bob))
  BY StateForOK
  DEF CalmInv, WrittenInv, OnceInv, IInv, TypeOK, Message, SidesOK, BobIsSilent,
      SendersOK, Parties, Sends
<1>3. st.receivingChainKey # Null /\ st.receivingChainKey.id = a.rootKey
  <2>1. [id |-> st.rootKey, step |-> 0] \in ChainKey
    BY <1>2 DEF StateOK, IsRatchetState, ChainKey
  <2> HIDE DEF st
  <2> QED
    BY <1>1, <2>1, NullAssumption
<1> HIDE DEF st
<1>4. Follows(st, a)
  BY <1>1, <1>2, <1>3 DEF Follows
<1>5. ListensTo(st, From(Alice))
  BY <1>2, <1>3 DEF ListensTo, Sends, From
<1>6. \A x \in NewTo(Bob) : Awaits(st, a, x)
  <2> SUFFICES ASSUME NEW x \in NewTo(Bob) PROVE Awaits(st, a, x)
    OBVIOUS
  <2>1. x \in net /\ x.Ns \in Nat
    BY DEF NewTo, MessagesTo, CalmInv, WrittenInv, OnceInv, IInv, TypeOK, Message
  <2> QED
    BY <1>1, <1>2, <2>1 DEF Awaits
<1>7. Hears(st, a, From(Alice), NewTo(Bob))
  BY <1>1, <1>5, <1>6 DEF Hears, CacheNames
<1> QED
  BY <1>1, <1>4, <1>7 DEF Listening, Greeting, st

(* A first delivery to Bob before he has written.                          *)
LEMMA HearConversation ==
  ASSUME CalmInv, ConversationOK, BobIsSilent,
         NEW m \in net, m \in NewTo(Bob), Deliver(Bob, m)
  PROVE  /\ ConversationOK'
         /\ ratchetDecrypt(StateFor(Bob, m), m, <<Bob, generated[Bob]>>).outcome
              \in {"opened", "refused"}
<1> DEFINE a == session[Alice]
           st == StateFor(Bob, m)
           key == <<Bob, generated[Bob]>>
           result == ratchetDecrypt(st, m, key)
           new == result.st
<1>1. /\ Bob \in Parties /\ WrittenInv /\ Other(Bob) = Alice
      /\ Letters(From(Alice)) /\ Sends(a, From(Alice))
  BY PartiesAssumption
  DEF Parties, CalmInv, WrittenInv, Other, SendersOK, OnceInv, SidesOK
<1>2. /\ m \in From(Alice) /\ StateOK(st, UsedBy(Bob))
      /\ Alice \in DOMAIN session
      /\ Bob \notin DOMAIN session => m.x3dh # Null
      /\ IF Bob \in DOMAIN session \/ result.outcome = "opened"
         THEN session' = [q \in DOMAIN session \cup {Bob} |->
                            IF q = Bob THEN new ELSE session[q]]
         ELSE UNCHANGED session
      /\ UNCHANGED net
  BY <1>1, DeliverStates
<1>3. Sends(a, From(Alice))
  BY <1>1, <1>2 DEF WrittenInv, SendersOK
<1>4. key \in Key
  BY <1>1, NextKeyIsNew
<1> HIDE DEF key
<1>5. Listening(a, st, From(Alice), NewTo(Bob)) /\ st.sendingChainKey = Null
  <2>1. CASE Bob \in DOMAIN session
    BY <2>1 DEF StateFor, ConversationOK, BobIsSilent
  <2>2. CASE Bob \notin DOMAIN session
    BY <1>2, <2>2, GreetingHeard, StateForFirst DEF ConversationOK
  <2> QED
    BY <2>1, <2>2
<1> HIDE DEF st, a
<1>6. m.ratchetPublic = st.remoteRatchetPublic
  <2>1. m.ratchetPublic = a.localRatchet
    BY DEF CalmInv, WrittenInv, OnceInv, SidesOK, a
  <2> QED
    BY <1>5, <2>1 DEF Listening, Follows
<1>7. /\ result.outcome \in {"opened", "refused"}
      /\ Hears(new, a, From(Alice), NewTo(Bob) \ {m})
      /\ SameRatchet(st, new) /\ Follows(new, a)
  <2>1. NewTo(Bob) \subseteq From(Alice)
    BY <1>1, TwoSides
  <2>2. Hears(st, a, From(Alice), NewTo(Bob)) /\ Follows(st, a)
    BY <1>5 DEF Listening
  <2>3. /\ result.outcome \in {"opened", "refused"}
        /\ Hears(new, a, From(Alice), NewTo(Bob) \ {m})
        /\ \/ SameRatchet(st, new) /\ (Follows(st, a) => Follows(new, a))
           \/ Stepped(st, new, m, key)
    BY <1>1, <1>2, <1>3, <1>4, <2>1, <2>2, DeliveryHears
  <2> HIDE DEF result
  <2> QED
    BY <1>6, <2>2, <2>3 DEF Stepped
<1>8. NewTo(Bob)' \subseteq NewTo(Bob) \ {m} /\ From(Alice)' = From(Alice)
  BY <1>1, DeliverMessages
<1> HIDE DEF result
<1>9. Listening(a, new, From(Alice)', NewTo(Bob)') /\ new.sendingChainKey = Null
  BY <1>5, <1>7, <1>8, HearsLess DEF Listening, SameRatchet
<1>10. CASE Bob \in DOMAIN session \/ result.outcome = "opened"
  <2>1. /\ session'[Bob] = new /\ Bob \in DOMAIN session'
        /\ session'[Alice] = a
    BY <1>2, <1>10, PartiesAssumption DEF a
  <2>2. ConversationOK'
    BY <1>9, <2>1 DEF ConversationOK, BobIsSilent
  <2> QED
    BY <1>7, <2>2 DEF result, st, key
<1>11. CASE ~(Bob \in DOMAIN session \/ result.outcome = "opened")
  <2>1. UNCHANGED <<session, net>>
    BY <1>2, <1>11
  <2>2. ConversationOK'
    BY <1>11, <2>1 DEF ConversationOK, BobIsSilent
  <2> QED
    BY <1>7, <2>2 DEF result, st, key
<1> QED
  BY <1>10, <1>11


(* A first delivery between two ends that both have written.               *)
LEMMA ConverseConversation ==
  ASSUME CalmInv, ConversationOK, ~BobIsSilent, NEW p \in Parties,
         NEW m \in net, m \in NewTo(p), Deliver(p, m)
  PROVE  /\ ConversationOK'
         /\ ratchetDecrypt(StateFor(p, m), m, <<p, generated[p]>>).outcome
              \in {"opened", "refused"}
<1> DEFINE q == Other(p)
           o == session[q]
           st == session[p]
           key == <<p, generated[p]>>
           result == ratchetDecrypt(st, m, key)
           new == result.st
<1>1. /\ WrittenInv /\ q \in Parties /\ q # p
      /\ Bob \in DOMAIN session /\ Alice \in DOMAIN session
      /\ \A r \in Parties : session[r].sendingChainKey # Null
  BY OtherParty
  DEF CalmInv, WrittenInv, OnceInv, SidesOK, BobIsSilent, Parties
<1>2. p \in DOMAIN session /\ q \in DOMAIN session /\ StateFor(p, m) = st
  BY <1>1 DEF Parties, StateFor
<1>3. /\ StateOK(st, UsedBy(p)) /\ Letters(From(q))
      /\ SameRatchet(st, new) \/ Stepped(st, new, m, key)
      /\ session' = [r \in DOMAIN session \cup {p} |->
                       IF r = p THEN new ELSE session[r]]
  <2>1. session' = [r \in DOMAIN session \cup {p} |->
                      IF r = p THEN new ELSE session[r]]
    BY <1>2 DEF Deliver, Keep
  <2>2. SameRatchet(st, new) \/ Stepped(st, new, m, key)
    BY <1>1, <1>2, DeliverStates
  <2> QED
    BY <1>1, <1>2, <2>1, <2>2
    DEF WrittenInv, OnceInv, IInv, EndsOK, SendersOK
<1>4. /\ key \in Key /\ key # st.localRatchet
      /\ \A x \in From(p) : x.ratchetPublic # key
  BY <1>1, <1>2, NextKeyIsNew
<1>5. InStep(st, o, From(p), From(q), NewTo(p), NewTo(q))
  <2>1. InStep(session[Alice], session[Bob], From(Alice), From(Bob),
               NewTo(Alice), NewTo(Bob))
    BY DEF ConversationOK
  <2>2. CASE p = Alice
    BY <2>1, <2>2 DEF Other
  <2>3. CASE p = Bob
    BY <2>1, <2>3, InStepTurned, PartiesAssumption DEF Other
  <2> QED
    BY <2>2, <2>3 DEF Parties
<1>6. NewTo(p) \in SUBSET From(q)
  BY <1>1, TwoSides
<1> HIDE DEF key, st, o
<1>7. /\ result.outcome \in {"opened", "refused"}
      /\ InStep(new, o, From(p), From(q), NewTo(p) \ {m}, NewTo(q))
  BY <1>3, <1>4, <1>5, <1>6, DeliveryInStep
<1>8. /\ From(p)' = From(p) /\ From(q)' = From(q)
      /\ NewTo(p)' \subseteq NewTo(p) \ {m} /\ NewTo(q)' \subseteq NewTo(q)
  BY <1>1, DeliverMessages
<1>9. session'[p] = new /\ session'[q] = o /\ DOMAIN session' = DOMAIN session
  BY <1>1, <1>2, <1>3 DEF o
<1>10. new.sendingChainKey # Null /\ o.sendingChainKey # Null
  BY <1>1, <1>3, NullAssumption DEF SameRatchet, Stepped, st, o
<1> HIDE DEF q, result
<1>11. InStep(session'[p], session'[q], From(p)', From(q)', NewTo(p)', NewTo(q)')
  BY <1>7, <1>8, <1>9, InStepLess
<1>12. ConversationOK'
  <2>1. CASE p = Alice
    <3>1. q = Bob
      BY <2>1 DEF q, Other
    <3> QED
      BY <1>1, <1>9, <1>10, <1>11, <2>1, <3>1 DEF ConversationOK, BobIsSilent
  <2>2. CASE p = Bob
    <3>1. q = Alice
      BY <2>2, PartiesAssumption DEF q, Other
    <3>2. InStep(session'[q], session'[p], From(q)', From(p)',
                 NewTo(q)', NewTo(p)')
      BY <1>11, InStepTurned
    <3> QED
      BY <1>1, <1>9, <1>10, <2>2, <3>1, <3>2 DEF ConversationOK, BobIsSilent
  <2> QED
    BY <2>1, <2>2 DEF Parties
<1> QED
  BY <1>2, <1>7, <1>12 DEF result, key, st

(* As long as nothing was handed over again, a delivery is a first one, and*)
(* it opens the message or refuses its gap.                                *)
LEMMA DeliverConversation ==
  ASSUME CalmInv, NEW p \in Parties, NEW m \in net, Deliver(p, m), replays' = 0
  PROVE  ConversationOK' /\ lost' = lost /\ replays = 0
<1> DEFINE result == ratchetDecrypt(StateFor(p, m), m, <<p, generated[p]>>)
<1>1. replays \in Nat
  BY BoundsAssumption DEF CalmInv, WrittenInv, OnceInv, IInv, TypeOK
<1>2. replays = 0 /\ m \in NewTo(p)
  BY <1>1 DEF Deliver, NewTo, MessagesTo
<1>3. /\ m.text.from # p
      /\ result.outcome # "failed" => lost' = lost
  BY DEF Deliver
<1> HIDE DEF result
<1>4. ConversationOK' /\ result.outcome \in {"opened", "refused"}
  <2>1. CASE BobIsSilent
    <3>1. m.text.from = Alice
      BY <2>1 DEF CalmInv, WrittenInv, OnceInv, SidesOK
    <3>2. p = Bob
      BY <1>3, <3>1 DEF Parties
    <3> QED
      BY <1>2, <2>1, <3>2, HearConversation DEF CalmInv, result
  <2>2. CASE ~BobIsSilent
    BY <1>2, <2>2, ConverseConversation DEF CalmInv, result
  <2> QED
    BY <2>1, <2>2
<1> QED
  BY <1>2, <1>3, <1>4

(* The invariant is inductive.                                             *)
LEMMA CalmStep ==
  ASSUME CalmInv, WrittenInv', [Next]_vars
  PROVE  CalmInv'
<1> SUFFICES ASSUME replays' = 0
             PROVE  ConversationOK' /\ \A p \in Parties : lost'[p] = {}
  BY DEF CalmInv
<1>1. CASE Initiate
  <2>1. replays' = replays /\ lost' = lost
    BY <1>1 DEF Initiate, Post
  <2> QED
    BY <1>1, <2>1, InitiateConversation DEF CalmInv
<1>2. ASSUME NEW p \in Parties, Continue(p)
      PROVE  ConversationOK' /\ \A r \in Parties : lost'[r] = {}
  <2>1. replays' = replays /\ lost' = lost
    BY <1>2 DEF Continue, Post
  <2> QED
    BY <1>2, <2>1, ContinueConversation DEF CalmInv
<1>3. ASSUME NEW p \in Parties, NEW m \in net, Deliver(p, m)
      PROVE  ConversationOK' /\ \A r \in Parties : lost'[r] = {}
  BY <1>3, DeliverConversation DEF CalmInv
<1>4. CASE UNCHANGED vars
  BY <1>4
  DEF vars, CalmInv, ConversationOK, BobIsSilent, From, NewTo, MessagesTo
<1> QED
  BY <1>1, <1>2, <1>3, <1>4 DEF Next

LEMMA CalmInvariance == Spec => []CalmInv
<1>1. Init /\ WrittenInv => CalmInv
  BY DEF Init, CalmInv, ConversationOK, BobIsSilent
<1> QED
  BY <1>1, CalmStep, WrittenInvariance, PTL DEF Spec

(* Out-of-order delivery costs nothing: as long as the mailbox hands       *)
(* nothing over twice, a message that comes for the first time opens,      *)
(* whatever came before it, unless its gap is refused.                     *)
THEOREM EveryNewMessageOpens == Spec => []NewMessagesOpen
<1>1. CalmInv => NewMessagesOpen
  BY DEF CalmInv, NewMessagesOpen
<1> QED
  BY <1>1, CalmInvariance, PTL

(* An end hears the other in each of the three stages.                     *)
LEMMA ConversationNames ==
  ASSUME CalmInv, ConversationOK, NEW p \in DOMAIN session
  PROVE  CacheNames(session[p], From(Other(p)))
<1>1. /\ p \in Parties /\ (Bob \in DOMAIN session => Alice \in DOMAIN session)
  BY DEF CalmInv, WrittenInv, OnceInv, IInv, TypeOK, SidesOK
<1>2. Other(Alice) = Bob /\ Other(Bob) = Alice
  BY PartiesAssumption DEF Other
<1>3. CASE BobIsSilent /\ p = Alice
  <2>1. DOMAIN session[p].MKSKIPPED = {}
    BY <1>3 DEF ConversationOK, Greeting, Listening
  <2> QED
    BY <2>1 DEF CacheNames
<1>4. CASE BobIsSilent /\ p = Bob
  BY <1>2, <1>4 DEF ConversationOK, Listening, Hears
<1>5. CASE ~BobIsSilent
  BY <1>1, <1>2, <1>5 DEF ConversationOK, InStep, Hears, Parties
<1> QED
  BY <1>1, <1>3, <1>4, <1>5 DEF Parties

(* As long as nothing is handed over twice, the skip cache holds the keys  *)
(* of messages that were sent and not read, each under its own name.       *)
THEOREM SkipCacheExact == Spec => []CacheExact
<1>1. CalmInv => CacheExact
  <2> SUFFICES ASSUME CalmInv, replays = 0, NEW p \in DOMAIN session,
                      NEW k \in DOMAIN session[p].MKSKIPPED
               PROVE  \E m \in MessagesTo(p) :
                        /\ cacheKey(m) = k
                        /\ m.messageKey = session[p].MKSKIPPED[k]
                        /\ ~Read(p, m)
    BY DEF CacheExact
  <2>1. p \in Parties /\ KeysGone(session[p], UsedBy(p))
    BY DEF CalmInv, WrittenInv, OnceInv, IInv, TypeOK, EndsOK, StateOK
  <2>2. PICK m \in From(Other(p)) :
          cacheKey(m) = k /\ m.messageKey = session[p].MKSKIPPED[k]
    BY ConversationNames DEF CalmInv, CacheNames
  <2>3. m \in MessagesTo(p)
    BY <2>1, <2>2, OtherParty DEF From, MessagesTo
  <2>4. ~Read(p, m)
    BY <2>1, <2>2, <2>3 DEF KeysGone, UsedBy, MessagesTo
  <2> QED
    BY <2>2, <2>3, <2>4
<1> QED
  BY <1>1, CalmInvariance, PTL

---------------------------------------------------------------------------
(* Root keys only grow, and each link has its owner's key in it.           *)

Begins(s, t) == Len(s) <= Len(t) /\ \A i \in 1..Len(s) : s[i] = t[i]

(* The last Diffie-Hellman output that went into a chain was made with the *)
(* ratchet key k.                                                          *)
EndsIn(id, k, l) == Len(id) > 0 /\ id[Len(id)] = <<agree(k, l)>>

(* Whoever sends has its own ratchet key and the other's last in its root  *)
(* key; its messages are on the beginnings of that root key, and each chain*)
(* ends in the ratchet key of its messages and in one of the other party's.*)
LinksOK ==
  /\ \A p \in DOMAIN session : session[p].sendingChainKey # Null =>
       EndsIn(session[p].rootKey, session[p].localRatchet,
              session[p].remoteRatchetPublic)
  /\ \A p \in DOMAIN session : \A m \in From(p) :
       /\ Begins(m.messageKey.id, session[p].rootKey)
       /\ \E k \in Key : /\ k[1] = Other(p)
                         /\ EndsIn(m.messageKey.id, m.ratchetPublic, k)

LinkedInv == WrittenInv /\ LinksOK

LEMMA BeginsItself == \A s \in RootKey : Begins(s, s)
BY DEF RootKey, Begins

LEMMA BeginsLonger ==
  ASSUME NEW s, NEW t \in RootKey, Len(s) \in Nat, Begins(s, t),
         NEW dh, <<dh>> \in Seq(SUBSET Key)
  PROVE  Append(t, <<dh>>) \in RootKey /\ Begins(s, Append(t, <<dh>>))
BY DEF RootKey, Begins

(* The new link of a root key is its end.                                  *)
LEMMA AppendEnds ==
  ASSUME NEW t \in RootKey, NEW k, NEW l
  PROVE  EndsIn(Append(t, <<agree(k, l)>>), k, l)
<1>1. Len(t) \in Nat
  BY DEF RootKey
<1> DEFINE link == <<agree(k, l)>>
<1> HIDE DEF link
<1>2. Len(Append(t, link)) = Len(t) + 1 /\ Append(t, link)[Len(t) + 1] = link
  BY DEF RootKey
<1> QED
  BY <1>1, <1>2 DEF EndsIn, link

(* Two beginnings of one root key begin one another.                       *)
LEMMA BeginningsAgree ==
  ASSUME NEW s, NEW t, NEW u, Len(s) \in Nat, Len(t) \in Nat,
         Begins(s, u), Begins(t, u), Len(s) <= Len(t)
  PROVE  Begins(s, t)
BY DEF Begins

(* A post leaves its message on the chain of the root key.                 *)
LEMMA PostLinked ==
  ASSUME LinkedInv, NEW p \in Parties, NEW st, StateOK(st, UsedBy(p)),
         st.sendingChainKey # Null, Sends(st, From(p)),
         st.remoteRatchetPublic[1] = Other(p),
         EndsIn(st.rootKey, st.localRatchet, st.remoteRatchetPublic),
         \A x \in From(p) : Begins(x.messageKey.id, st.rootKey),
         p \notin DOMAIN session => From(p) = {},
         NEW x3dh, Post(p, st, x3dh)
  PROVE  LinksOK'
<1>0. PICK m : Posted(p, st, x3dh, m)
  BY PostMessage
<1>1. /\ IsNext(st, m) /\ m.text.from = p
      /\ net' = net \cup {m}
      /\ DOMAIN session' = DOMAIN session \cup {p}
      /\ session'[p] = ratchetEncrypt(st).st
      /\ \A q \in DOMAIN session \ {p} : session'[q] = session[q]
  BY <1>0 DEF Posted
<1> DEFINE new == ratchetEncrypt(st).st
<1>2. /\ IsRatchetState(st) /\ new.localRatchet = st.localRatchet
      /\ new.remoteRatchetPublic = st.remoteRatchetPublic
      /\ new.rootKey = st.rootKey
  BY EncryptSending DEF StateOK
<1>10. session'[p] = new
  BY <1>1
<1> HIDE DEF new
<1>3. st.rootKey \in RootKey /\ st.remoteRatchetPublic \in Key
  BY <1>2 DEF IsRatchetState
<1>4. m.messageKey.id = st.rootKey /\ m.ratchetPublic = st.localRatchet
  BY <1>1 DEF IsNext, Sends
<1>5. From(p)' = From(p) \cup {m}
  BY <1>1 DEF From
<1>6. \A q : q # p => From(q)' = From(q)
  BY <1>1 DEF From
<1>7. \A x \in From(p) :
        \E k \in Key : k[1] = Other(p)
                       /\ EndsIn(x.messageKey.id, x.ratchetPublic, k)
  BY DEF LinkedInv, LinksOK
<1>8. \A x \in From(p)' :
        /\ Begins(x.messageKey.id, session'[p].rootKey)
        /\ \E k \in Key : k[1] = Other(p)
                          /\ EndsIn(x.messageKey.id, x.ratchetPublic, k)
  <2> SUFFICES ASSUME NEW x \in From(p)'
               PROVE  /\ Begins(x.messageKey.id, session'[p].rootKey)
                      /\ \E k \in Key :
                           k[1] = Other(p)
                           /\ EndsIn(x.messageKey.id, x.ratchetPublic, k)
    OBVIOUS
  <2>1. CASE x \in From(p)
    BY <1>2, <1>7, <1>10, <2>1
  <2>2. CASE x = m
    BY <1>2, <1>3, <1>4, <1>10, <2>2, BeginsItself
  <2> QED
    BY <1>5, <2>1, <2>2
<1>9. ASSUME NEW q \in DOMAIN session'
      PROVE  /\ session'[q].sendingChainKey # Null =>
                  EndsIn(session'[q].rootKey, session'[q].localRatchet,
                         session'[q].remoteRatchetPublic)
             /\ \A x \in From(q)' :
                  /\ Begins(x.messageKey.id, session'[q].rootKey)
                  /\ \E k \in Key :
                       k[1] = Other(q)
                       /\ EndsIn(x.messageKey.id, x.ratchetPublic, k)
  <2>1. CASE q = p
    BY <1>2, <1>8, <1>10, <2>1
  <2>2. CASE q # p
    <3>1. q \in DOMAIN session /\ session'[q] = session[q] /\ From(q)' = From(q)
      BY <1>1, <1>6, <2>2
    <3> QED
      BY <3>1 DEF LinkedInv, LinksOK
  <2> QED
    BY <2>1, <2>2
<1> QED
  BY <1>9 DEF LinksOK

(* Alice's first root key ends in her ratchet key and Bob's prekey.        *)
LEMMA InitiateLinked ==
  ASSUME LinkedInv, Initiate
  PROVE  LinksOK'
<1>1. PICK rk \in RootKey, new \in Key,
           x3dh \in [eph : Key, ikDh : Key, opkId : {OpkId, Null}] :
        Post(Alice, initRatchet(rk, LongTerm(Bob).spk, new), x3dh)
  BY InitiateState DEF LinkedInv, WrittenInv, OnceInv
<1> DEFINE st == initRatchet(rk, LongTerm(Bob).spk, new)
<1>2. /\ Alice \in Parties /\ LongTerm(Bob).spk = <<Bob, 1>>
      /\ LongTerm(Bob).spk \in Key /\ UsedBy(Alice) = {}
      /\ From(Alice) = {} /\ Other(Alice) = Bob
  BY KeysAreKeys
  DEF Parties, LongTerm, LinkedInv, WrittenInv, OnceInv, IInv, EndsOK, SidesOK,
      Initiate, From, Other
<1>3. /\ StateOK(st, UsedBy(Alice)) /\ st.sendingChainKey # Null
      /\ st.localRatchet = new /\ st.remoteRatchetPublic = <<Bob, 1>>
  BY <1>2, InitRatchetOK DEF initRatchet
<1>4. /\ st.Ns = 0
      /\ st.sendingChainKey = [id |-> st.rootKey, step |-> 0]
      /\ st.rootKey = Append(rk, <<agree(new, LongTerm(Bob).spk)>>)
  BY DEF initRatchet, kdfRk
<1>5. Post(Alice, st, x3dh)
  BY <1>1
<1> HIDE DEF st
<1>6. Sends(st, From(Alice))
  BY <1>2, <1>3, <1>4 DEF Sends
<1>7. EndsIn(st.rootKey, st.localRatchet, st.remoteRatchetPublic)
  BY <1>2, <1>3, <1>4, AppendEnds
<1>8. /\ st.remoteRatchetPublic[1] = Other(Alice)
      /\ \A x \in From(Alice) : Begins(x.messageKey.id, st.rootKey)
  BY <1>2, <1>3
<1> QED
  BY <1>2, <1>3, <1>5, <1>6, <1>7, <1>8, PostLinked

LEMMA ContinueLinked ==
  ASSUME LinkedInv, NEW p \in Parties, Continue(p)
  PROVE  LinksOK'
<1> DEFINE key == <<p, generated[p]>>
           st == session[p]
<1>1. /\ StateOK(st, UsedBy(p)) /\ p \in DOMAIN session
      /\ Sends(st, From(p)) /\ st.remoteRatchetPublic[1] = Other(p)
      /\ \A x \in From(p) : /\ Begins(x.messageKey.id, st.rootKey)
                            /\ x.messageKey \in ChainKey
  BY DEF LinkedInv, LinksOK, WrittenInv, OnceInv, IInv, EndsOK, Continue,
         SendersOK, NamesOK, MadeBy, From, TypeOK, Message
<1>2. CASE st.sendingChainKey = Null
  <2> DEFINE next == dhRatchetStep(st, key)
  <2>1. key \in Key /\ \A x \in From(p) : x.ratchetPublic # key
    BY NextKeyIsNew DEF LinkedInv
  <2>2. Post(p, next, Null)
    BY <1>2 DEF Continue
  <2> HIDE DEF key, st
  <2>3. /\ StateOK(next, UsedBy(p)) /\ next.sendingChainKey # Null
        /\ Sends(next, From(p)) /\ IsRatchetState(st)
    BY <1>1, <2>1, DhRatchetStepOK, DhRatchetStepSends DEF StateOK
  <2>4. /\ next.localRatchet = key
        /\ next.remoteRatchetPublic = st.remoteRatchetPublic
        /\ next.rootKey =
             Append(st.rootKey, <<agree(key, st.remoteRatchetPublic)>>)
        /\ st.rootKey \in RootKey /\ st.remoteRatchetPublic \in Key
    BY <2>3 DEF dhRatchetStep, kdfRk, IsRatchetState
  <2> HIDE DEF next
  <2>5. EndsIn(next.rootKey, next.localRatchet, next.remoteRatchetPublic)
    BY <2>4, AppendEnds
  <2>6. <<agree(key, st.remoteRatchetPublic)>> \in Seq(SUBSET Key)
    BY <2>1, <2>4 DEF agree
  <2>7. \A x \in From(p) : Begins(x.messageKey.id, next.rootKey)
    <3>1. \A x \in From(p) : Len(x.messageKey.id) \in Nat
      BY <1>1 DEF ChainKey, RootKey
    <3> QED
      BY <1>1, <2>4, <2>6, <3>1, BeginsLonger
  <2> QED
    BY <1>1, <2>2, <2>3, <2>4, <2>5, <2>7, PostLinked
<1>3. CASE st.sendingChainKey # Null
  <2>1. Post(p, st, Null)
    BY <1>3 DEF Continue
  <2>2. EndsIn(st.rootKey, st.localRatchet, st.remoteRatchetPublic)
    BY <1>1, <1>3 DEF LinkedInv, LinksOK
  <2> QED
    BY <1>1, <1>3, <2>1, <2>2, PostLinked
<1> QED
  BY <1>2, <1>3


(* What comes in only lengthens the root key, by a link of a new key.      *)
LEMMA DeliverLinked ==
  ASSUME LinkedInv, NEW p \in Parties, NEW m \in net, Deliver(p, m)
  PROVE  LinksOK'
<1> DEFINE key == <<p, generated[p]>>
           st == StateFor(p, m)
           result == ratchetDecrypt(st, m, key)
           new == result.st
<1>1. /\ StateOK(st, UsedBy(p)) /\ m \in Message /\ p \in Parties
      /\ SameRatchet(st, new) \/ Stepped(st, new, m, key)
      /\ \/ session' = [q \in DOMAIN session \cup {p} |->
                          IF q = p THEN new ELSE session[q]]
         \/ UNCHANGED session
      /\ UNCHANGED net
  BY DeliverStates DEF LinkedInv
<1>2. key \in Key
  BY NextKeyIsNew DEF LinkedInv
<1>3. /\ st.sendingChainKey # Null =>
           EndsIn(st.rootKey, st.localRatchet, st.remoteRatchetPublic)
      /\ \A x \in From(p) :
           /\ Begins(x.messageKey.id, st.rootKey)
           /\ \E k \in Key : /\ k[1] = Other(p)
                             /\ EndsIn(x.messageKey.id, x.ratchetPublic, k)
  <2>1. CASE p \in DOMAIN session
    BY <2>1 DEF StateFor, LinkedInv, LinksOK
  <2>2. CASE p \notin DOMAIN session
    <3>1. st.sendingChainKey = Null
      BY <2>2, StateForFirst
    <3>2. p = Bob /\ BobIsSilent
      BY <2>2, DeliverStates DEF LinkedInv, BobIsSilent
    <3>3. From(p) = {}
      BY <3>2, TwoSides DEF LinkedInv
    <3> QED
      BY <3>1, <3>3
  <2> QED
    BY <2>1, <2>2
<1>4. \A x \in From(p) : Len(x.messageKey.id) \in Nat
  BY DEF From, LinkedInv, WrittenInv, OnceInv, IInv, TypeOK, Message, ChainKey,
         RootKey
<1> HIDE DEF key, st, result
<1>5. /\ new.sendingChainKey # Null =>
           EndsIn(new.rootKey, new.localRatchet, new.remoteRatchetPublic)
      /\ \A x \in From(p) : Begins(x.messageKey.id, new.rootKey)
  <2>1. CASE SameRatchet(st, new)
    BY <1>3, <2>1 DEF SameRatchet
  <2>2. CASE Stepped(st, new, m, key)
    <3> DEFINE pub == m.ratchetPublic
               half == Append(st.rootKey, <<agree(st.localRatchet, pub)>>)
    <3>1. /\ pub \in Key /\ st.localRatchet \in Key /\ st.rootKey \in RootKey
      BY <1>1 DEF Message, StateOK, IsRatchetState
    <3>2. /\ new.rootKey = Append(half, <<agree(key, pub)>>)
          /\ new.localRatchet = key /\ new.remoteRatchetPublic = pub
      BY <2>2 DEF Stepped
    <3>3. /\ <<agree(st.localRatchet, pub)>> \in Seq(SUBSET Key)
          /\ <<agree(key, pub)>> \in Seq(SUBSET Key)
      BY <1>2, <3>1 DEF agree
    <3> HIDE DEF pub
    <3>4. half \in RootKey
      <4>1. Begins(st.rootKey, st.rootKey) /\ Len(st.rootKey) \in Nat
        BY <3>1, BeginsItself DEF RootKey
      <4> QED
        BY <3>1, <3>3, <4>1, BeginsLonger
    <3>5. \A x \in From(p) : Begins(x.messageKey.id, half)
      BY <1>3, <1>4, <3>1, <3>3, BeginsLonger
    <3> HIDE DEF half
    <3>6. \A x \in From(p) : Begins(x.messageKey.id, new.rootKey)
      BY <1>4, <3>2, <3>3, <3>4, <3>5, BeginsLonger
    <3> QED
      BY <3>2, <3>4, <3>6, AppendEnds
  <2> QED
    BY <1>1, <2>1, <2>2
<1> HIDE DEF new
<1>6. \A q : From(q)' = From(q)
  BY <1>1 DEF From
<1>7. ASSUME NEW q \in DOMAIN session'
      PROVE  /\ session'[q].sendingChainKey # Null =>
                  EndsIn(session'[q].rootKey, session'[q].localRatchet,
                         session'[q].remoteRatchetPublic)
             /\ \A x \in From(q)' :
                  /\ Begins(x.messageKey.id, session'[q].rootKey)
                  /\ \E k \in Key :
                       k[1] = Other(q)
                       /\ EndsIn(x.messageKey.id, x.ratchetPublic, k)
  <2>1. CASE q = p /\ session'[q] = new
    BY <1>3, <1>5, <1>6, <2>1
  <2>2. CASE q \in DOMAIN session /\ session'[q] = session[q]
    BY <1>6, <2>2 DEF LinkedInv, LinksOK
  <2> QED
    BY <1>1, <2>1, <2>2
<1> QED
  BY <1>7 DEF LinksOK

(* The invariant is inductive.                                             *)
LEMMA LinkedStep ==
  ASSUME LinkedInv, WrittenInv', [Next]_vars
  PROVE  LinkedInv'
<1>1. CASE Next
  BY <1>1, InitiateLinked, ContinueLinked, DeliverLinked DEF Next, LinkedInv
<1>2. CASE UNCHANGED vars
  BY <1>2 DEF vars, LinkedInv, LinksOK, From
<1> QED
  BY <1>1, <1>2

LEMMA LinkedInvariance == Spec => []LinkedInv
<1>1. Init /\ WrittenInv => LinkedInv
  BY DEF Init, LinkedInv, LinksOK
<1> QED
  BY <1>1, LinkedStep, WrittenInvariance, PTL DEF Spec

---------------------------------------------------------------------------
(* A break-in.                                                             *)

(* The copy is a state that one of the parties was in, and nothing was     *)
(* handed over twice.                                                      *)
CopyOK ==
  stolen # Null =>
    /\ replays = 0 /\ stolen.of \in Parties
    /\ IsRatchetState(stolen.st) /\ ChainsOK(stolen.st) /\ CacheOK(stolen.st)
    /\ stolen.st.localRatchet[1] = stolen.of

BreakInInv == CalmInv /\ LinkedInv /\ CopyOK

(* A copied state holds no chain that is longer than its root key.         *)
LEMMA NewerNotDerivable ==
  ASSUME NEW st, ChainsOK(st), CacheOK(st), IsRatchetState(st),
         NEW mk, Len(mk.id) \in Nat, Len(mk.id) > Len(st.rootKey)
  PROVE  ~Derivable(st, mk)
<1>1. Len(st.rootKey) \in Nat
  BY DEF IsRatchetState, RootKey
<1>2. ASSUME NEW k \in DOMAIN st.MKSKIPPED, st.MKSKIPPED[k] = mk
      PROVE  FALSE
  BY <1>1, <1>2 DEF CacheOK, Spent, IsChainOf
<1>3. ASSUME NEW ck \in {st.receivingChainKey, st.sendingChainKey} \ {Null},
             ck.id = mk.id
      PROVE  FALSE
  BY <1>1, <1>3 DEF ChainsOK, IsChainOf
<1> QED
  BY <1>2, <1>3 DEF Derivable

(* Nor does it lead to a chain with a link that its private key has no part*)
(* in.                                                                     *)
LEMMA NotComputable ==
  ASSUME NEW st, ChainsOK(st), CacheOK(st), IsRatchetState(st),
         NEW mk, Len(mk.id) \in Nat,
         NEW i \in Nat, i > Len(st.rootKey), i <= Len(mk.id),
         st.localRatchet \notin mk.id[i][1]
  PROVE  ~Computable(st, mk)
<1>1. Len(st.rootKey) \in Nat
  BY DEF IsRatchetState, RootKey
<1>2. ~Derivable(st, mk)
  BY <1>1, NewerNotDerivable
<1>3. i \in (Len(st.rootKey) + 1)..Len(mk.id)
  BY <1>1
<1> QED
  BY <1>2, <1>3 DEF Computable

(* As long as nothing is handed over twice, what one party writes and a    *)
(* longer chain of the other's agree.                                      *)
LEMMA LongerBegins ==
  ASSUME CalmInv, LinkedInv, ConversationOK, NEW m \in net, NEW x \in net,
         m.text.from # x.text.from,
         Len(m.messageKey.id) <= Len(x.messageKey.id)
  PROVE  Begins(m.messageKey.id, x.messageKey.id)
<1>1. /\ \A y \in net : /\ y.text.from \in Parties
                        /\ Len(y.messageKey.id) \in Nat
      /\ \A p \in DOMAIN session : session[p].rootKey \in RootKey
  <2>1. TypeOK
    BY DEF CalmInv, WrittenInv, OnceInv, IInv
  <2>2. \A y \in net : y.text \in Text /\ y.messageKey \in ChainKey
    BY <2>1 DEF TypeOK, Message
  <2>4. \A y \in net : y.text.from \in Parties
    BY <2>2 DEF Text
  <2>5. \A y \in net : Len(y.messageKey.id) \in Nat
    BY <2>2 DEF ChainKey, RootKey
  <2>3. \A p \in DOMAIN session : session[p].rootKey \in RootKey
    BY <2>1 DEF TypeOK, IsRatchetState
  <2> QED
    BY <2>3, <2>4, <2>5
<1>2. ~BobIsSilent
  <2>1. BobIsSilent => \A y \in net : y.text.from = Alice
    BY DEF CalmInv, WrittenInv, OnceInv, SidesOK
  <2> QED
    BY <2>1
<1> DEFINE a == session[Alice]
           b == session[Bob]
<1>3. /\ Alice \in DOMAIN session /\ Bob \in DOMAIN session
      /\ Ahead(b, a, From(Bob)) \/ Ahead(a, b, From(Alice))
      /\ a.localRatchet \in Key /\ b.localRatchet \in Key
  BY <1>2
  DEF CalmInv, WrittenInv, OnceInv, IInv, TypeOK, SidesOK, BobIsSilent,
      ConversationOK, InStep, IsRatchetState
<1>4. \A y \in net : Begins(y.messageKey.id, session[y.text.from].rootKey)
  BY <1>1, <1>3 DEF LinkedInv, LinksOK, From, Parties
<1>5. \E u : Begins(m.messageKey.id, u) /\ Begins(x.messageKey.id, u)
  <2>1. \A y \in net : Begins(y.messageKey.id, a.rootKey)
                       \/ Begins(y.messageKey.id, b.rootKey)
    BY <1>1, <1>4 DEF Parties
  <2> DEFINE dh == agree(b.localRatchet, a.localRatchet)
  <2>2. <<dh>> \in Seq(SUBSET Key) /\ dh = agree(a.localRatchet, b.localRatchet)
    BY <1>3 DEF agree
  <2> HIDE DEF dh
  <2>3. CASE Ahead(b, a, From(Bob))
    <3>1. b.rootKey = Append(a.rootKey, <<dh>>)
      BY <2>3 DEF Ahead, dh
    <3>2. \A y \in net : Begins(y.messageKey.id, a.rootKey) =>
                           Begins(y.messageKey.id, b.rootKey)
      BY <1>1, <1>3, <2>2, <3>1, BeginsLonger
    <3> QED
      BY <2>1, <3>2
  <2>4. CASE Ahead(a, b, From(Alice))
    <3>1. a.rootKey = Append(b.rootKey, <<dh>>)
      BY <2>2, <2>4 DEF Ahead
    <3>2. \A y \in net : Begins(y.messageKey.id, b.rootKey) =>
                           Begins(y.messageKey.id, a.rootKey)
      BY <1>1, <1>3, <2>2, <3>1, BeginsLonger
    <3> QED
      BY <2>1, <3>2
  <2> QED
    BY <1>3, <2>3, <2>4
<1> QED
  BY <1>1, <1>5, BeginningsAgree

(* The invariant is what healing needs.                                    *)
LEMMA CopyHeals == BreakInInv => Healing
<1> SUFFICES ASSUME BreakInInv, stolen # Null, NEW m \in net,
                    m.text.from = stolen.of,
                    m.ratchetPublic # stolen.st.localRatchet,
                    Len(m.messageKey.id) > Len(stolen.st.rootKey)
             PROVE  /\ ~Computable(stolen.st, m.messageKey)
                    /\ \A answer \in MessagesTo(stolen.of) :
                         Len(answer.messageKey.id) > Len(m.messageKey.id)
                           => ~Computable(stolen.st, answer.messageKey)
  BY DEF Healing
<1> DEFINE st == stolen.st
           p == stolen.of
           i == Len(m.messageKey.id)
<1>1. /\ replays = 0 /\ p \in Parties
      /\ IsRatchetState(st) /\ ChainsOK(st) /\ CacheOK(st)
      /\ st.localRatchet[1] = p /\ CalmInv /\ LinkedInv
  BY DEF BreakInInv, CopyOK
<1>2. ConversationOK
  BY <1>1 DEF CalmInv
<1>3. /\ \A y \in net : Len(y.messageKey.id) \in Nat
      /\ p \in DOMAIN session
  <2>1. \A y \in net : Len(y.messageKey.id) \in Nat
    BY <1>1 DEF CalmInv, WrittenInv, OnceInv, IInv, TypeOK, Message, ChainKey,
                RootKey
  <2>2. Alice \in DOMAIN session /\ (BobIsSilent => p = Alice)
    BY <1>1 DEF CalmInv, WrittenInv, OnceInv, SidesOK
  <2>3. p \in DOMAIN session
    BY <1>1, <2>2 DEF BobIsSilent, Parties
  <2> QED
    BY <2>1, <2>3
<1>4. PICK k \in Key : /\ k[1] = Other(p)
                       /\ EndsIn(m.messageKey.id, m.ratchetPublic, k)
  BY <1>1, <1>3 DEF LinkedInv, LinksOK, From
<1>5. /\ st.localRatchet # k /\ st.localRatchet # m.ratchetPublic
      /\ Len(st.rootKey) \in Nat
  BY <1>1, <1>4, OtherParty DEF IsRatchetState, RootKey
<1>6. m.messageKey.id[i][1] = agree(m.ratchetPublic, k)
  BY <1>4 DEF EndsIn
<1>7. st.localRatchet \notin m.messageKey.id[i][1]
  BY <1>5, <1>6 DEF agree
<1>8. /\ i \in Nat /\ i > Len(st.rootKey) /\ i > 0
      /\ i <= Len(m.messageKey.id) /\ Len(m.messageKey.id) \in Nat
  BY <1>3, <1>5
<1> HIDE DEF st, p, i
<1>9. ~Computable(st, m.messageKey)
  BY <1>1, <1>7, <1>8, NotComputable
<1>10. ASSUME NEW answer \in MessagesTo(p), Len(answer.messageKey.id) > i
       PROVE  ~Computable(st, answer.messageKey)
  <2>1. answer \in net /\ answer.text.from # m.text.from
    BY DEF MessagesTo, p
  <2>2. Begins(m.messageKey.id, answer.messageKey.id)
    BY <1>1, <1>2, <1>3, <1>10, <2>1, LongerBegins DEF i
  <2>3. answer.messageKey.id[i] = m.messageKey.id[i]
    BY <1>8, <2>2 DEF Begins
  <2>4. Len(answer.messageKey.id) \in Nat /\ i <= Len(answer.messageKey.id)
    BY <1>3, <1>8, <1>10, <2>1
  <2>5. st.localRatchet \notin answer.messageKey.id[i][1]
    BY <1>7, <2>3
  <2>6. ChainsOK(st) /\ CacheOK(st) /\ IsRatchetState(st)
    BY <1>1
  <2> QED
    BY <1>8, <2>4, <2>5, <2>6, NotComputable
<1> QED
  BY <1>9, <1>10 DEF st, p, i

(* A step of a conversation with a break-in is one of the conversation.    *)
LEMMA BreakInStep == [BreakInNext]_breakInVars => [Next]_vars
BY DEF BreakInNext, breakInVars, Steal

LEMMA CopyStep ==
  ASSUME CalmInv, LinkedInv, CopyOK, [BreakInNext]_breakInVars
  PROVE  CopyOK'
<1>1. CASE Next /\ UNCHANGED stolen /\ OneDisturbance'
  BY <1>1 DEF CopyOK, OneDisturbance
<1>2. ASSUME NEW p \in Parties, Steal(p)
      PROVE  CopyOK'
  <2>1. /\ p \in DOMAIN session /\ replays' = 0
        /\ stolen' = [of |-> p, st |-> session[p]]
    BY <1>2 DEF Steal, vars
  <2>2. /\ StateOK(session[p], UsedBy(p))
        /\ session[p].localRatchet[1] = p
    BY <2>1 DEF LinkedInv, WrittenInv, OnceInv, IInv, EndsOK, NamesOK, MadeBy
  <2>3. stolen'.of = p /\ stolen'.st = session[p]
    BY <2>1
  <2> QED
    BY <2>1, <2>2, <2>3 DEF CopyOK, StateOK
<1>3. CASE UNCHANGED breakInVars
  BY <1>3 DEF breakInVars, vars, CopyOK
<1> QED
  BY <1>1, <1>2, <1>3 DEF BreakInNext

(* A break-in heals: whichever state was copied and whenever, once that    *)
(* party writes under a new ratchet key, neither what it writes under it   *)
(* nor what is written in answer opens with the copy.                      *)
THEOREM BreakInHeals == BreakInSpec => []Healing
<1>1. BreakInInit => Init /\ CopyOK
  BY DEF BreakInInit, CopyOK
<1>2. BreakInSpec => Spec
  BY <1>1, BreakInStep, PTL DEF BreakInSpec, Spec
<1>3. BreakInSpec => [](CalmInv /\ LinkedInv)
  BY <1>2, CalmInvariance, LinkedInvariance, PTL
<1>4. CalmInv /\ LinkedInv /\ CopyOK /\ [BreakInNext]_breakInVars => CopyOK'
  BY CopyStep
<1>5. BreakInSpec => []CopyOK
  BY <1>1, <1>3, <1>4, PTL DEF BreakInSpec
<1>6. CalmInv /\ LinkedInv /\ CopyOK => Healing
  BY CopyHeals DEF BreakInInv
<1> QED
  BY <1>3, <1>5, <1>6, PTL
=============================================================================
