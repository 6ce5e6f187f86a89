------------------------ MODULE RatchetState_proofs ------------------------
(***************************************************************************)
(* What each operator of DoubleRatchet does to the keys one endpoint can   *)
(* still compute.  The argument is about lengths: kdfRk makes the root key *)
(* longer by one, so the id of a new chain differs from that of every      *)
(* earlier chain of the endpoint, and a message key, once used, stays      *)
(* behind the chain it belongs to.                                         *)
(***************************************************************************)
EXTENDS DoubleRatchet, TLAPS

IsChainOf(st, ck) == ck \in ChainKey /\ Len(ck.id) <= Len(st.rootKey)

(* A message key of the past: on a chain no newer than the root key, and   *)
(* before whatever the endpoint holds of that chain.                       *)
Spent(st, mk) ==
  /\ IsChainOf(st, mk)
  /\ st.sendingChainKey # Null /\ st.sendingChainKey.id = mk.id
       => mk.step < st.sendingChainKey.step
  /\ st.receivingChainKey # Null /\ st.receivingChainKey.id = mk.id
       => mk.step < st.receivingChainKey.step

(* The two chains differ, and the receiving one is at Nr.                  *)
ChainsOK(st) ==
  /\ st.sendingChainKey # Null => IsChainOf(st, st.sendingChainKey)
  /\ st.receivingChainKey # Null =>
       /\ IsChainOf(st, st.receivingChainKey)
       /\ st.receivingChainKey.step = st.Nr
       /\ st.sendingChainKey # Null =>
            st.sendingChainKey.id # st.receivingChainKey.id

(* A cached key is one the receiving chain has passed, numbered by its     *)
(* step, and keys of one chain are cached under one ratchet key.           *)
CacheOK(st) ==
  \A k \in DOMAIN st.MKSKIPPED :
    /\ Spent(st, st.MKSKIPPED[k])
    /\ st.MKSKIPPED[k].step = k[2]
    /\ st.sendingChainKey # Null =>
         st.MKSKIPPED[k].id # st.sendingChainKey.id
    /\ st.receivingChainKey # Null
         /\ st.MKSKIPPED[k].id = st.receivingChainKey.id
           => k[1] = st.remoteRatchetPublic
    /\ \A l \in DOMAIN st.MKSKIPPED :
         st.MKSKIPPED[l].id = st.MKSKIPPED[k].id => l[1] = k[1]

(* The message keys in used are behind the chains and not in the cache.    *)
KeysGone(st, used) ==
  \A mk \in used :
    Spent(st, mk) /\ \A k \in DOMAIN st.MKSKIPPED : st.MKSKIPPED[k] # mk

StateOK(st, used) ==
  IsRatchetState(st) /\ ChainsOK(st) /\ CacheOK(st) /\ KeysGone(st, used)

(* What is gone cannot be computed: StateOK is what forward secrecy needs. *)
LEMMA GoneNotDerivable ==
  ASSUME NEW st, NEW used, StateOK(st, used), NEW mk \in used
  PROVE  ~Derivable(st, mk)
<1>1. Spent(st, mk) /\ \A k \in DOMAIN st.MKSKIPPED : st.MKSKIPPED[k] # mk
  BY DEF StateOK, KeysGone
<1>2. ASSUME NEW ck \in {st.receivingChainKey, st.sendingChainKey} \ {Null},
             ck.id = mk.id, ck.step <= mk.step
      PROVE  FALSE
  <2>1. mk.step < ck.step
    BY <1>1, <1>2 DEF Spent
  <2>2. mk.step \in Nat /\ ck.step \in Nat
    BY <1>1, <1>2 DEF StateOK, IsRatchetState, Spent, IsChainOf, ChainKey
  <2> QED
    BY <1>2, <2>1, <2>2
<1> QED
  BY <1>1, <1>2 DEF Derivable

---------------------------------------------------------------------------
(* Types of the key derivation functions.                                  *)

(* kdfRk makes the root key longer by one and starts the chain named by    *)
(* it.                                                                     *)
LEMMA RootKeyGrows ==
  ASSUME NEW rk \in RootKey, NEW a \in Key, NEW b \in Key
  PROVE  LET d == kdfRk(rk, agree(a, b))
         IN  /\ d.rootKey \in RootKey
             /\ Len(d.rootKey) = Len(rk) + 1
             /\ d.chainKey = [id |-> d.rootKey, step |-> 0]
             /\ d.chainKey \in ChainKey
<1> DEFINE new == Append(rk, <<agree(a, b)>>)
<1>1. agree(a, b) \in SUBSET Key
  BY DEF agree
<1>2. <<agree(a, b)>> \in Seq(SUBSET Key)
  BY <1>1
<1>3. new \in RootKey /\ Len(new) = Len(rk) + 1
  BY <1>2 DEF RootKey
<1>4. [id |-> new, step |-> 0] \in ChainKey
  BY <1>3 DEF ChainKey
<1> QED
  BY <1>3, <1>4 DEF kdfRk

(* The empty skip cache is well formed.                                    *)
LEMMA NoKeysIsCache == IsKeyCache(NoKeys) /\ DOMAIN NoKeys = {}
BY DEF IsKeyCache, NoKeys

---------------------------------------------------------------------------
(* The initial states have no past.                                        *)

(* The initiator of a session can send.                                    *)
LEMMA InitRatchetOK ==
  ASSUME NEW rk \in RootKey, NEW spk \in Key, NEW new \in Key
  PROVE  /\ StateOK(initRatchet(rk, spk, new), {})
         /\ initRatchet(rk, spk, new).sendingChainKey # Null
<1> DEFINE d == kdfRk(rk, agree(new, spk))
           st == initRatchet(rk, spk, new)
<1>1. /\ d.rootKey \in RootKey
      /\ d.chainKey = [id |-> d.rootKey, step |-> 0]
      /\ d.chainKey \in ChainKey
  BY RootKeyGrows
<1> HIDE DEF d
<1>2. st = [rootKey |-> d.rootKey,
            sendingChainKey |-> d.chainKey, receivingChainKey |-> Null,
            localRatchet |-> new, remoteRatchetPublic |-> spk,
            Ns |-> 0, Nr |-> 0, PN |-> 0, MKSKIPPED |-> NoKeys]
  BY DEF initRatchet, d
<1> HIDE DEF st
<1>3. IsRatchetState(st)
  BY <1>1, <1>2, NoKeysIsCache DEF IsRatchetState
<1>4. ChainsOK(st)
  <2>1. Len(d.rootKey) \in Nat
    BY <1>1 DEF RootKey
  <2> QED
    BY <1>1, <1>2, <2>1 DEF ChainsOK, IsChainOf
<1>5. CacheOK(st) /\ KeysGone(st, {})
  BY <1>2, NoKeysIsCache DEF CacheOK, KeysGone
<1> QED
  BY <1>1, <1>2, <1>3, <1>4, <1>5, NullAssumption DEF StateOK, st

(* The responder's state waits for messages under the header's key.        *)
LEMMA InitRatchetReceiverOK ==
  ASSUME NEW rk \in RootKey, NEW m, m.ratchetPublic \in Key, NEW spk \in Key
  PROVE  /\ StateOK(initRatchetReceiver(rk, m, spk), {})
         /\ initRatchetReceiver(rk, m, spk).remoteRatchetPublic
              = m.ratchetPublic
<1> DEFINE d == kdfRk(rk, agree(spk, m.ratchetPublic))
           st == initRatchetReceiver(rk, m, spk)
<1>1. /\ d.rootKey \in RootKey
      /\ d.chainKey = [id |-> d.rootKey, step |-> 0]
      /\ d.chainKey \in ChainKey
  BY RootKeyGrows
<1> HIDE DEF d
<1>2. st = [rootKey |-> d.rootKey,
            sendingChainKey |-> Null, receivingChainKey |-> d.chainKey,
            localRatchet |-> spk, remoteRatchetPublic |-> m.ratchetPublic,
            Ns |-> 0, Nr |-> 0, PN |-> 0, MKSKIPPED |-> NoKeys]
  BY DEF initRatchetReceiver, d
<1> HIDE DEF st
<1>3. IsRatchetState(st)
  BY <1>1, <1>2, NoKeysIsCache DEF IsRatchetState
<1>4. ChainsOK(st)
  <2>1. Len(d.rootKey) \in Nat
    BY <1>1 DEF RootKey
  <2> QED
    BY <1>1, <1>2, <2>1 DEF ChainsOK, IsChainOf
<1>5. CacheOK(st) /\ KeysGone(st, {})
  BY <1>2, NoKeysIsCache DEF CacheOK, KeysGone
<1> QED
  BY <1>2, <1>3, <1>4, <1>5 DEF StateOK, st

---------------------------------------------------------------------------
(* New chains.                                                             *)

(* A state whose root key has grown, whose cache is as it was and whose    *)
(* chains are kept or new: nothing that was gone comes back.               *)
LEMMA NewChainsOK ==
  ASSUME NEW st, NEW used, StateOK(st, used), NEW new, IsRatchetState(new),
         new.MKSKIPPED = st.MKSKIPPED,
         Len(new.rootKey) >= Len(st.rootKey),
         ChainsOK(new),
         \/ /\ new.receivingChainKey = st.receivingChainKey
            /\ new.remoteRatchetPublic = st.remoteRatchetPublic
         \/ /\ new.receivingChainKey # Null
            /\ Len(new.receivingChainKey.id) > Len(st.rootKey),
         new.sendingChainKey # Null,
         Len(new.sendingChainKey.id) > Len(st.rootKey)
  PROVE  StateOK(new, used)
<1>1. ASSUME NEW mk, Spent(st, mk) PROVE Spent(new, mk)
  <2>1. /\ mk \in ChainKey /\ Len(mk.id) <= Len(st.rootKey)
        /\ Len(mk.id) \in Nat /\ Len(st.rootKey) \in Nat
        /\ Len(new.rootKey) \in Nat
    BY <1>1 DEF Spent, IsChainOf, ChainKey, StateOK, IsRatchetState, RootKey
  <2>2. IsChainOf(new, mk)
    BY <2>1 DEF IsChainOf
  <2>3. new.sendingChainKey.id # mk.id
    BY <2>1
  <2>4. CASE new.receivingChainKey = st.receivingChainKey
    BY <1>1, <2>2, <2>3, <2>4 DEF Spent
  <2>5. CASE /\ new.receivingChainKey # Null
             /\ Len(new.receivingChainKey.id) > Len(st.rootKey)
    <3>1. new.receivingChainKey.id # mk.id
      BY <2>1, <2>5
    <3> QED
      BY <2>2, <2>3, <3>1 DEF Spent
  <2> QED
    BY <2>4, <2>5
<1>2. CacheOK(new)
  <2> SUFFICES ASSUME NEW k \in DOMAIN new.MKSKIPPED
               PROVE
                 /\ Spent(new, new.MKSKIPPED[k])
                 /\ new.MKSKIPPED[k].step = k[2]
                 /\ new.MKSKIPPED[k].id # new.sendingChainKey.id
                 /\ new.receivingChainKey # Null
                      /\ new.MKSKIPPED[k].id = new.receivingChainKey.id
                        => k[1] = new.remoteRatchetPublic
                 /\ \A l \in DOMAIN new.MKSKIPPED :
                      new.MKSKIPPED[l].id = new.MKSKIPPED[k].id => l[1] = k[1]
    BY DEF CacheOK
  <2>1. /\ Spent(st, new.MKSKIPPED[k])
        /\ new.MKSKIPPED[k].step = k[2]
        /\ st.receivingChainKey # Null
             /\ new.MKSKIPPED[k].id = st.receivingChainKey.id
               => k[1] = st.remoteRatchetPublic
        /\ \A l \in DOMAIN new.MKSKIPPED :
             new.MKSKIPPED[l].id = new.MKSKIPPED[k].id => l[1] = k[1]
    BY DEF StateOK, CacheOK
  <2>2. Len(new.MKSKIPPED[k].id) <= Len(st.rootKey)
        /\ Len(new.MKSKIPPED[k].id) \in Nat /\ Len(st.rootKey) \in Nat
    BY <2>1 DEF Spent, IsChainOf, ChainKey, RootKey, StateOK, IsRatchetState
  <2>3. new.MKSKIPPED[k].id # new.sendingChainKey.id
    BY <2>2
  <2>4. new.receivingChainKey # Null
          /\ new.MKSKIPPED[k].id = new.receivingChainKey.id
            => k[1] = new.remoteRatchetPublic
    BY <2>1, <2>2
  <2> QED
    BY <1>1, <2>1, <2>3, <2>4
<1>3. KeysGone(new, used)
  BY <1>1 DEF StateOK, KeysGone
<1> QED
  BY <1>2, <1>3 DEF StateOK

(* Before its first reply the responder takes a new sending chain, and     *)
(* keeps the receiving one.                                                *)
LEMMA DhRatchetStepOK ==
  ASSUME NEW st, NEW used, StateOK(st, used), NEW key \in Key
  PROVE  /\ StateOK(dhRatchetStep(st, key), used)
         /\ dhRatchetStep(st, key).sendingChainKey # Null
<1> DEFINE d == kdfRk(st.rootKey, agree(key, st.remoteRatchetPublic))
           new == dhRatchetStep(st, key)
<1>1. IsRatchetState(st) /\ ChainsOK(st)
  BY DEF StateOK
<1>2. /\ st.rootKey \in RootKey /\ st.remoteRatchetPublic \in Key
      /\ Len(st.rootKey) \in Nat
  BY <1>1 DEF IsRatchetState, RootKey
<1>3. /\ d.rootKey \in RootKey
      /\ Len(d.rootKey) = Len(st.rootKey) + 1
      /\ d.chainKey = [id |-> d.rootKey, step |-> 0]
      /\ d.chainKey \in ChainKey
  BY <1>2, RootKeyGrows
<1> HIDE DEF d
<1>4. /\ new = [st EXCEPT !.PN = st.Ns, !.Ns = 0, !.rootKey = d.rootKey,
                          !.sendingChainKey = d.chainKey,
                          !.localRatchet = key]
  BY DEF dhRatchetStep, d
<1> HIDE DEF new
<1>5. /\ new.rootKey = d.rootKey /\ new.sendingChainKey = d.chainKey
      /\ new.receivingChainKey = st.receivingChainKey
      /\ new.remoteRatchetPublic = st.remoteRatchetPublic
      /\ new.Nr = st.Nr /\ new.MKSKIPPED = st.MKSKIPPED
  BY <1>1, <1>4 DEF IsRatchetState
<1>6. IsRatchetState(new)
  BY <1>1, <1>3, <1>4 DEF IsRatchetState
<1>7. new.sendingChainKey # Null
  BY <1>3, <1>5, NullAssumption
<1>8. new.receivingChainKey # Null =>
        /\ new.receivingChainKey \in ChainKey
        /\ Len(new.receivingChainKey.id) \in Nat
        /\ Len(new.receivingChainKey.id) <= Len(st.rootKey)
  BY <1>1, <1>5 DEF ChainsOK, IsChainOf, ChainKey, RootKey
<1>9. ChainsOK(new)
  BY <1>1, <1>2, <1>3, <1>5, <1>8 DEF ChainsOK, IsChainOf
<1>10. StateOK(new, used)
  BY <1>2, <1>3, <1>5, <1>6, <1>7, <1>9, NewChainsOK
<1> QED
  BY <1>7, <1>10 DEF new

(* A new remote ratchet key replaces both chains.                          *)
LEMMA AdvanceRatchetOK ==
  ASSUME NEW st, NEW used, StateOK(st, used), NEW pub \in Key, NEW key \in Key
  PROVE  /\ StateOK(advanceRatchet(st, pub, key), used)
         /\ advanceRatchet(st, pub, key).remoteRatchetPublic = pub
<1> DEFINE r == kdfRk(st.rootKey, agree(st.localRatchet, pub))
           s == kdfRk(r.rootKey, agree(key, pub))
           new == advanceRatchet(st, pub, key)
<1>1. IsRatchetState(st)
  BY DEF StateOK
<1>2. /\ st.rootKey \in RootKey /\ st.localRatchet \in Key
      /\ Len(st.rootKey) \in Nat
  BY <1>1 DEF IsRatchetState, RootKey
<1>3. /\ r.rootKey \in RootKey
      /\ Len(r.rootKey) = Len(st.rootKey) + 1
      /\ r.chainKey = [id |-> r.rootKey, step |-> 0]
      /\ r.chainKey \in ChainKey
  BY <1>2, RootKeyGrows
<1> HIDE DEF r
<1>4. /\ s.rootKey \in RootKey
      /\ Len(s.rootKey) = Len(r.rootKey) + 1
      /\ s.chainKey = [id |-> s.rootKey, step |-> 0]
      /\ s.chainKey \in ChainKey
  BY <1>3, RootKeyGrows
<1> HIDE DEF s
<1>5. new = [st EXCEPT !.rootKey = s.rootKey,
                       !.receivingChainKey = r.chainKey,
                       !.remoteRatchetPublic = pub,
                       !.Nr = 0, !.PN = st.Ns, !.Ns = 0,
                       !.sendingChainKey = s.chainKey,
                       !.localRatchet = key]
  BY DEF advanceRatchet, r, s
<1> HIDE DEF new
<1>6. /\ new.rootKey = s.rootKey /\ new.sendingChainKey = s.chainKey
      /\ new.receivingChainKey = r.chainKey
      /\ new.remoteRatchetPublic = pub
      /\ new.Nr = 0 /\ new.MKSKIPPED = st.MKSKIPPED
  BY <1>1, <1>5 DEF IsRatchetState
<1>7. IsRatchetState(new)
  BY <1>1, <1>3, <1>4, <1>5 DEF IsRatchetState
<1>8. new.sendingChainKey # Null /\ new.receivingChainKey # Null
  BY <1>3, <1>4, <1>6, NullAssumption
<1>9. ChainsOK(new)
  BY <1>2, <1>3, <1>4, <1>6 DEF ChainsOK, IsChainOf
<1>10. StateOK(new, used)
  BY <1>2, <1>3, <1>4, <1>6, <1>7, <1>8, <1>9, NewChainsOK
<1> QED
  BY <1>6, <1>10 DEF new

---------------------------------------------------------------------------
(* Sending.                                                                *)

(* The key of a new message was never used before and is gone at once.     *)
LEMMA EncryptOK ==
  ASSUME NEW st, NEW used, StateOK(st, used), st.sendingChainKey # Null
  PROVE  LET enc == ratchetEncrypt(st)
         IN  /\ StateOK(enc.st, used \cup {enc.messageKey})
             /\ enc.messageKey \in ChainKey \ used
             /\ enc.header \in [ratchetPublic : Key, Ns : Nat, PN : Nat]
<1> DEFINE ck == st.sendingChainKey
           next == [ck EXCEPT !.step = ck.step + 1]
           count == st.Ns + 1
           enc == ratchetEncrypt(st)
           new == enc.st
<1>1. IsRatchetState(st) /\ ChainsOK(st) /\ CacheOK(st) /\ KeysGone(st, used)
  BY DEF StateOK
<1>2. ck \in ChainKey /\ ck.step \in Nat
  BY <1>1 DEF IsRatchetState, ChainKey
<1>3. /\ enc.messageKey = ck
      /\ new = [st EXCEPT !.sendingChainKey = next, !.Ns = count]
      /\ enc.header = [ratchetPublic |-> st.localRatchet,
                       Ns |-> st.Ns, PN |-> st.PN]
  BY DEF ratchetEncrypt, kdfCk
<1>4. /\ next \in ChainKey /\ next.id = ck.id
      /\ next.step = ck.step + 1
      /\ next # Null /\ count \in Nat
  BY <1>1, <1>2, NullAssumption DEF ChainKey, IsRatchetState
<1> HIDE DEF enc, next, count
<1>5. /\ new.rootKey = st.rootKey
      /\ new.sendingChainKey = next
      /\ new.receivingChainKey = st.receivingChainKey
      /\ new.remoteRatchetPublic = st.remoteRatchetPublic
      /\ new.Nr = st.Nr /\ new.MKSKIPPED = st.MKSKIPPED
  BY <1>1, <1>3 DEF IsRatchetState
<1>6. /\ new.sendingChainKey \in ChainKey /\ new.sendingChainKey.id = ck.id
      /\ new.sendingChainKey.step = ck.step + 1
      /\ new.sendingChainKey # Null
  BY <1>4, <1>5
<1>7. IsRatchetState(new)
  BY <1>1, <1>4, <1>3, <1>5 DEF IsRatchetState
<1>8. ChainsOK(new)
  BY <1>1, <1>5, <1>6 DEF ChainsOK, IsChainOf
<1>9. ASSUME NEW mk, Spent(st, mk) PROVE Spent(new, mk)
  <2>1. mk \in ChainKey /\ mk.step \in Nat
    BY <1>9 DEF Spent, IsChainOf, ChainKey
  <2> QED
    BY <1>2, <1>5, <1>6, <1>9, <2>1 DEF Spent, IsChainOf
<1>10. CacheOK(new)
  BY <1>1, <1>5, <1>6, <1>9 DEF CacheOK
<1>11. Spent(new, ck)
  BY <1>1, <1>2, <1>5, <1>6 DEF Spent, ChainsOK, IsChainOf
<1>12. \A k \in DOMAIN new.MKSKIPPED : new.MKSKIPPED[k] # ck
  BY <1>1, <1>5 DEF CacheOK
<1>13. KeysGone(new, used \cup {ck})
  BY <1>1, <1>5, <1>9, <1>11, <1>12 DEF KeysGone
<1>14. ck \notin used
  BY <1>1, <1>2 DEF KeysGone, Spent
<1>15. enc.header \in [ratchetPublic : Key, Ns : Nat, PN : Nat]
  BY <1>1, <1>3 DEF IsRatchetState
<1>16. StateOK(new, used \cup {ck})
  BY <1>7, <1>8, <1>10, <1>13 DEF StateOK
<1> QED
  BY <1>2, <1>3, <1>14, <1>15, <1>16 DEF enc

---------------------------------------------------------------------------
(* Receiving.                                                              *)

(* What holds of all used keys holds of some.                              *)
LEMMA FewerKeysGone ==
  ASSUME NEW st, NEW used, NEW fewer \in SUBSET used, StateOK(st, used)
  PROVE  StateOK(st, fewer)
BY DEF StateOK, KeysGone

(* Caching the keys up to n moves them from the chain to the cache.        *)
LEMMA SkipOK ==
  ASSUME NEW st, NEW used, StateOK(st, used), NEW n \in Nat,
         ~skipRefused(st, n)
  PROVE  LET new == skipMessageKeys(st, st.remoteRatchetPublic, n)
         IN  /\ StateOK(new, used)
             /\ new.remoteRatchetPublic = st.remoteRatchetPublic
             /\ st.receivingChainKey # Null => new.receivingChainKey # Null
<1> DEFINE pub == st.remoteRatchetPublic
           rc == st.receivingChainKey
           names == {<<pub, i>> : i \in st.Nr .. (n - 1)}
           new == skipMessageKeys(st, pub, n)
           cache == new.MKSKIPPED
<1>1. IsRatchetState(st) /\ ChainsOK(st) /\ CacheOK(st) /\ KeysGone(st, used)
  BY DEF StateOK
<1>2. st.Nr \in Nat /\ pub \in Key /\ IsKeyCache(st.MKSKIPPED)
  BY <1>1 DEF IsRatchetState
<1>3. CASE names = {}
  <2>1. new = st
    BY <1>3 DEF skipMessageKeys
  <2> QED
    BY <2>1
<1>4. CASE names # {}
  <2>1. n > st.Nr
    BY <1>2, <1>4
  <2>2. rc # Null
    BY <2>1 DEF skipRefused
  <2>3. /\ rc \in ChainKey /\ rc.id \in RootKey /\ rc.step = st.Nr
        /\ Len(rc.id) <= Len(st.rootKey)
    BY <1>1, <2>2 DEF ChainsOK, IsChainOf, ChainKey
  <2>4. \A k \in names : k = <<pub, k[2]>> /\ k[1] = pub /\ k[2] \in Nat
                         /\ k[2] >= st.Nr /\ k[2] < n
    BY <1>2
  <2>5. /\ new.rootKey = st.rootKey
        /\ new.sendingChainKey = st.sendingChainKey
        /\ new.receivingChainKey =
             [rc EXCEPT !.step = rc.step + (n - st.Nr)]
        /\ new.remoteRatchetPublic = pub
        /\ new.localRatchet = st.localRatchet
        /\ new.Ns = st.Ns /\ new.Nr = n /\ new.PN = st.PN
        /\ cache =
             [k \in DOMAIN st.MKSKIPPED \cup names |->
                IF k \in names
                THEN [id |-> rc.id, step |-> rc.step + (k[2] - st.Nr)]
                ELSE st.MKSKIPPED[k]]
        /\ new \in [rootKey : {new.rootKey},
                    sendingChainKey : {new.sendingChainKey},
                    receivingChainKey : {new.receivingChainKey},
                    localRatchet : {new.localRatchet},
                    remoteRatchetPublic : {new.remoteRatchetPublic},
                    Ns : {new.Ns}, Nr : {new.Nr}, PN : {new.PN},
                    MKSKIPPED : {cache}]
    BY <1>1, <1>4 DEF skipMessageKeys, IsRatchetState
  <2> HIDE DEF new, names
  <2>6. /\ new.receivingChainKey \in ChainKey
        /\ new.receivingChainKey.id = rc.id
        /\ new.receivingChainKey.step = n
        /\ new.receivingChainKey # Null
    BY <1>2, <2>3, <2>5, NullAssumption DEF ChainKey
  <2>7. DOMAIN cache = DOMAIN st.MKSKIPPED \cup names
    BY <2>5
  <2>8. \A k \in names : k \in DOMAIN cache /\ cache[k].id = rc.id
                         /\ cache[k].step = k[2] /\ cache[k] \in ChainKey
    BY <1>2, <2>3, <2>4, <2>5 DEF ChainKey
  <2>9. \A k \in DOMAIN cache \ names :
           k \in DOMAIN st.MKSKIPPED /\ cache[k] = st.MKSKIPPED[k]
    BY <2>5, <2>7
  <2>10. IsKeyCache(cache)
    <3>1. DOMAIN cache \subseteq Key \X Nat
      BY <1>2, <2>4, <2>7 DEF IsKeyCache
    <3>2. \A k \in DOMAIN cache : cache[k] \in ChainKey
      BY <1>2, <2>8, <2>9 DEF IsKeyCache
    <3>3. cache = [k \in DOMAIN cache |-> cache[k]]
      BY <2>5
    <3> QED
      BY <3>1, <3>2, <3>3 DEF IsKeyCache
  <2>11. IsRatchetState(new)
    BY <1>1, <1>2, <2>5, <2>6, <2>10 DEF IsRatchetState
  <2>12. ChainsOK(new)
    BY <1>1, <2>2, <2>3, <2>5, <2>6 DEF ChainsOK, IsChainOf
  <2>13. ASSUME NEW mk, Spent(st, mk) PROVE Spent(new, mk)
    <3>1. mk.step \in Nat
      BY <2>13 DEF Spent, IsChainOf, ChainKey
    <3> QED
      BY <1>2, <2>1, <2>2, <2>3, <2>5, <2>6, <2>13, <3>1
      DEF Spent, IsChainOf
  <2>14. \A k \in names : Spent(new, cache[k])
    BY <1>1, <2>2, <2>3, <2>4, <2>5, <2>6, <2>8
    DEF Spent, IsChainOf, ChainsOK
  <2>15. CacheOK(new)
    <3> SUFFICES ASSUME NEW k \in DOMAIN cache
                 PROVE
                   /\ Spent(new, cache[k])
                   /\ cache[k].step = k[2]
                   /\ new.sendingChainKey # Null =>
                        cache[k].id # new.sendingChainKey.id
                   /\ cache[k].id = new.receivingChainKey.id
                        => k[1] = new.remoteRatchetPublic
                   /\ \A l \in DOMAIN cache :
                        cache[l].id = cache[k].id => l[1] = k[1]
      BY DEF CacheOK
    <3>1. CASE k \in names
      <4>1. \A l \in DOMAIN cache : cache[l].id = cache[k].id => l[1] = k[1]
        BY <1>1, <2>2, <2>4, <2>8, <2>9, <3>1 DEF CacheOK
      <4>2. new.sendingChainKey # Null =>
              cache[k].id # new.sendingChainKey.id
        BY <1>1, <2>2, <2>5, <2>8, <3>1 DEF ChainsOK
      <4> QED
        BY <2>4, <2>5, <2>8, <2>14, <3>1, <4>1, <4>2
    <3>2. CASE k \notin names
      <4>1. Spent(new, cache[k]) /\ cache[k].step = k[2]
        BY <1>1, <2>9, <2>13, <3>2 DEF CacheOK
      <4>2. new.sendingChainKey # Null =>
              cache[k].id # new.sendingChainKey.id
        BY <1>1, <2>5, <2>9, <3>2 DEF CacheOK
      <4>3. cache[k].id = new.receivingChainKey.id
              => k[1] = new.remoteRatchetPublic
        BY <1>1, <2>2, <2>5, <2>6, <2>9, <3>2 DEF CacheOK
      <4>4. \A l \in DOMAIN cache : cache[l].id = cache[k].id => l[1] = k[1]
        BY <1>1, <2>2, <2>4, <2>8, <2>9, <3>2 DEF CacheOK
      <4> QED
        BY <4>1, <4>2, <4>3, <4>4
    <3> QED
      BY <3>1, <3>2
  <2>16. KeysGone(new, used)
    <3> SUFFICES ASSUME NEW mk \in used
                 PROVE  /\ Spent(new, mk)
                        /\ \A k \in DOMAIN cache : cache[k] # mk
      BY DEF KeysGone
    <3>1. Spent(st, mk) /\ \A k \in DOMAIN st.MKSKIPPED : st.MKSKIPPED[k] # mk
      BY <1>1 DEF KeysGone
    <3>2. mk.step \in Nat
      BY <3>1 DEF Spent, IsChainOf, ChainKey
    <3>3. \A k \in names : cache[k] # mk
      BY <1>2, <2>2, <2>3, <2>4, <2>8, <3>1, <3>2 DEF Spent
    <3> QED
      BY <2>9, <2>13, <3>1, <3>3
  <2>17. StateOK(new, used)
    BY <2>11, <2>12, <2>15, <2>16 DEF StateOK
  <2> QED
    BY <2>5, <2>6, <2>17 DEF new
<1> QED
  BY <1>3, <1>4

(* The next key of the receiving chain was never used and is gone after.   *)
LEMMA NextKeyOK ==
  ASSUME NEW st, NEW used, StateOK(st, used), st.receivingChainKey # Null
  PROVE  LET rc == st.receivingChainKey
             new == [st EXCEPT !.receivingChainKey = kdfCk(rc).chainKey,
                               !.Nr = @ + 1]
         IN  StateOK(new, used \cup {rc}) /\ rc \notin used
<1> DEFINE rc == st.receivingChainKey
           next == [rc EXCEPT !.step = rc.step + 1]
           count == st.Nr + 1
           new == [st EXCEPT !.receivingChainKey = next, !.Nr = count]
<1>1. IsRatchetState(st) /\ ChainsOK(st) /\ CacheOK(st) /\ KeysGone(st, used)
  BY DEF StateOK
<1>2. rc \in ChainKey /\ rc.step \in Nat /\ rc.step = st.Nr
  BY <1>1 DEF IsRatchetState, ChainKey, ChainsOK
<1>3. /\ next \in ChainKey /\ next.id = rc.id
      /\ next.step = rc.step + 1
      /\ next # Null /\ count \in Nat /\ next.step = count
  BY <1>1, <1>2, NullAssumption DEF ChainKey, IsRatchetState
<1> HIDE DEF next, count
<1>4. /\ new.rootKey = st.rootKey
      /\ new.receivingChainKey = next
      /\ new.sendingChainKey = st.sendingChainKey
      /\ new.remoteRatchetPublic = st.remoteRatchetPublic
      /\ new.Nr = count /\ new.MKSKIPPED = st.MKSKIPPED
  BY <1>1 DEF IsRatchetState
<1>5. IsRatchetState(new)
  BY <1>1, <1>3 DEF IsRatchetState
<1> HIDE DEF new
<1>6. ChainsOK(new)
  BY <1>1, <1>3, <1>4 DEF ChainsOK, IsChainOf
<1>7. ASSUME NEW mk, Spent(st, mk) PROVE Spent(new, mk)
  <2>1. mk \in ChainKey /\ mk.step \in Nat
    BY <1>7 DEF Spent, IsChainOf, ChainKey
  <2> QED
    BY <1>2, <1>3, <1>4, <1>7, <2>1 DEF Spent, IsChainOf
<1>8. CacheOK(new)
  BY <1>1, <1>3, <1>4, <1>7 DEF CacheOK
<1>9. Spent(new, rc)
  BY <1>1, <1>2, <1>3, <1>4 DEF Spent, ChainsOK, IsChainOf
<1>10. \A k \in DOMAIN new.MKSKIPPED : new.MKSKIPPED[k] # rc
  BY <1>1, <1>2, <1>4 DEF CacheOK, Spent
<1>11. KeysGone(new, used \cup {rc})
  BY <1>1, <1>4, <1>7, <1>9, <1>10 DEF KeysGone
<1>12. rc \notin used
  BY <1>1, <1>2 DEF KeysGone, Spent
<1>13. StateOK(new, used \cup {rc})
  BY <1>5, <1>6, <1>8, <1>11 DEF StateOK
<1>14. new = [st EXCEPT !.receivingChainKey = kdfCk(rc).chainKey,
                        !.Nr = @ + 1]
  BY DEF new, next, count, kdfCk
<1> QED
  BY <1>12, <1>13, <1>14

(* What opening msg uses up, as the result of a decryption says.           *)
Opened(result, msg) ==
  IF result.outcome = "opened" THEN {msg.messageKey} ELSE {}

DecryptOK(result, msg, used) ==
  /\ StateOK(result.st, used \cup Opened(result, msg))
  /\ Opened(result, msg) \cap used = {}

(* A message of the present chain, whether it is refused, fails or opens.  *)
LEMMA DecryptOnChainOK ==
  ASSUME NEW st, NEW used, StateOK(st, used), NEW msg, msg.Ns \in Nat,
         msg.ratchetPublic = st.remoteRatchetPublic
  PROVE  DecryptOK(decryptOnChain(st, msg), msg, used)
<1> DEFINE result == decryptOnChain(st, msg)
           skipped == skipMessageKeys(st, msg.ratchetPublic, msg.Ns)
           rc == skipped.receivingChainKey
           new == [skipped EXCEPT !.receivingChainKey = kdfCk(rc).chainKey,
                                  !.Nr = @ + 1]
<1>1. CASE skipRefused(st, msg.Ns) \/ st.receivingChainKey = Null
  <2>1. result.st = st /\ result.outcome = "refused"
    BY <1>1 DEF decryptOnChain
  <2>2. Opened(result, msg) = {}
    BY <2>1 DEF Opened
  <2>3. used \cup {} = used
    OBVIOUS
  <2> HIDE DEF result
  <2> QED
    BY <2>1, <2>2, <2>3 DEF DecryptOK, result
<1>2. CASE ~skipRefused(st, msg.Ns) /\ st.receivingChainKey # Null
  <2>1. StateOK(skipped, used) /\ rc # Null
    BY <1>2, SkipOK
  <2> HIDE DEF skipped
  <2>2. StateOK(new, used \cup {rc}) /\ rc \notin used
    BY <2>1, NextKeyOK
  <2>3. result.st = new /\ result.outcome = gcmDecrypt(rc, msg)
    BY <1>2 DEF decryptOnChain, kdfCk, skipped
  <2> HIDE DEF new, result
  <2>4. CASE rc = msg.messageKey
    <3>1. Opened(result, msg) = {rc}
      BY <2>3, <2>4 DEF Opened, gcmDecrypt
    <3> QED
      BY <2>2, <2>3, <3>1 DEF DecryptOK, result
  <2>5. CASE rc # msg.messageKey
    <3>1. Opened(result, msg) = {}
      BY <2>3, <2>5 DEF Opened, gcmDecrypt
    <3>2. StateOK(new, used)
      BY <2>2, FewerKeysGone
    <3>3. used \cup {} = used
      OBVIOUS
    <3> QED
      BY <2>3, <3>1, <3>2, <3>3 DEF DecryptOK, result
  <2> QED
    BY <2>4, <2>5
<1> QED
  BY <1>1, <1>2

(* A message of a new chain. When the gap in it is refused, the state has  *)
(* taken the new chains all the same, and is still well formed.            *)
LEMMA DecryptNewChainOK ==
  ASSUME NEW st, NEW used, StateOK(st, used), NEW key \in Key,
         NEW msg, msg.Ns \in Nat, msg.PN \in Nat, msg.ratchetPublic \in Key
  PROVE  DecryptOK(decryptNewChain(st, msg, key), msg, used)
<1> DEFINE result == decryptNewChain(st, msg, key)
           skipped == skipMessageKeys(st, st.remoteRatchetPublic, msg.PN)
           advanced == advanceRatchet(skipped, msg.ratchetPublic, key)
<1>1. CASE skipRefused(st, msg.PN)
  <2>1. result.st = st /\ result.outcome = "refused"
    BY <1>1 DEF decryptNewChain
  <2>2. Opened(result, msg) = {} /\ used \cup {} = used
    BY <2>1 DEF Opened
  <2> HIDE DEF result
  <2> QED
    BY <2>1, <2>2 DEF DecryptOK, result
<1>2. CASE ~skipRefused(st, msg.PN)
  <2>1. StateOK(skipped, used)
    BY <1>2, SkipOK
  <2> HIDE DEF skipped
  <2>2. /\ StateOK(advanced, used)
        /\ advanced.remoteRatchetPublic = msg.ratchetPublic
    BY <2>1, AdvanceRatchetOK
  <2> HIDE DEF advanced
  <2>3. DecryptOK(decryptOnChain(advanced, msg), msg, used)
    BY <2>2, DecryptOnChainOK
  <2> QED
    BY <1>2, <2>3 DEF decryptNewChain, advanced, skipped
<1> QED
  BY <1>1, <1>2

(* A message whose key was cached: the entry goes, so that the key is      *)
(* gone.                                                                   *)
LEMMA DecryptCachedOK ==
  ASSUME NEW st, NEW used, StateOK(st, used), NEW msg,
         cacheKey(msg) \in DOMAIN st.MKSKIPPED
  PROVE  DecryptOK(decryptCached(st, msg), msg, used)
<1> DEFINE name == cacheKey(msg)
           mk == st.MKSKIPPED[name]
           rest == [k \in DOMAIN st.MKSKIPPED \ {name} |-> st.MKSKIPPED[k]]
           new == [st EXCEPT !.MKSKIPPED = rest]
           result == decryptCached(st, msg)
<1>1. IsRatchetState(st) /\ ChainsOK(st) /\ CacheOK(st) /\ KeysGone(st, used)
  BY DEF StateOK
<1>2. IsKeyCache(rest)
  BY <1>1 DEF IsKeyCache, IsRatchetState
<1>3. \A k \in DOMAIN rest :
         k \in DOMAIN st.MKSKIPPED /\ k # name /\ rest[k] = st.MKSKIPPED[k]
  OBVIOUS
<1>4. result.st = new /\ result.outcome = gcmDecrypt(mk, msg)
  BY DEF decryptCached
<1> HIDE DEF rest, result
<1>5. /\ new.rootKey = st.rootKey
      /\ new.receivingChainKey = st.receivingChainKey
      /\ new.sendingChainKey = st.sendingChainKey
      /\ new.remoteRatchetPublic = st.remoteRatchetPublic
      /\ new.Nr = st.Nr /\ new.MKSKIPPED = rest
  BY <1>1 DEF IsRatchetState
<1>6. IsRatchetState(new)
  BY <1>1, <1>2 DEF IsRatchetState
<1> HIDE DEF new
<1>7. ChainsOK(new)
  BY <1>1, <1>5 DEF ChainsOK, IsChainOf
<1>8. \A key : Spent(st, key) => Spent(new, key)
  BY <1>5 DEF Spent, IsChainOf
<1>9. CacheOK(new)
  BY <1>1, <1>3, <1>5, <1>8 DEF CacheOK
<1>10. \A k \in DOMAIN rest : rest[k] # mk
  <2> SUFFICES ASSUME NEW k \in DOMAIN rest, rest[k] = mk PROVE FALSE
    OBVIOUS
  <2>1. k[1] = name[1] /\ k[2] = name[2]
    BY <1>1, <1>3 DEF CacheOK
  <2>2. k \in Key \X Nat /\ name \in Key \X Nat
    BY <1>1, <1>3 DEF IsRatchetState, IsKeyCache
  <2>3. k = name
    BY <2>1, <2>2
  <2> QED
    BY <1>3, <2>3
<1>11. KeysGone(new, used \cup {mk})
  BY <1>1, <1>3, <1>5, <1>8, <1>10 DEF KeysGone, CacheOK
<1>12. mk \notin used
  BY <1>1 DEF KeysGone
<1>13. StateOK(new, used \cup {mk})
  BY <1>6, <1>7, <1>9, <1>11 DEF StateOK
<1>14. CASE mk = msg.messageKey
  <2>1. Opened(result, msg) = {mk}
    BY <1>4, <1>14 DEF Opened, gcmDecrypt
  <2> QED
    BY <1>4, <1>12, <1>13, <2>1 DEF DecryptOK, result
<1>15. CASE mk # msg.messageKey
  <2>1. Opened(result, msg) = {} /\ used \cup {} = used
    BY <1>4, <1>15 DEF Opened, gcmDecrypt
  <2>2. StateOK(new, used)
    BY <1>13, FewerKeysGone
  <2> QED
    BY <1>4, <2>1, <2>2 DEF DecryptOK, result
<1> QED
  BY <1>14, <1>15

(* Whatever is handed to ratchetDecrypt, a message that opens used a key   *)
(* that had not been used, and no used key comes back.                     *)
THEOREM RatchetDecryptOK ==
  ASSUME NEW st, NEW used, StateOK(st, used), NEW key \in Key,
         NEW msg, msg.Ns \in Nat, msg.PN \in Nat, msg.ratchetPublic \in Key
  PROVE  DecryptOK(ratchetDecrypt(st, msg, key), msg, used)
<1>1. CASE cacheKey(msg) \in DOMAIN st.MKSKIPPED
  BY <1>1, DecryptCachedOK DEF ratchetDecrypt
<1>2. CASE /\ cacheKey(msg) \notin DOMAIN st.MKSKIPPED
           /\ msg.ratchetPublic = st.remoteRatchetPublic
  BY <1>2, DecryptOnChainOK DEF ratchetDecrypt
<1>3. CASE /\ cacheKey(msg) \notin DOMAIN st.MKSKIPPED
           /\ msg.ratchetPublic # st.remoteRatchetPublic
  BY <1>3, DecryptNewChainOK DEF ratchetDecrypt
<1> QED
  BY <1>1, <1>2, <1>3

---------------------------------------------------------------------------
(* The sending half of a state, under what comes in.                       *)

(* Neither half of the ratchet moves but for the receiving chain.          *)
SameRatchet(st, new) ==
  /\ new.rootKey = st.rootKey
  /\ new.sendingChainKey = st.sendingChainKey
  /\ new.localRatchet = st.localRatchet
  /\ new.remoteRatchetPublic = st.remoteRatchetPublic
  /\ new.Ns = st.Ns /\ new.PN = st.PN

(* The root key grows by the two phases of the DH step.                    *)
Stepped(st, new, msg, key) ==
  /\ msg.ratchetPublic # st.remoteRatchetPublic
  /\ new.rootKey \in RootKey
  /\ Len(new.rootKey) = Len(st.rootKey) + 2
  /\ new.rootKey =
       Append(Append(st.rootKey, <<agree(st.localRatchet, msg.ratchetPublic)>>),
              <<agree(key, msg.ratchetPublic)>>)
  /\ new.sendingChainKey \in ChainKey
  /\ new.sendingChainKey = [id |-> new.rootKey, step |-> 0]
  /\ new.sendingChainKey.id = new.rootKey
  /\ new.localRatchet = key
  /\ new.remoteRatchetPublic = msg.ratchetPublic
  /\ new.Ns = 0 /\ new.PN = st.Ns

(* Caching keys touches the receiving chain only.                          *)
LEMMA SkipSameRatchet ==
  ASSUME NEW st, IsRatchetState(st), NEW pub, NEW n
  PROVE  SameRatchet(st, skipMessageKeys(st, pub, n))
BY DEF IsRatchetState, SameRatchet, skipMessageKeys

(* So does a message of the current chain.                                 *)
LEMMA OnChainSameRatchet ==
  ASSUME NEW st, IsRatchetState(st), NEW msg
  PROVE  SameRatchet(st, decryptOnChain(st, msg).st)
<1> DEFINE skipped == skipMessageKeys(st, msg.ratchetPublic, msg.Ns)
<1>1. CASE skipRefused(st, msg.Ns) \/ st.receivingChainKey = Null
  BY <1>1 DEF decryptOnChain, SameRatchet
<1>2. CASE ~(skipRefused(st, msg.Ns) \/ st.receivingChainKey = Null)
  BY <1>2 DEF IsRatchetState, SameRatchet, decryptOnChain, skipMessageKeys
<1> QED
  BY <1>1, <1>2

(* The two phases put the sending chain two steps on.                      *)
LEMMA AdvanceSteps ==
  ASSUME NEW st, IsRatchetState(st), NEW key \in Key,
         NEW msg, msg.ratchetPublic \in Key,
         msg.ratchetPublic # st.remoteRatchetPublic
  PROVE  LET new == advanceRatchet(st, msg.ratchetPublic, key)
         IN  Stepped(st, new, msg, key)
<1> DEFINE pub == msg.ratchetPublic
           r == kdfRk(st.rootKey, agree(st.localRatchet, pub))
           s == kdfRk(r.rootKey, agree(key, pub))
           new == advanceRatchet(st, pub, key)
<1>1. /\ st.rootKey \in RootKey /\ st.localRatchet \in Key
      /\ Len(st.rootKey) \in Nat
  BY DEF IsRatchetState, RootKey
<1>2. r.rootKey \in RootKey /\ Len(r.rootKey) = Len(st.rootKey) + 1
  BY <1>1, RootKeyGrows
<1> HIDE DEF r
<1>3. /\ s.rootKey \in RootKey /\ Len(s.rootKey) = Len(r.rootKey) + 1
      /\ s.chainKey = [id |-> s.rootKey, step |-> 0]
      /\ s.chainKey \in ChainKey
  BY <1>2, RootKeyGrows
<1>4. /\ new.rootKey = s.rootKey /\ new.sendingChainKey = s.chainKey
      /\ new.localRatchet = key /\ new.remoteRatchetPublic = pub
      /\ new.Ns = 0 /\ new.PN = st.Ns
  BY DEF advanceRatchet, IsRatchetState, r
<1>5. s.rootKey = Append(Append(st.rootKey, <<agree(st.localRatchet, pub)>>),
                         <<agree(key, pub)>>)
  BY DEF kdfRk, r
<1> HIDE DEF s, new
<1> QED
  BY <1>1, <1>2, <1>3, <1>4, <1>5 DEF Stepped, new

(* Whatever comes in, the sending half stays as it is or, under a new key  *)
(* of the other party, makes the two-phase step.                           *)
LEMMA DecryptSending ==
  ASSUME NEW st, NEW used, StateOK(st, used), NEW key \in Key,
         NEW msg, msg.Ns \in Nat, msg.PN \in Nat, msg.ratchetPublic \in Key
  PROVE  LET new == ratchetDecrypt(st, msg, key).st
         IN  SameRatchet(st, new) \/ Stepped(st, new, msg, key)
<1>1. IsRatchetState(st)
  BY DEF StateOK
<1>2. CASE cacheKey(msg) \in DOMAIN st.MKSKIPPED
  BY <1>1, <1>2 DEF ratchetDecrypt, decryptCached, IsRatchetState, SameRatchet
<1>3. CASE /\ cacheKey(msg) \notin DOMAIN st.MKSKIPPED
           /\ msg.ratchetPublic = st.remoteRatchetPublic
  BY <1>1, <1>3, OnChainSameRatchet DEF ratchetDecrypt
<1>4. CASE /\ cacheKey(msg) \notin DOMAIN st.MKSKIPPED
           /\ msg.ratchetPublic # st.remoteRatchetPublic
  <2> DEFINE skipped == skipMessageKeys(st, st.remoteRatchetPublic, msg.PN)
             advanced == advanceRatchet(skipped, msg.ratchetPublic, key)
  <2>1. ratchetDecrypt(st, msg, key) = decryptNewChain(st, msg, key)
    BY <1>4 DEF ratchetDecrypt
  <2>2. CASE skipRefused(st, msg.PN)
    BY <2>1, <2>2 DEF decryptNewChain, SameRatchet
  <2>3. CASE ~skipRefused(st, msg.PN)
    <3>1. StateOK(skipped, used) /\ SameRatchet(st, skipped)
      BY <1>1, <2>3, SkipOK, SkipSameRatchet
    <3> HIDE DEF skipped
    <3>2. IsRatchetState(skipped) /\ StateOK(advanced, used)
      BY <3>1, AdvanceRatchetOK DEF StateOK
    <3>3. Stepped(skipped, advanced, msg, key)
      BY <1>4, <3>1, <3>2, AdvanceSteps DEF SameRatchet
    <3>4. decryptNewChain(st, msg, key) = decryptOnChain(advanced, msg)
      BY <2>3 DEF decryptNewChain, skipped
    <3> HIDE DEF advanced
    <3>5. SameRatchet(advanced, decryptOnChain(advanced, msg).st)
      BY <3>2, OnChainSameRatchet DEF StateOK
    <3> QED
      BY <1>4, <2>1, <3>1, <3>3, <3>4, <3>5 DEF SameRatchet, Stepped
  <2> QED
    BY <2>2, <2>3
<1> QED
  BY <1>2, <1>3, <1>4

---------------------------------------------------------------------------
(* The two ends of a conversation in which nothing is handed over twice.   *)

(* What one party writes: its messages are numbered along their chains     *)
(* without a gap, a ratchet key names one chain, and a message key seals   *)
(* one message.                                                            *)
Letters(msgs) ==
  /\ \A m \in msgs :
       /\ m.ratchetPublic \in Key /\ m.Ns \in Nat /\ m.PN \in Nat
       /\ m.messageKey \in ChainKey /\ m.messageKey.step = m.Ns
       /\ \A n \in 0..(m.Ns - 1) : \E x \in msgs :
            x.ratchetPublic = m.ratchetPublic /\ x.Ns = n
  /\ \A m, x \in msgs :
       /\ m.ratchetPublic = x.ratchetPublic =>
            m.messageKey.id = x.messageKey.id
       /\ m.messageKey = x.messageKey => m = x

(* The writer's state is where its last message has left it.               *)
Sends(o, msgs) ==
  /\ o.Ns \in Nat
  /\ o.sendingChainKey = Null => o.Ns = 0
  /\ o.sendingChainKey # Null =>
       o.sendingChainKey = [id |-> o.rootKey, step |-> o.Ns]
  /\ \A m \in msgs : m.ratchetPublic = o.localRatchet =>
       m.messageKey.id = o.rootKey /\ m.PN = o.PN /\ m.Ns < o.Ns
  /\ \A n \in 0..(o.Ns - 1) : \E m \in msgs :
       m.ratchetPublic = o.localRatchet /\ m.Ns = n

(* The receiving chain is that of the messages under its ratchet key.      *)
ListensTo(st, msgs) ==
  \A m \in msgs : m.ratchetPublic = st.remoteRatchetPublic =>
    /\ st.receivingChainKey # Null
    /\ st.receivingChainKey.id = m.messageKey.id

(* A cached key is that of the message it is named for.                    *)
CacheNames(st, msgs) ==
  \A k \in DOMAIN st.MKSKIPPED : \E m \in msgs :
    cacheKey(m) = k /\ m.messageKey = st.MKSKIPPED[k]

(* The reader has, or will have, the key of m: in the cache, on its chain, *)
(* or on the chain after, which the writer o has begun.                    *)
Awaits(st, o, m) ==
  \/ cacheKey(m) \in DOMAIN st.MKSKIPPED
  \/ m.ratchetPublic = st.remoteRatchetPublic /\ m.Ns >= st.Nr
  \/ /\ m.ratchetPublic = o.localRatchet
     /\ m.ratchetPublic # st.remoteRatchetPublic

Hears(st, o, msgs, unheard) ==
  /\ ListensTo(st, msgs)
  /\ CacheNames(st, msgs)
  /\ \A m \in unheard : Awaits(st, o, m)

(* The reader is on the writer's present chain.                            *)
Follows(st, o) ==
  /\ st.remoteRatchetPublic = o.localRatchet
  /\ st.receivingChainKey # Null
  /\ st.receivingChainKey.id = o.rootKey
  /\ st.Nr \in 0..o.Ns

(* The writer is one step ahead of the reader, whose chain it has left     *)
(* after PN messages.                                                      *)
Ahead(o, st, msgs) ==
  /\ Follows(o, st)
  /\ o.localRatchet # st.remoteRatchetPublic
  /\ o.rootKey =
       Append(st.rootKey, <<agree(o.localRatchet, st.localRatchet)>>)
  /\ \A m \in msgs : m.ratchetPublic = st.remoteRatchetPublic => m.Ns < o.PN
  /\ \A n \in 0..(o.PN - 1) : \E m \in msgs :
       m.ratchetPublic = st.remoteRatchetPublic /\ m.Ns = n

(* A ratchet key and a number name one message.                            *)
LEMMA NamesOne ==
  ASSUME NEW msgs, Letters(msgs), NEW m \in msgs, NEW x \in msgs,
         m.ratchetPublic = x.ratchetPublic, m.Ns = x.Ns
  PROVE  m = x
<1>1. /\ m.messageKey \in ChainKey /\ x.messageKey \in ChainKey
      /\ m.messageKey.id = x.messageKey.id
      /\ m.messageKey.step = x.messageKey.step
  BY DEF Letters
<1>2. m.messageKey = x.messageKey
  BY <1>1 DEF ChainKey
<1> QED
  BY <1>2 DEF Letters

(* So does an entry of the cache.                                          *)
LEMMA CacheNamesOne ==
  ASSUME NEW msgs, Letters(msgs), NEW m \in msgs, NEW x \in msgs,
         cacheKey(m) = cacheKey(x)
  PROVE  m = x
BY NamesOne DEF cacheKey

(* Caching the keys up to n, of messages that were all written, leaves     *)
(* each under the name of its message.                                     *)
LEMMA SkipHears ==
  ASSUME NEW st, NEW used, StateOK(st, used), NEW n \in Nat,
         ~skipRefused(st, n), NEW msgs, Letters(msgs),
         ListensTo(st, msgs), CacheNames(st, msgs),
         \A i \in 0..(n - 1) : \E x \in msgs :
           x.ratchetPublic = st.remoteRatchetPublic /\ x.Ns = i
  PROVE  LET new == skipMessageKeys(st, st.remoteRatchetPublic, n)
         IN  /\ ListensTo(new, msgs) /\ CacheNames(new, msgs)
             /\ new.remoteRatchetPublic = st.remoteRatchetPublic
             /\ st.receivingChainKey # Null =>
                  /\ new.receivingChainKey # Null
                  /\ new.receivingChainKey.id = st.receivingChainKey.id
             /\ new.Nr = IF n > st.Nr THEN n ELSE st.Nr
             /\ DOMAIN st.MKSKIPPED \subseteq DOMAIN new.MKSKIPPED
             /\ \A i \in Nat : st.Nr <= i /\ i < n =>
                  <<st.remoteRatchetPublic, i>> \in DOMAIN new.MKSKIPPED
<1> DEFINE pub == st.remoteRatchetPublic
           rc == st.receivingChainKey
           names == {<<pub, i>> : i \in st.Nr .. (n - 1)}
           new == skipMessageKeys(st, pub, n)
           cache == new.MKSKIPPED
<1>1. IsRatchetState(st) /\ ChainsOK(st)
  BY DEF StateOK
<1>2. st.Nr \in Nat
  BY <1>1 DEF IsRatchetState
<1>3. CASE n <= st.Nr
  <2>1. names = {}
    BY <1>2, <1>3
  <2>2. new = st
    BY <2>1 DEF skipMessageKeys
  <2> QED
    BY <1>2, <1>3, <2>2
<1>4. CASE n > st.Nr
  <2>1. rc # Null
    BY <1>4 DEF skipRefused
  <2>2. rc \in ChainKey /\ rc.step = st.Nr
    BY <1>1, <2>1 DEF ChainsOK, IsChainOf
  <2>3. <<pub, st.Nr>> \in names
    BY <1>2, <1>4
  <2>4. /\ new.receivingChainKey =
             [rc EXCEPT !.step = rc.step + (n - st.Nr)]
        /\ new.remoteRatchetPublic = pub /\ new.Nr = n
        /\ cache =
             [k \in DOMAIN st.MKSKIPPED \cup names |->
                IF k \in names
                THEN [id |-> rc.id, step |-> rc.step + (k[2] - st.Nr)]
                ELSE st.MKSKIPPED[k]]
    BY <1>1, <2>3 DEF skipMessageKeys, IsRatchetState
  <2> HIDE DEF new
  <2>5. /\ new.receivingChainKey \in ChainKey
        /\ new.receivingChainKey.id = rc.id /\ new.receivingChainKey # Null
    BY <1>2, <1>4, <2>2, <2>4, NullAssumption DEF ChainKey
  <2>6. ListensTo(new, msgs)
    BY <2>1, <2>4, <2>5 DEF ListensTo
  <2>7. \A i \in Nat : st.Nr <= i /\ i < n => <<pub, i>> \in names
    BY <1>2
  <2>8. CacheNames(new, msgs)
    <3> SUFFICES ASSUME NEW k \in DOMAIN cache
                 PROVE  \E m \in msgs : cacheKey(m) = k /\ m.messageKey = cache[k]
      BY DEF CacheNames
    <3>1. CASE k \in names
      <4>1. PICK i \in st.Nr .. (n - 1) : k = <<pub, i>>
        BY <3>1
      <4>2. PICK m \in msgs : m.ratchetPublic = pub /\ m.Ns = i
        BY <1>2, <4>1
      <4>3. cacheKey(m) = k
        BY <4>1, <4>2 DEF cacheKey
      <4>4. cache[k] = [id |-> rc.id, step |-> st.Nr + (i - st.Nr)]
        BY <2>2, <2>4, <3>1, <4>1
      <4>5. st.Nr + (i - st.Nr) = i
        BY <1>2
      <4>6. /\ m.messageKey \in ChainKey
            /\ m.messageKey.id = rc.id /\ m.messageKey.step = i
        BY <4>2 DEF Letters, ListensTo
      <4>7. m.messageKey = cache[k]
        BY <4>4, <4>5, <4>6 DEF ChainKey
      <4> QED
        BY <4>3, <4>7
    <3>2. CASE k \notin names
      <4>1. k \in DOMAIN st.MKSKIPPED /\ cache[k] = st.MKSKIPPED[k]
        BY <2>4, <3>2
      <4> QED
        BY <4>1 DEF CacheNames
    <3> QED
      BY <3>1, <3>2
  <2>9. DOMAIN cache = DOMAIN st.MKSKIPPED \cup names
    BY <2>4
  <2> HIDE DEF names
  <2> QED
    BY <1>2, <1>4, <2>4, <2>5, <2>6, <2>7, <2>8, <2>9 DEF new
<1> QED
  BY <1>2, <1>3, <1>4

(* A message that is still due on the present chain opens, unless its gap  *)
(* is refused, which changes nothing.                                      *)
LEMMA OnChainHears ==
  ASSUME NEW st, NEW used, StateOK(st, used), NEW o,
         NEW msgs, Letters(msgs), NEW unheard \in SUBSET msgs,
         Hears(st, o, msgs, unheard), NEW m \in unheard,
         m.ratchetPublic = st.remoteRatchetPublic, m.Ns >= st.Nr
  PROVE  LET result == decryptOnChain(st, m)
         IN  /\ result.outcome \in {"opened", "refused"}
             /\ Hears(result.st, o, msgs, unheard \ {m})
             /\ result.st.receivingChainKey # Null
             /\ result.st.receivingChainKey.id = st.receivingChainKey.id
             /\ result.st.Nr \in {st.Nr, m.Ns + 1}
<1> DEFINE result == decryptOnChain(st, m)
           skipped == skipMessageKeys(st, st.remoteRatchetPublic, m.Ns)
           rc == skipped.receivingChainKey
           next == kdfCk(rc).chainKey
           new == [skipped EXCEPT !.receivingChainKey = next, !.Nr = @ + 1]
<1>1. /\ ListensTo(st, msgs) /\ CacheNames(st, msgs)
      /\ \A x \in unheard : Awaits(st, o, x)
  BY DEF Hears
<1>2. /\ m \in msgs /\ m.Ns \in Nat /\ m.messageKey \in ChainKey
      /\ m.messageKey.step = m.Ns
      /\ st.receivingChainKey # Null
      /\ st.receivingChainKey.id = m.messageKey.id
  BY <1>1 DEF Letters, ListensTo
<1>3. st.Nr \in Nat /\ IsRatchetState(st)
  BY DEF StateOK, IsRatchetState
<1>4. CASE skipRefused(st, m.Ns)
  <2>1. result.st = st /\ result.outcome = "refused"
    BY <1>4 DEF decryptOnChain
  <2> HIDE DEF result
  <2> QED
    BY <1>1, <1>2, <2>1 DEF Hears, result
<1>5. CASE ~skipRefused(st, m.Ns)
  <2>1. \A i \in 0..(m.Ns - 1) : \E x \in msgs :
           x.ratchetPublic = st.remoteRatchetPublic /\ x.Ns = i
    BY <1>2 DEF Letters
  <2>2. /\ ListensTo(skipped, msgs) /\ CacheNames(skipped, msgs)
        /\ skipped.remoteRatchetPublic = st.remoteRatchetPublic
        /\ rc # Null /\ rc.id = st.receivingChainKey.id
        /\ skipped.Nr = m.Ns
        /\ DOMAIN st.MKSKIPPED \subseteq DOMAIN skipped.MKSKIPPED
        /\ \A i \in Nat : st.Nr <= i /\ i < m.Ns =>
             <<st.remoteRatchetPublic, i>> \in DOMAIN skipped.MKSKIPPED
    BY <1>1, <1>2, <1>3, <1>5, <2>1, SkipHears
  <2>3. StateOK(skipped, used)
    BY <1>2, <1>5, SkipOK
  <2>4. result.st = new /\ result.outcome = gcmDecrypt(rc, m)
    BY <1>2, <1>5 DEF decryptOnChain, kdfCk
  <2> HIDE DEF skipped, result
  <2>5. rc \in ChainKey /\ rc.step = m.Ns /\ IsRatchetState(skipped)
    BY <2>2, <2>3 DEF StateOK, ChainsOK, IsChainOf
  <2>6. rc = m.messageKey
    BY <1>2, <2>2, <2>5 DEF ChainKey
  <2>7. next \in ChainKey /\ next.id = rc.id /\ next # Null
    BY <2>5, NullAssumption DEF kdfCk, ChainKey
  <2> HIDE DEF next
  <2>8. /\ new.receivingChainKey = next /\ new.Nr = m.Ns + 1
        /\ new.MKSKIPPED = skipped.MKSKIPPED
        /\ new.remoteRatchetPublic = st.remoteRatchetPublic
    BY <2>2, <2>5 DEF IsRatchetState
  <2> HIDE DEF new
  <2>9. ListensTo(new, msgs) /\ CacheNames(new, msgs)
    BY <2>2, <2>7, <2>8 DEF ListensTo, CacheNames
  <2>10. ASSUME NEW x \in unheard \ {m} PROVE Awaits(new, o, x)
    <3>1. Awaits(st, o, x) /\ x \in msgs /\ x.Ns \in Nat
      BY <1>1 DEF Letters
    <3>2. CASE cacheKey(x) \in DOMAIN st.MKSKIPPED
      BY <2>2, <2>8, <3>2 DEF Awaits
    <3>3. CASE x.ratchetPublic = st.remoteRatchetPublic /\ x.Ns >= st.Nr
      <4>1. x.Ns # m.Ns
        BY <1>2, <2>10, <3>1, <3>3, NamesOne
      <4>2. CASE x.Ns < m.Ns
        <5>1. cacheKey(x) \in DOMAIN new.MKSKIPPED
          BY <2>2, <2>8, <3>1, <3>3, <4>2 DEF cacheKey
        <5> QED
          BY <5>1 DEF Awaits
      <4>3. CASE x.Ns > m.Ns
        BY <1>2, <2>8, <3>1, <3>3, <4>3 DEF Awaits
      <4> QED
        BY <1>2, <3>1, <4>1, <4>2, <4>3
    <3>4. CASE /\ x.ratchetPublic = o.localRatchet
               /\ x.ratchetPublic # st.remoteRatchetPublic
      BY <2>8, <3>4 DEF Awaits
    <3> QED
      BY <3>1, <3>2, <3>3, <3>4 DEF Awaits
  <2>11. result.outcome = "opened"
    BY <2>4, <2>6 DEF gcmDecrypt
  <2> QED
    BY <2>2, <2>4, <2>7, <2>8, <2>9, <2>10, <2>11 DEF Hears, result
<1> QED
  BY <1>4, <1>5

(* A message of the chain that the writer, one step ahead, has begun: the  *)
(* reader catches up, after it has cached what is due on the old chain.    *)
LEMMA NewChainHears ==
  ASSUME NEW st, NEW used, StateOK(st, used), NEW o,
         NEW msgs, Letters(msgs), NEW unheard \in SUBSET msgs,
         Hears(st, o, msgs, unheard), NEW m \in unheard,
         Sends(o, msgs), Ahead(o, st, msgs), NEW key \in Key,
         m.ratchetPublic = o.localRatchet
  PROVE  LET result == decryptNewChain(st, m, key)
         IN  /\ result.outcome \in {"opened", "refused"}
             /\ Hears(result.st, o, msgs, unheard \ {m})
             /\ result.st = st \/ Follows(result.st, o)
<1> DEFINE result == decryptNewChain(st, m, key)
           pub == o.localRatchet
           skipped == skipMessageKeys(st, st.remoteRatchetPublic, m.PN)
           advanced == advanceRatchet(skipped, pub, key)
           r == kdfRk(st.rootKey, agree(st.localRatchet, pub))
<1>1. /\ ListensTo(st, msgs) /\ CacheNames(st, msgs)
      /\ \A x \in unheard : Awaits(st, o, x)
  BY DEF Hears
<1>2. /\ m \in msgs /\ m.PN = o.PN /\ m.PN \in Nat /\ m.Ns \in Nat
      /\ m.Ns < o.Ns /\ pub \in Key
  BY DEF Letters, Sends
<1>3. IsRatchetState(st) /\ st.Nr \in Nat
  BY DEF StateOK, IsRatchetState
<1>4. CASE skipRefused(st, m.PN)
  <2>1. result.st = st /\ result.outcome = "refused"
    BY <1>4 DEF decryptNewChain
  <2> HIDE DEF result
  <2> QED
    BY <1>1, <2>1 DEF Hears, result
<1>5. CASE ~skipRefused(st, m.PN)
  <2>1. \A i \in 0..(m.PN - 1) : \E x \in msgs :
           x.ratchetPublic = st.remoteRatchetPublic /\ x.Ns = i
    BY <1>2 DEF Ahead
  <2>2. /\ CacheNames(skipped, msgs)
        /\ DOMAIN st.MKSKIPPED \subseteq DOMAIN skipped.MKSKIPPED
        /\ \A i \in Nat : st.Nr <= i /\ i < m.PN =>
             <<st.remoteRatchetPublic, i>> \in DOMAIN skipped.MKSKIPPED
    BY <1>1, <1>2, <1>3, <1>5, <2>1, SkipHears
  <2>3. StateOK(skipped, used) /\ SameRatchet(st, skipped)
    BY <1>2, <1>3, <1>5, SkipOK, SkipSameRatchet
  <2>4. result = decryptOnChain(advanced, m)
    BY <1>5 DEF decryptNewChain
  <2> HIDE DEF skipped, result
  <2>5. /\ IsRatchetState(skipped)
        /\ StateOK(advanced, used)
        /\ skipped.rootKey = st.rootKey
        /\ skipped.localRatchet = st.localRatchet
    BY <1>2, <2>3, AdvanceRatchetOK DEF StateOK, SameRatchet
  <2>6. /\ advanced.receivingChainKey = r.chainKey
        /\ advanced.remoteRatchetPublic = pub
        /\ advanced.Nr = 0 /\ advanced.MKSKIPPED = skipped.MKSKIPPED
    BY <2>5 DEF advanceRatchet, IsRatchetState
  <2>7. /\ r.chainKey \in ChainKey /\ r.chainKey.id = r.rootKey
        /\ r.chainKey # Null
    <3>1. st.rootKey \in RootKey /\ st.localRatchet \in Key
      BY <1>3 DEF IsRatchetState
    <3>2. r.chainKey = [id |-> r.rootKey, step |-> 0] /\ r.chainKey \in ChainKey
      BY <1>2, <3>1, RootKeyGrows
    <3> HIDE DEF r
    <3> QED
      BY <3>2, NullAssumption
  <2>8. r.rootKey = o.rootKey
    BY DEF kdfRk, agree, Ahead
  <2> HIDE DEF advanced, r
  <2>9. ListensTo(advanced, msgs)
    BY <2>6, <2>7, <2>8 DEF ListensTo, Sends
  <2>10. CacheNames(advanced, msgs)
    BY <2>2, <2>6 DEF CacheNames
  <2>11. ASSUME NEW x \in unheard PROVE Awaits(advanced, o, x)
    <3>1. Awaits(st, o, x) /\ x \in msgs /\ x.Ns \in Nat
      BY <1>1 DEF Letters
    <3>2. CASE cacheKey(x) \in DOMAIN st.MKSKIPPED
      BY <2>2, <2>6, <3>2 DEF Awaits
    <3>3. CASE x.ratchetPublic = st.remoteRatchetPublic /\ x.Ns >= st.Nr
      <4>1. x.Ns < m.PN
        BY <1>2, <3>1, <3>3 DEF Ahead
      <4>2. cacheKey(x) \in DOMAIN advanced.MKSKIPPED
        BY <2>2, <2>6, <3>1, <3>3, <4>1 DEF cacheKey
      <4> QED
        BY <4>2 DEF Awaits
    <3>4. CASE x.ratchetPublic = pub
      BY <2>6, <3>1, <3>4 DEF Awaits
    <3> QED
      BY <3>1, <3>2, <3>3, <3>4 DEF Awaits
  <2>12. Hears(advanced, o, msgs, unheard)
    BY <2>9, <2>10, <2>11 DEF Hears
  <2>13. m.ratchetPublic = advanced.remoteRatchetPublic /\ m.Ns >= advanced.Nr
    BY <1>2, <2>6
  <2>14. /\ result.outcome \in {"opened", "refused"}
         /\ Hears(result.st, o, msgs, unheard \ {m})
         /\ result.st.receivingChainKey # Null
         /\ result.st.receivingChainKey.id = o.rootKey
         /\ result.st.Nr \in {0, m.Ns + 1}
    <3>1. /\ decryptOnChain(advanced, m).outcome \in {"opened", "refused"}
          /\ Hears(decryptOnChain(advanced, m).st, o, msgs, unheard \ {m})
          /\ decryptOnChain(advanced, m).st.receivingChainKey # Null
          /\ decryptOnChain(advanced, m).st.receivingChainKey.id
               = advanced.receivingChainKey.id
          /\ decryptOnChain(advanced, m).st.Nr \in {advanced.Nr, m.Ns + 1}
      BY <2>5, <2>12, <2>13, OnChainHears
    <3> QED
      BY <2>4, <2>6, <2>7, <2>8, <3>1
  <2>15. result.st.remoteRatchetPublic = pub
    BY <2>4, <2>5, <2>6, OnChainSameRatchet DEF StateOK, SameRatchet
  <2>16. result.st.Nr \in 0..o.Ns
    BY <1>2, <2>14 DEF Sends
  <2> QED
    BY <2>14, <2>15, <2>16 DEF Follows, result
<1> QED
  BY <1>4, <1>5

(* A message whose key was cached opens with it.                           *)
LEMMA CachedHears ==
  ASSUME NEW st, NEW used, StateOK(st, used), NEW o,
         NEW msgs, Letters(msgs), NEW unheard \in SUBSET msgs,
         Hears(st, o, msgs, unheard), NEW m \in unheard,
         cacheKey(m) \in DOMAIN st.MKSKIPPED
  PROVE  LET result == decryptCached(st, m)
         IN  /\ result.outcome = "opened"
             /\ Hears(result.st, o, msgs, unheard \ {m})
             /\ SameRatchet(st, result.st)
             /\ result.st.receivingChainKey = st.receivingChainKey
             /\ result.st.Nr = st.Nr
<1> DEFINE name == cacheKey(m)
           rest == [k \in DOMAIN st.MKSKIPPED \ {name} |-> st.MKSKIPPED[k]]
           new == [st EXCEPT !.MKSKIPPED = rest]
           result == decryptCached(st, m)
<1>1. /\ ListensTo(st, msgs) /\ CacheNames(st, msgs) /\ m \in msgs
      /\ \A x \in unheard : Awaits(st, o, x)
  BY DEF Hears
<1>2. IsRatchetState(st)
  BY DEF StateOK
<1>3. st.MKSKIPPED[name] = m.messageKey
  <2>1. PICK x \in msgs : /\ cacheKey(x) = name
                          /\ x.messageKey = st.MKSKIPPED[name]
    BY <1>1 DEF CacheNames
  <2> QED
    BY <1>1, <2>1, CacheNamesOne
<1>4. result.st = new /\ result.outcome = "opened"
  BY <1>3 DEF decryptCached, gcmDecrypt
<1>5. /\ DOMAIN rest = DOMAIN st.MKSKIPPED \ {name}
      /\ \A k \in DOMAIN rest : rest[k] = st.MKSKIPPED[k]
  OBVIOUS
<1> HIDE DEF rest, result
<1>6. /\ SameRatchet(st, new) /\ new.MKSKIPPED = rest
      /\ new.receivingChainKey = st.receivingChainKey /\ new.Nr = st.Nr
  BY <1>2 DEF IsRatchetState, SameRatchet
<1> HIDE DEF new
<1>7. ListensTo(new, msgs) /\ CacheNames(new, msgs)
  BY <1>1, <1>5, <1>6 DEF ListensTo, CacheNames, SameRatchet
<1>8. ASSUME NEW x \in unheard \ {m} PROVE Awaits(new, o, x)
  <2>1. Awaits(st, o, x) /\ cacheKey(x) # name
    BY <1>1, <1>8, CacheNamesOne
  <2> QED
    BY <1>5, <1>6, <2>1 DEF Awaits, SameRatchet
<1> QED
  BY <1>4, <1>6, <1>7, <1>8 DEF Hears, result

(* A message that comes for the first time is refused or opens, and the    *)
(* reader's state stays on the writer's chain or catches up with it.       *)
THEOREM DeliveryHears ==
  ASSUME NEW st, NEW used, StateOK(st, used), NEW o,
         NEW msgs, Letters(msgs), NEW unheard \in SUBSET msgs,
         Hears(st, o, msgs, unheard), NEW m \in unheard,
         Sends(o, msgs), Follows(st, o) \/ Ahead(o, st, msgs), NEW key \in Key
  PROVE  LET result == ratchetDecrypt(st, m, key)
         IN  /\ result.outcome \in {"opened", "refused"}
             /\ Hears(result.st, o, msgs, unheard \ {m})
             /\ \/ /\ SameRatchet(st, result.st)
                   /\ Follows(st, o) => Follows(result.st, o)
                \/ /\ Stepped(st, result.st, m, key)
                   /\ m.ratchetPublic = o.localRatchet
                   /\ Ahead(o, st, msgs) /\ Follows(result.st, o)
<1> DEFINE result == ratchetDecrypt(st, m, key)
<1>1. /\ m.ratchetPublic \in Key /\ m.Ns \in Nat /\ m.PN \in Nat
      /\ m \in msgs /\ Awaits(st, o, m) /\ IsRatchetState(st)
  BY DEF Letters, Hears, StateOK
<1>2. CASE cacheKey(m) \in DOMAIN st.MKSKIPPED
  <2>1. result = decryptCached(st, m)
    BY <1>2 DEF ratchetDecrypt
  <2>2. /\ result.outcome = "opened"
        /\ Hears(result.st, o, msgs, unheard \ {m})
        /\ SameRatchet(st, result.st)
        /\ result.st.receivingChainKey = st.receivingChainKey
        /\ result.st.Nr = st.Nr
    BY <1>2, <2>1, CachedHears
  <2> HIDE DEF result
  <2> QED
    BY <2>2 DEF result, Follows, SameRatchet
<1>3. CASE /\ cacheKey(m) \notin DOMAIN st.MKSKIPPED
           /\ m.ratchetPublic = st.remoteRatchetPublic
  <2>1. result = decryptOnChain(st, m)
    BY <1>3 DEF ratchetDecrypt
  <2>2. m.Ns >= st.Nr
    BY <1>1, <1>3 DEF Awaits
  <2>3. /\ result.outcome \in {"opened", "refused"}
        /\ Hears(result.st, o, msgs, unheard \ {m})
        /\ result.st.receivingChainKey # Null
        /\ result.st.receivingChainKey.id = st.receivingChainKey.id
        /\ result.st.Nr \in {st.Nr, m.Ns + 1}
    BY <1>3, <2>1, <2>2, OnChainHears
  <2>4. SameRatchet(st, result.st)
    BY <1>1, <2>1, OnChainSameRatchet
  <2> HIDE DEF result
  <2>5. ASSUME Follows(st, o) PROVE Follows(result.st, o)
    <3>1. m.Ns < o.Ns /\ o.Ns \in Nat
      BY <1>1, <1>3, <2>5 DEF Follows, Sends
    <3> QED
      BY <1>1, <2>3, <2>4, <2>5, <3>1 DEF Follows, SameRatchet
  <2> QED
    BY <2>3, <2>4, <2>5 DEF result
<1>4. CASE /\ cacheKey(m) \notin DOMAIN st.MKSKIPPED
           /\ m.ratchetPublic # st.remoteRatchetPublic
  <2>1. result = decryptNewChain(st, m, key)
    BY <1>4 DEF ratchetDecrypt
  <2>2. m.ratchetPublic = o.localRatchet
    BY <1>1, <1>4 DEF Awaits
  <2>3. Ahead(o, st, msgs)
    BY <1>4, <2>2 DEF Follows
  <2>4. /\ result.outcome \in {"opened", "refused"}
        /\ Hears(result.st, o, msgs, unheard \ {m})
        /\ result.st = st \/ Follows(result.st, o)
    BY <2>1, <2>2, <2>3, NewChainHears
  <2>5. SameRatchet(st, result.st) \/ Stepped(st, result.st, m, key)
    BY <1>1, DecryptSending
  <2> HIDE DEF result
  <2>6. CASE result.st = st
    BY <2>4, <2>6 DEF SameRatchet, result
  <2>7. CASE Follows(result.st, o)
    <3>1. Stepped(st, result.st, m, key)
      BY <1>4, <2>2, <2>5, <2>7 DEF Follows, SameRatchet
    <3> QED
      BY <2>2, <2>3, <2>4, <2>7, <3>1 DEF result
  <2> QED
    BY <2>4, <2>6, <2>7
<1> QED
  BY <1>2, <1>3, <1>4

(* What the other end hears does not depend on the receiving half.         *)
LEMMA HearsSame ==
  ASSUME NEW o, NEW st, NEW new, NEW mine, NEW due,
         SameRatchet(st, new), Hears(o, st, mine, due)
  PROVE  Hears(o, new, mine, due)
BY DEF Hears, Awaits, SameRatchet

(* A reader that catches up is the one that is ahead from then on, and the *)
(* other will hear of its new key.                                         *)
LEMMA StepAhead ==
  ASSUME NEW o, NEW st, NEW new, NEW m, NEW key, NEW msgs, NEW mine, NEW due,
         Ahead(o, st, msgs), Stepped(st, new, m, key),
         m.ratchetPublic = o.localRatchet, Follows(new, o),
         key # st.localRatchet, Sends(st, mine), Hears(o, st, mine, due)
  PROVE  Ahead(new, o, mine) /\ Hears(o, new, mine, due)
<1>1. /\ o.remoteRatchetPublic = st.localRatchet
      /\ o.rootKey =
           Append(st.rootKey, <<agree(o.localRatchet, st.localRatchet)>>)
  BY DEF Ahead, Follows
<1>2. /\ new.localRatchet = key
      /\ new.PN = st.Ns
      /\ new.rootKey =
           Append(Append(st.rootKey,
                         <<agree(st.localRatchet, o.localRatchet)>>),
                  <<agree(key, o.localRatchet)>>)
  BY DEF Stepped
<1>3. agree(st.localRatchet, o.localRatchet)
        = agree(o.localRatchet, st.localRatchet)
  BY DEF agree
<1>4. new.rootKey = Append(o.rootKey, <<agree(new.localRatchet, o.localRatchet)>>)
  BY <1>1, <1>2, <1>3
<1>5. /\ \A x \in mine : x.ratchetPublic = o.remoteRatchetPublic => x.Ns < new.PN
      /\ \A n \in 0..(new.PN - 1) : \E x \in mine :
           x.ratchetPublic = o.remoteRatchetPublic /\ x.Ns = n
  BY <1>1, <1>2 DEF Sends
<1>6. Ahead(new, o, mine)
  BY <1>1, <1>2, <1>4, <1>5 DEF Ahead
<1>7. Hears(o, new, mine, due)
  BY <1>1 DEF Hears, Awaits
<1> QED
  BY <1>6, <1>7

(* What came in leaves the writer's side of a state as it was, or, under a *)
(* new ratchet key, at the start of a chain.                               *)
LEMMA DeliverySends ==
  ASSUME NEW st, NEW new, NEW m, NEW key, NEW mine, Sends(st, mine),
         \/ SameRatchet(st, new)
         \/ Stepped(st, new, m, key) /\ \A x \in mine : x.ratchetPublic # key
  PROVE  Sends(new, mine)
<1>1. CASE SameRatchet(st, new)
  BY <1>1 DEF Sends, SameRatchet
<1>2. CASE Stepped(st, new, m, key) /\ \A x \in mine : x.ratchetPublic # key
  BY <1>2 DEF Sends, Stepped
<1> QED
  BY <1>1, <1>2

(* Two ends that both have sent: one is ahead, and each hears the other.   *)
InStep(st, o, mine, msgs, unheard, due) ==
  /\ Sends(st, mine) /\ Sends(o, msgs)
  /\ Hears(st, o, msgs, unheard) /\ Hears(o, st, mine, due)
  /\ Ahead(o, st, msgs) \/ Ahead(st, o, mine)

(* A first delivery keeps two ends in step.                                *)
THEOREM DeliveryInStep ==
  ASSUME NEW st, NEW used, StateOK(st, used), NEW o,
         NEW msgs, Letters(msgs), NEW mine, NEW due,
         NEW unheard \in SUBSET msgs, NEW m \in unheard,
         InStep(st, o, mine, msgs, unheard, due),
         NEW key \in Key, key # st.localRatchet,
         \A x \in mine : x.ratchetPublic # key
  PROVE  LET result == ratchetDecrypt(st, m, key)
         IN  /\ result.outcome \in {"opened", "refused"}
             /\ InStep(result.st, o, mine, msgs, unheard \ {m}, due)
             /\ SameRatchet(st, result.st) \/ Stepped(st, result.st, m, key)
             /\ Stepped(st, result.st, m, key) => Ahead(o, st, msgs)
<1> DEFINE result == ratchetDecrypt(st, m, key)
<1>1. /\ Sends(st, mine) /\ Sends(o, msgs)
      /\ Hears(st, o, msgs, unheard) /\ Hears(o, st, mine, due)
      /\ Ahead(o, st, msgs) \/ Ahead(st, o, mine)
  BY DEF InStep
<1>2. Follows(st, o) \/ Ahead(o, st, msgs)
  BY <1>1 DEF Ahead
<1>3. /\ result.outcome \in {"opened", "refused"}
      /\ Hears(result.st, o, msgs, unheard \ {m})
      /\ \/ /\ SameRatchet(st, result.st)
            /\ Follows(st, o) => Follows(result.st, o)
         \/ /\ Stepped(st, result.st, m, key)
            /\ m.ratchetPublic = o.localRatchet
            /\ Ahead(o, st, msgs) /\ Follows(result.st, o)
  BY <1>1, <1>2, DeliveryHears
<1> HIDE DEF result
<1>4. CASE /\ SameRatchet(st, result.st)
           /\ Follows(st, o) => Follows(result.st, o)
  <2>1. Sends(result.st, mine) /\ Hears(o, result.st, mine, due)
    BY <1>1, <1>4, DeliverySends, HearsSame
  <2>2. Ahead(o, result.st, msgs) \/ Ahead(result.st, o, mine)
    BY <1>1, <1>4 DEF Ahead, Follows, SameRatchet
  <2>3. Stepped(st, result.st, m, key) => FALSE
    BY <1>4 DEF SameRatchet, Stepped
  <2> QED
    BY <1>1, <1>3, <1>4, <2>1, <2>2, <2>3 DEF InStep, result
<1>5. CASE /\ Stepped(st, result.st, m, key)
           /\ m.ratchetPublic = o.localRatchet
           /\ Ahead(o, st, msgs) /\ Follows(result.st, o)
  <2>1. Sends(result.st, mine)
    BY <1>1, <1>5, DeliverySends
  <2>2. Ahead(result.st, o, mine) /\ Hears(o, result.st, mine, due)
    BY <1>1, <1>5, StepAhead
  <2> QED
    BY <1>1, <1>3, <1>5, <2>1, <2>2 DEF InStep, result
<1> QED
  BY <1>3, <1>4, <1>5

---------------------------------------------------------------------------
(* Writing, between the same two ends.                                     *)

(* The message that ratchetEncrypt makes under o.                          *)
IsNext(o, m) ==
  /\ m.ratchetPublic = o.localRatchet /\ m.Ns = o.Ns /\ m.PN = o.PN
  /\ m.messageKey = o.sendingChainKey

(* Sending moves a state along its chain.                                  *)
LEMMA EncryptSending ==
  ASSUME NEW st, IsRatchetState(st), st.sendingChainKey # Null
  PROVE  LET enc == ratchetEncrypt(st)
         IN  /\ enc.messageKey = st.sendingChainKey
             /\ enc.header.ratchetPublic = st.localRatchet
             /\ enc.st.localRatchet = st.localRatchet
             /\ enc.st.rootKey = st.rootKey
             /\ enc.st.remoteRatchetPublic = st.remoteRatchetPublic
             /\ enc.st.sendingChainKey # Null
             /\ enc.st.sendingChainKey.id = st.sendingChainKey.id
<1> DEFINE next == [st.sendingChainKey EXCEPT !.step = @ + 1]
<1>1. next \in ChainKey /\ next.id = st.sendingChainKey.id
  BY DEF IsRatchetState, ChainKey
<1>2. next # Null
  BY <1>1, NullAssumption
<1>3. /\ ratchetEncrypt(st).messageKey = st.sendingChainKey
      /\ ratchetEncrypt(st).st =
           [st EXCEPT !.sendingChainKey = next, !.Ns = st.Ns + 1]
      /\ ratchetEncrypt(st).header.ratchetPublic = st.localRatchet
  BY DEF ratchetEncrypt, kdfCk
<1> HIDE DEF next
<1> QED
  BY <1>1, <1>2, <1>3 DEF IsRatchetState

(* A new message joins those before it on its chain.                       *)
LEMMA PostLetters ==
  ASSUME NEW o, IsRatchetState(o), o.sendingChainKey # Null,
         NEW msgs, Letters(msgs), Sends(o, msgs),
         NEW m, IsNext(o, m), \A x \in msgs : x.messageKey # m.messageKey
  PROVE  Letters(msgs \cup {m})
<1> DEFINE all == msgs \cup {m}
<1>1. /\ m.ratchetPublic \in Key /\ m.Ns \in Nat /\ m.PN \in Nat
      /\ m.messageKey \in ChainKey
      /\ m.messageKey = [id |-> o.rootKey, step |-> o.Ns] /\ m.Ns = o.Ns
  BY DEF IsRatchetState, IsNext, Sends
<1>2. m.messageKey.step = m.Ns /\ m.messageKey.id = o.rootKey
  BY <1>1
<1>3. \A n \in 0..(m.Ns - 1) : \E x \in all :
         x.ratchetPublic = m.ratchetPublic /\ x.Ns = n
  BY <1>1 DEF Sends, IsNext
<1>4. \A x \in msgs : x.ratchetPublic = m.ratchetPublic =>
         x.messageKey.id = m.messageKey.id
  BY <1>2 DEF Sends, IsNext
<1>5. \A x \in all :
       /\ x.ratchetPublic \in Key /\ x.Ns \in Nat /\ x.PN \in Nat
       /\ x.messageKey \in ChainKey /\ x.messageKey.step = x.Ns
       /\ \A n \in 0..(x.Ns - 1) : \E y \in all :
            y.ratchetPublic = x.ratchetPublic /\ y.Ns = n
  BY <1>1, <1>2, <1>3 DEF Letters
<1>6. \A x, y \in all :
       /\ x.ratchetPublic = y.ratchetPublic =>
            x.messageKey.id = y.messageKey.id
       /\ x.messageKey = y.messageKey => x = y
  BY <1>4 DEF Letters
<1> QED
  BY <1>5, <1>6 DEF Letters

(* The state after it is where the message has left it.                    *)
LEMMA PostSends ==
  ASSUME NEW o, IsRatchetState(o), o.sendingChainKey # Null,
         NEW msgs, Letters(msgs), Sends(o, msgs), NEW m, IsNext(o, m)
  PROVE  LET new == ratchetEncrypt(o).st
         IN  /\ Sends(new, msgs \cup {m})
             /\ new.Ns = o.Ns + 1 /\ new.PN = o.PN
             /\ new.MKSKIPPED = o.MKSKIPPED /\ new.Nr = o.Nr
             /\ new.receivingChainKey = o.receivingChainKey
<1> DEFINE next == [o.sendingChainKey EXCEPT !.step = @ + 1]
           new == ratchetEncrypt(o).st
<1>1. /\ o.sendingChainKey = [id |-> o.rootKey, step |-> o.Ns]
      /\ o.Ns \in Nat /\ o.sendingChainKey \in ChainKey
  BY DEF Sends, IsRatchetState
<1>2. next = [id |-> o.rootKey, step |-> o.Ns + 1]
  BY <1>1
<1>3. /\ new.rootKey = o.rootKey /\ new.localRatchet = o.localRatchet
      /\ new.sendingChainKey # Null
  BY EncryptSending
<1>4. /\ new.sendingChainKey = next /\ new.Ns = o.Ns + 1 /\ new.PN = o.PN
      /\ new.MKSKIPPED = o.MKSKIPPED /\ new.Nr = o.Nr
      /\ new.receivingChainKey = o.receivingChainKey
  BY DEF ratchetEncrypt, kdfCk, IsRatchetState
<1> HIDE DEF next, new
<1>5. /\ new.Ns \in Nat
      /\ new.sendingChainKey = [id |-> new.rootKey, step |-> new.Ns]
  BY <1>1, <1>2, <1>3, <1>4
<1>6. m.messageKey.id = o.rootKey
  BY <1>1 DEF IsNext
<1>7. \A x \in msgs \cup {m} : x.ratchetPublic = new.localRatchet =>
         x.messageKey.id = new.rootKey /\ x.PN = new.PN /\ x.Ns < new.Ns
  <2> SUFFICES ASSUME NEW x \in msgs \cup {m},
                      x.ratchetPublic = new.localRatchet
               PROVE  /\ x.messageKey.id = new.rootKey
                      /\ x.PN = new.PN /\ x.Ns < new.Ns
    OBVIOUS
  <2>1. CASE x = m
    BY <1>1, <1>3, <1>4, <1>6, <2>1 DEF IsNext
  <2>2. CASE x \in msgs
    <3>1. x.messageKey.id = o.rootKey /\ x.PN = o.PN /\ x.Ns < o.Ns
      BY <1>3, <2>2 DEF Sends
    <3>2. x.Ns \in Nat
      BY <2>2 DEF Letters
    <3> QED
      BY <1>1, <1>3, <1>4, <3>1, <3>2
  <2> QED
    BY <2>1, <2>2
<1>8. \A n \in 0..(new.Ns - 1) : \E x \in msgs \cup {m} :
         x.ratchetPublic = new.localRatchet /\ x.Ns = n
  <2> SUFFICES ASSUME NEW n \in 0..(new.Ns - 1)
               PROVE  \E x \in msgs \cup {m} :
                        x.ratchetPublic = new.localRatchet /\ x.Ns = n
    OBVIOUS
  <2>1. CASE n = o.Ns
    BY <1>3, <2>1 DEF IsNext
  <2>2. CASE n # o.Ns
    <3>1. n \in 0..(o.Ns - 1)
      BY <1>1, <1>4, <2>2
    <3> QED
      BY <1>3, <3>1 DEF Sends
  <2> QED
    BY <2>1, <2>2
<1>9. new.sendingChainKey # Null
  BY <1>3
<1>10. Sends(new, msgs \cup {m})
  BY <1>5, <1>7, <1>8, <1>9 DEF Sends
<1> QED
  BY <1>4, <1>10 DEF new

(* The reader, on the writer's chain or one behind, will hear of it.       *)
LEMMA PostHears ==
  ASSUME NEW o, IsRatchetState(o), o.sendingChainKey # Null,
         NEW msgs, Letters(msgs), Sends(o, msgs), NEW m, IsNext(o, m),
         NEW st, NEW unheard, Hears(st, o, msgs, unheard),
         Follows(st, o) \/ Ahead(o, st, msgs)
  PROVE  LET new == ratchetEncrypt(o).st
             all == msgs \cup {m}
         IN  /\ Hears(st, new, all, unheard \cup {m})
             /\ Follows(st, o) => Follows(st, new)
             /\ Ahead(o, st, msgs) => Ahead(new, st, all)
<1> DEFINE new == ratchetEncrypt(o).st
           all == msgs \cup {m}
<1>1. /\ new.Ns = o.Ns + 1 /\ new.PN = o.PN /\ new.Nr = o.Nr
      /\ new.receivingChainKey = o.receivingChainKey
  BY PostSends
<1>2. /\ new.rootKey = o.rootKey /\ new.localRatchet = o.localRatchet
      /\ new.remoteRatchetPublic = o.remoteRatchetPublic
  BY EncryptSending
<1>3. /\ o.Ns \in Nat /\ m.Ns = o.Ns /\ m.ratchetPublic = o.localRatchet
      /\ m.messageKey.id = o.rootKey
  BY DEF Sends, IsNext
<1> HIDE DEF new
<1>4. ASSUME Follows(st, o) PROVE Follows(st, new) /\ st.Nr <= m.Ns
  <2>1. st.Nr \in 0..o.Ns
    BY <1>4 DEF Follows
  <2> QED
    BY <1>1, <1>2, <1>3, <1>4, <2>1 DEF Follows
<1>5. ASSUME Ahead(o, st, msgs) PROVE Ahead(new, st, all)
  <2>1. Follows(new, st)
    BY <1>1, <1>2, <1>5 DEF Ahead, Follows
  <2>2. \A x \in all : x.ratchetPublic = st.remoteRatchetPublic => x.Ns < new.PN
    BY <1>1, <1>3, <1>5 DEF Ahead
  <2>3. \A n \in 0..(new.PN - 1) : \E x \in all :
           x.ratchetPublic = st.remoteRatchetPublic /\ x.Ns = n
    BY <1>1, <1>5 DEF Ahead
  <2> QED
    BY <1>2, <1>5, <2>1, <2>2, <2>3 DEF Ahead
<1>6. ListensTo(st, all)
  BY <1>3 DEF Hears, ListensTo, Follows, Ahead
<1>7. CacheNames(st, all)
  BY DEF Hears, CacheNames
<1>8. Awaits(st, new, m)
  <2>1. CASE Follows(st, o)
    BY <1>3, <1>4, <2>1 DEF Awaits, Follows
  <2>2. CASE Ahead(o, st, msgs)
    BY <1>2, <1>3, <2>2 DEF Awaits, Ahead
  <2> QED
    BY <2>1, <2>2
<1>9. \A x \in unheard : Awaits(st, new, x)
  BY <1>2 DEF Hears, Awaits
<1> QED
  BY <1>4, <1>5, <1>6, <1>7, <1>8, <1>9 DEF Hears, new

(* What the writer hears is not changed by its writing.                    *)
LEMMA PostHearing ==
  ASSUME NEW o, IsRatchetState(o), o.sendingChainKey # Null,
         NEW msgs, Letters(msgs), Sends(o, msgs), NEW m, IsNext(o, m),
         NEW st, NEW mine, NEW due
  PROVE  LET new == ratchetEncrypt(o).st
         IN  /\ Hears(o, st, mine, due) => Hears(new, st, mine, due)
             /\ Follows(o, st) => Follows(new, st)
             /\ Ahead(st, o, mine) => Ahead(st, new, mine)
<1> DEFINE new == ratchetEncrypt(o).st
<1>1. /\ new.MKSKIPPED = o.MKSKIPPED /\ new.Nr = o.Nr
      /\ new.receivingChainKey = o.receivingChainKey /\ new.Ns = o.Ns + 1
      /\ o.Ns \in Nat
  BY PostSends DEF Sends
<1>2. /\ new.rootKey = o.rootKey /\ new.localRatchet = o.localRatchet
      /\ new.remoteRatchetPublic = o.remoteRatchetPublic
  BY EncryptSending
<1> HIDE DEF new
<1>3. Hears(o, st, mine, due) => Hears(new, st, mine, due)
  BY <1>1, <1>2 DEF Hears, ListensTo, CacheNames, Awaits
<1>4. Follows(o, st) => Follows(new, st)
  BY <1>1, <1>2 DEF Follows
<1>5. Follows(st, o) => Follows(st, new)
  BY <1>1, <1>2 DEF Follows
<1>6. Ahead(st, o, mine) => Ahead(st, new, mine)
  BY <1>1, <1>2, <1>5 DEF Ahead
<1> QED
  BY <1>3, <1>4, <1>6 DEF new

(* A post keeps two ends in step.                                          *)
THEOREM PostInStep ==
  ASSUME NEW o, IsRatchetState(o), o.sendingChainKey # Null,
         NEW st, NEW msgs, Letters(msgs), NEW mine, NEW unheard, NEW due,
         InStep(st, o, mine, msgs, unheard, due), NEW m, IsNext(o, m)
  PROVE  InStep(st, ratchetEncrypt(o).st, mine, msgs \cup {m},
                unheard \cup {m}, due)
<1> DEFINE new == ratchetEncrypt(o).st
           all == msgs \cup {m}
<1>1. /\ Sends(st, mine) /\ Sends(o, msgs)
      /\ Hears(st, o, msgs, unheard) /\ Hears(o, st, mine, due)
      /\ Ahead(o, st, msgs) \/ Ahead(st, o, mine)
  BY DEF InStep
<1>2. Follows(st, o) \/ Ahead(o, st, msgs)
  BY <1>1 DEF Ahead
<1>3. Sends(new, all)
  BY <1>1, PostSends
<1>4. /\ Hears(st, new, all, unheard \cup {m})
      /\ Ahead(o, st, msgs) => Ahead(new, st, all)
  BY <1>1, <1>2, PostHears
<1>5. /\ Hears(new, st, mine, due)
      /\ Ahead(st, o, mine) => Ahead(st, new, mine)
  BY <1>1, PostHearing
<1> HIDE DEF new, all
<1> QED
  BY <1>1, <1>3, <1>4, <1>5 DEF InStep, new, all
=============================================================================
