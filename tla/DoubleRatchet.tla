--------------------------- MODULE DoubleRatchet ---------------------------
(***************************************************************************)
(* X3DH and the Double Ratchet as client/user_creation/session.js computes *)
(* them, over symbolic keys.                                               *)
(*                                                                         *)
(* A key pair is one value k: its private and its public half are told     *)
(* apart by who uses them.  agree(a, b) is the shared secret of the pairs  *)
(* a and b, the same from either side.  HKDF and HMAC are injective: a     *)
(* root key is the sequence of the Diffie-Hellman outputs mixed into it,   *)
(* the chain that kdfRk returns beside it is named by that root key, and   *)
(* the n-th key of a chain is [id, step |-> n].  One HMAC call derives the *)
(* n-th message key and another the (n+1)-st chain key, so whoever holds   *)
(* the chain key at step s can compute the message keys from s on and none *)
(* before.  Ciphertexts, nonces and signatures are carried by the message  *)
(* key alone.                                                              *)
(*                                                                         *)
(* An operator under the heading Fault is the one after it with a single   *)
(* mistake in it; the properties must notice it, and nothing uses it.      *)
(***************************************************************************)
EXTENDS Integers, Sequences

CONSTANTS
  Alice, Bob,  \* the ends of a conversation
  MAX_SKIP,    \* session.js: the limit on one run of skipMessageKeys
  Null         \* JavaScript's null

ASSUME PartiesAssumption == Alice # Bob
ASSUME MaxSkipAssumption == MAX_SKIP \in Nat

Parties == {Alice, Bob}

(* The n-th key pair that a party makes is <<party, n>>.                   *)
Key == Parties \X Nat

---------------------------------------------------------------------------
(* The key derivation functions.                                           *)

agree(a, b) == {a, b}

(* The new root key and the key at the head of the chain it comes with.    *)
kdfRk(rootKey, dhOutput) ==
  LET derived == Append(rootKey, <<dhOutput>>)
  IN  [rootKey |-> derived, chainKey |-> [id |-> derived, step |-> 0]]

kdfCk(chainKey) ==
  [messageKey |-> chainKey, chainKey |-> [chainKey EXCEPT !.step = @ + 1]]

---------------------------------------------------------------------------
(* X3DH.  Keys and bundles are records [ikDh, spk, opk].                   *)

x3dhSend(initiatorKeys, ephPrivate, responderBundle) ==
  LET dh1 == agree(initiatorKeys.ikDh, responderBundle.spk)
      dh2 == agree(ephPrivate, responderBundle.ikDh)
      dh3 == agree(ephPrivate, responderBundle.spk)
  IN  << IF responderBundle.opk = Null
         THEN <<dh1, dh2, dh3>>
         ELSE <<dh1, dh2, dh3, agree(ephPrivate, responderBundle.opk)>> >>

(* x3dh is the part of the header only a first message has: [eph, ikDh,    *)
(* opkId].  opkPrivates maps the ids of the one-time keys to the keys.     *)
x3dhReceive(responderKeys, opkPrivates, x3dh) ==
  LET dh1 == agree(responderKeys.spk, x3dh.ikDh)
      dh2 == agree(responderKeys.ikDh, x3dh.eph)
      dh3 == agree(responderKeys.spk, x3dh.eph)
  IN  << IF x3dh.opkId = Null
         THEN <<dh1, dh2, dh3>>
         ELSE <<dh1, dh2, dh3, agree(opkPrivates[x3dh.opkId], x3dh.eph)>> >>

---------------------------------------------------------------------------
(* The ratchet state, with the source's field names; localRatchet is       *)
(* localRatchetPrivate and localRatchetPublic.                             *)

NoKeys == [k \in {} |-> Null]

initRatchet(rootKey, responderSpkPublic, ratchetPrivate) ==
  LET derived == kdfRk(rootKey, agree(ratchetPrivate, responderSpkPublic))
  IN  [rootKey |-> derived.rootKey,
       sendingChainKey |-> derived.chainKey, receivingChainKey |-> Null,
       localRatchet |-> ratchetPrivate,
       remoteRatchetPublic |-> responderSpkPublic,
       Ns |-> 0, Nr |-> 0, PN |-> 0, MKSKIPPED |-> NoKeys]

(* Fault: PN is left out of the state.                                     *)
receiverWithoutPN(rootKey, header, spkPrivate) ==
  LET derived == kdfRk(rootKey, agree(spkPrivate, header.ratchetPublic))
  IN  [rootKey |-> derived.rootKey,
       sendingChainKey |-> Null, receivingChainKey |-> derived.chainKey,
       localRatchet |-> spkPrivate,
       remoteRatchetPublic |-> header.ratchetPublic,
       Ns |-> 0, Nr |-> 0, PN |-> Null, MKSKIPPED |-> NoKeys]

initRatchetReceiver(rootKey, header, spkPrivate) ==
  LET derived == kdfRk(rootKey, agree(spkPrivate, header.ratchetPublic))
  IN  [rootKey |-> derived.rootKey,
       sendingChainKey |-> Null, receivingChainKey |-> derived.chainKey,
       localRatchet |-> spkPrivate,
       remoteRatchetPublic |-> header.ratchetPublic,
       Ns |-> 0, Nr |-> 0, PN |-> 0, MKSKIPPED |-> NoKeys]

(* Phase 2 alone: the responder's first reply.                             *)
dhRatchetStep(st, newRatchetPrivate) ==
  LET derived == kdfRk(st.rootKey,
                       agree(newRatchetPrivate, st.remoteRatchetPublic))
  IN  [st EXCEPT !.PN = st.Ns, !.Ns = 0,
                 !.rootKey = derived.rootKey,
                 !.sendingChainKey = derived.chainKey,
                 !.localRatchet = newRatchetPrivate]

(* Fault: Ns is reset before PN takes it.                                  *)
advanceLosingPN(st, newRemoteRatchetPublic, newRatchetPrivate) ==
  LET receiving == kdfRk(st.rootKey,
                         agree(st.localRatchet, newRemoteRatchetPublic))
      sending == kdfRk(receiving.rootKey,
                       agree(newRatchetPrivate, newRemoteRatchetPublic))
  IN  [st EXCEPT !.rootKey = sending.rootKey,
                 !.receivingChainKey = receiving.chainKey,
                 !.remoteRatchetPublic = newRemoteRatchetPublic,
                 !.Nr = 0, !.PN = 0, !.Ns = 0,
                 !.sendingChainKey = sending.chainKey,
                 !.localRatchet = newRatchetPrivate]

(* Fault: phase 2 agrees with the old private key.                         *)
advanceOnOldKey(st, newRemoteRatchetPublic, newRatchetPrivate) ==
  LET shared == agree(st.localRatchet, newRemoteRatchetPublic)
      receiving == kdfRk(st.rootKey, shared)
      sending == kdfRk(receiving.rootKey, shared)
  IN  [st EXCEPT !.rootKey = sending.rootKey,
                 !.receivingChainKey = receiving.chainKey,
                 !.remoteRatchetPublic = newRemoteRatchetPublic,
                 !.Nr = 0, !.PN = st.Ns, !.Ns = 0,
                 !.sendingChainKey = sending.chainKey,
                 !.localRatchet = newRatchetPrivate]

(* Both phases: a message with a new remote ratchet key.                   *)
advanceRatchet(st, newRemoteRatchetPublic, newRatchetPrivate) ==
  LET receiving == kdfRk(st.rootKey,
                         agree(st.localRatchet, newRemoteRatchetPublic))
      sending == kdfRk(receiving.rootKey,
                       agree(newRatchetPrivate, newRemoteRatchetPublic))
  IN  [st EXCEPT !.rootKey = sending.rootKey,
                 !.receivingChainKey = receiving.chainKey,
                 !.remoteRatchetPublic = newRemoteRatchetPublic,
                 !.Nr = 0, !.PN = st.Ns, !.Ns = 0,
                 !.sendingChainKey = sending.chainKey,
                 !.localRatchet = newRatchetPrivate]

---------------------------------------------------------------------------
(* Sending.                                                                *)

(* Fault: the new chain key is not kept.                                   *)
encryptKeepingChain(st) ==
  [st |-> [st EXCEPT !.Ns = @ + 1],
   header |-> [ratchetPublic |-> st.localRatchet, Ns |-> st.Ns, PN |-> st.PN],
   messageKey |-> kdfCk(st.sendingChainKey).messageKey]

ratchetEncrypt(st) ==
  LET next == kdfCk(st.sendingChainKey)
  IN  [st |-> [st EXCEPT !.sendingChainKey = next.chainKey, !.Ns = @ + 1],
       header |-> [ratchetPublic |-> st.localRatchet,
                   Ns |-> st.Ns, PN |-> st.PN],
       messageKey |-> next.messageKey]

---------------------------------------------------------------------------
(* Receiving.                                                              *)

(* skipMessageKeys throws before it changes anything: on too large a gap,  *)
(* or in kdfCk(null) when there is no receiving chain to advance.          *)
skipRefused(st, upToNr) ==
  \/ upToNr > st.Nr + MAX_SKIP
  \/ upToNr > st.Nr /\ st.receivingChainKey = Null

(* The loop of skipMessageKeys in one step: it caches the keys of the      *)
(* messages Nr .. upToNr - 1, over older entries of the same name.         *)
skipMessageKeys(st, ratchetPublic, upToNr) ==
  LET names == {<<ratchetPublic, n>> : n \in st.Nr .. (upToNr - 1)}
      step(n) == st.receivingChainKey.step + (n - st.Nr)
  IN  IF names = {} THEN st
      ELSE [st EXCEPT
             !.receivingChainKey = [@ EXCEPT !.step = step(upToNr)],
             !.Nr = upToNr,
             !.MKSKIPPED =
               [k \in DOMAIN @ \cup names |->
                  IF k \in names
                  THEN [id |-> st.receivingChainKey.id, step |-> step(k[2])]
                  ELSE @[k]]]

(* AES-GCM opens a ciphertext under the key it was sealed with and throws  *)
(* under any other.                                                        *)
gcmDecrypt(messageKey, msg) ==
  IF messageKey = msg.messageKey THEN "opened" ELSE "failed"

cacheKey(msg) == <<msg.ratchetPublic, msg.Ns>>

(* Fault: the entry is not deleted.                                        *)
decryptKeepingEntry(st, msg) ==
  [st |-> st, outcome |-> gcmDecrypt(st.MKSKIPPED[cacheKey(msg)], msg)]

(* 1. The key was cached: the entry goes before the ciphertext is tried.   *)
decryptCached(st, msg) ==
  LET others == DOMAIN st.MKSKIPPED \ {cacheKey(msg)}
  IN  [st |-> [st EXCEPT !.MKSKIPPED = [k \in others |-> @[k]]],
       outcome |-> gcmDecrypt(st.MKSKIPPED[cacheKey(msg)], msg)]

(* Fault: the new chain key is not kept, only the counter.                 *)
decryptKeepingChain(st, msg) ==
  IF skipRefused(st, msg.Ns) \/ st.receivingChainKey = Null
  THEN [st |-> st, outcome |-> "refused"]
  ELSE LET skipped == skipMessageKeys(st, msg.ratchetPublic, msg.Ns)
       IN  [st |-> [skipped EXCEPT !.Nr = @ + 1],
            outcome |-> gcmDecrypt(skipped.receivingChainKey, msg)]

(* 3 and 4. The key is the next of the receiving chain once the gap is     *)
(* skipped.  The chain moves on before the ciphertext is tried.            *)
decryptOnChain(st, msg) ==
  IF skipRefused(st, msg.Ns) \/ st.receivingChainKey = Null
  THEN [st |-> st, outcome |-> "refused"]
  ELSE LET skipped == skipMessageKeys(st, msg.ratchetPublic, msg.Ns)
           next == kdfCk(skipped.receivingChainKey)
       IN  [st |-> [skipped EXCEPT !.receivingChainKey = next.chainKey,
                                   !.Nr = @ + 1],
            outcome |-> gcmDecrypt(next.messageKey, msg)]

(* 2, then 3 and 4: the rest of the old chain is cached up to PN, and the  *)
(* state keeps the new chains even when what follows throws.               *)
decryptNewChain(st, msg, newRatchetPrivate) ==
  IF skipRefused(st, msg.PN)
  THEN [st |-> st, outcome |-> "refused"]
  ELSE decryptOnChain(
         advanceRatchet(skipMessageKeys(st, st.remoteRatchetPublic, msg.PN),
                        msg.ratchetPublic, newRatchetPrivate),
         msg)

ratchetDecrypt(st, msg, newRatchetPrivate) ==
  CASE cacheKey(msg) \in DOMAIN st.MKSKIPPED -> decryptCached(st, msg)
    [] cacheKey(msg) \notin DOMAIN st.MKSKIPPED
       /\ msg.ratchetPublic = st.remoteRatchetPublic -> decryptOnChain(st, msg)
    [] OTHER -> decryptNewChain(st, msg, newRatchetPrivate)

(* The keys a holder of the state can still compute.                       *)
Derivable(st, mk) ==
  \/ \E k \in DOMAIN st.MKSKIPPED : st.MKSKIPPED[k] = mk
  \/ \E ck \in {st.receivingChainKey, st.sendingChainKey} \ {Null} :
       ck.id = mk.id /\ ck.step <= mk.step

---------------------------------------------------------------------------
(* Types.                                                                  *)

RootKey == Seq(Seq(SUBSET Key))
ChainKey == [id : RootKey, step : Nat]

ASSUME NullAssumption == Null \notin ChainKey

IsKeyCache(cache) ==
  /\ DOMAIN cache \subseteq Key \X Nat
  /\ cache \in [DOMAIN cache -> ChainKey]

IsRatchetState(st) ==
  /\ st \in [rootKey : RootKey,
            sendingChainKey : ChainKey \cup {Null},
            receivingChainKey : ChainKey \cup {Null},
            localRatchet : Key, remoteRatchetPublic : Key,
            Ns : Nat, Nr : Nat, PN : Nat,
            MKSKIPPED : {st.MKSKIPPED}]
  /\ IsKeyCache(st.MKSKIPPED)
============================================================================
