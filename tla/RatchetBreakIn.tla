--------------------------- MODULE RatchetBreakIn ---------------------------
(***************************************************************************)
(* RatchetPair with one copy of a ratchet state taken at any moment, as    *)
(* from the session file of sessionStore.js once its key is known: what    *)
(* the Double Ratchet's new key pairs are for.                             *)
(***************************************************************************)
EXTENDS RatchetPair

CONSTANT TheftBy  \* bound: a theft is among the first TheftBy messages

VARIABLE stolen  \* Null, or whose state was copied and the copy

breakInVars == <<vars, stolen>>

(* Bound: a behaviour has repeats or a theft, not both.                    *)
OneDisturbance == replays = 0 \/ stolen = Null

(* External: whoever reads p's state only looks.                           *)
Steal(p) ==
  /\ stolen = Null
  /\ replays = 0
  /\ Cardinality(net) <= TheftBy
  /\ p \in DOMAIN session
  /\ stolen' = [of |-> p, st |-> session[p]]
  /\ UNCHANGED vars

BreakInInit == Init /\ stolen = Null

BreakInNext ==
  \/ Next /\ UNCHANGED stolen /\ OneDisturbance'
  \/ \E p \in Parties : Steal(p)

BreakInSpec == BreakInInit /\ [][BreakInNext]_breakInVars

(* Every root key after the copied one that the copy's private key leads   *)
(* to: each Diffie-Hellman output mixed in since involves that key.        *)
Computable(st, mk) ==
  \/ Derivable(st, mk)
  \/ /\ Len(mk.id) > Len(st.rootKey)
     /\ SubSeq(mk.id, 1, Len(st.rootKey)) = st.rootKey
     /\ \A i \in (Len(st.rootKey) + 1)..Len(mk.id) :
          st.localRatchet \in mk.id[i][1]

(* A break-in heals: once the party whose state was copied has made a new  *)
(* ratchet key, nothing it writes under that key opens with the copy, and  *)
(* nothing the other writes in answer to it.                               *)
Healing ==
  stolen # Null =>
    \A m \in net :
      /\ m.text.from = stolen.of
      /\ m.ratchetPublic # stolen.st.localRatchet
      /\ Len(m.messageKey.id) > Len(stolen.st.rootKey)
      => /\ ~Computable(stolen.st, m.messageKey)
         /\ \A answer \in MessagesTo(stolen.of) :
              Len(answer.messageKey.id) > Len(m.messageKey.id)
                => ~Computable(stolen.st, answer.messageKey)
=============================================================================
