---------------------------- MODULE RatchetPair ----------------------------
(***************************************************************************)
(* One conversation: Alice writes first, Bob has no state until her first  *)
(* message reaches him.  A send is the message half of msg:send and a      *)
(* delivery one turn of the loop of msg:fetch (client/desktop/electron/    *)
(* main.js), over the operators of DoubleRatchet.                          *)
(*                                                                         *)
(* The network is the set of messages ever sent.  It may hand them over in *)
(* any order or never, and hand one over again: the mailbox keeps what a   *)
(* failed DELETE did not remove and what the client did not open.          *)
(***************************************************************************)
EXTENDS DoubleRatchet, Functions, FiniteSets

CONSTANTS
  MaxSend,    \* bound: messages per party
  MaxReplays  \* bound: messages handed over again

ASSUME BoundsAssumption == MaxSend \in Nat /\ MaxReplays \in Nat

LongTerm(p) == [ikDh |-> <<p, 0>>, spk |-> <<p, 1>>, opk |-> <<p, 2>>]
OpkId == 0
FirstFresh == 3

ASSUME NullIsNoKeyAssumption == Null \notin Key /\ Null # OpkId

Text == [from : Parties, n : 0..(MaxSend - 1)]

VARIABLES
  session,    \* p's ratchet state, for the parties p that have one
  generated,  \* generated[p]: the number of p's next key pair
  written,    \* written[p]: how many messages p has sent
  net,        \* the messages sent
  handed,     \* handed[p]: the texts that reached p once or more
  replays,    \* how many deliveries were repeats
  log,        \* log[p]: the texts p opened, in order
  lost        \* lost[p]: the texts p tried to open, and failed, when they
              \* first came; one refused for its gap is not tried

vars == <<session, generated, written, net, handed, replays, log, lost>>

---------------------------------------------------------------------------
Init ==
  /\ session = [p \in {} |-> Null]
  /\ generated = [p \in Parties |-> FirstFresh]
  /\ written = [p \in Parties |-> 0]
  /\ net = {}
  /\ handed = [p \in Parties |-> {}]
  /\ replays = 0
  /\ log = [p \in Parties |-> <<>>]
  /\ lost = [p \in Parties |-> {}]

(* sessions[p] = st                                                        *)
Keep(p, st) ==
  session' = [q \in DOMAIN session \cup {p} |->
                IF q = p THEN st ELSE session[q]]

(* p encrypts under st and posts; x3dh is Null but for a first message.    *)
Post(p, st, x3dh) ==
  LET enc == ratchetEncrypt(st)
  IN  /\ net' = net \cup
           {[text |-> [from |-> p, n |-> written[p]], x3dh |-> x3dh,
             ratchetPublic |-> enc.header.ratchetPublic,
             Ns |-> enc.header.Ns, PN |-> enc.header.PN,
             messageKey |-> enc.messageKey]}
      /\ Keep(p, enc.st)
      /\ written' = [written EXCEPT ![p] = @ + 1]
      /\ UNCHANGED <<handed, replays, log, lost>>

(* The first message to Bob, under the bundle with or without a one-time   *)
(* prekey.                                                                 *)
Initiate ==
  /\ Alice \notin DOMAIN session
  /\ written[Alice] < MaxSend
  /\ \E withOpk \in BOOLEAN :
       LET eph == <<Alice, generated[Alice]>>
           bundle == IF withOpk THEN LongTerm(Bob)
                     ELSE [LongTerm(Bob) EXCEPT !.opk = Null]
           rootKey == x3dhSend(LongTerm(Alice), eph, bundle)
       IN  Post(Alice,
                initRatchet(rootKey, bundle.spk,
                            <<Alice, generated[Alice] + 1>>),
                [eph |-> eph, ikDh |-> LongTerm(Alice).ikDh,
                 opkId |-> IF withOpk THEN OpkId ELSE Null])
  /\ generated' = [generated EXCEPT ![Alice] = @ + 2]

(* A message in a session that exists; the responder's first reply makes   *)
(* the DH step first.                                                      *)
Continue(p) ==
  /\ p \in DOMAIN session
  /\ written[p] < MaxSend
  /\ IF session[p].sendingChainKey = Null
     THEN /\ Post(p, dhRatchetStep(session[p], <<p, generated[p]>>), Null)
          /\ generated' = [generated EXCEPT ![p] = @ + 1]
     ELSE /\ Post(p, session[p], Null)
          /\ UNCHANGED generated

(* The state a message is tried under: the session, or for a first message *)
(* the state rebuilt from its header.  Without either it is dropped.       *)
StateFor(p, m) ==
  IF p \in DOMAIN session THEN session[p]
  ELSE initRatchetReceiver(
         x3dhReceive(LongTerm(p), [id \in {OpkId} |-> LongTerm(p).opk],
                     m.x3dh),
         m, LongTerm(p).spk)

Deliver(p, m) ==
  /\ m.text.from # p
  /\ p \in DOMAIN session \/ m.x3dh # Null
  /\ \/ m.text \notin handed[p] /\ UNCHANGED replays
     \/ m.text \in handed[p] /\ replays < MaxReplays /\ replays' = replays + 1
  /\ LET result == ratchetDecrypt(StateFor(p, m), m, <<p, generated[p]>>)
     IN  /\ IF p \in DOMAIN session \/ result.outcome = "opened"
            THEN Keep(p, result.st)
            ELSE UNCHANGED session
         /\ generated' =
              [generated EXCEPT ![p] =
                 IF result.st.localRatchet = <<p, @>> THEN @ + 1 ELSE @]
         /\ log' = IF result.outcome = "opened"
                   THEN [log EXCEPT ![p] = Append(@, m.text)] ELSE log
         /\ lost' = IF result.outcome = "failed"
                    THEN [lost EXCEPT ![p] = @ \cup ({m.text} \ handed[p])]
                    ELSE lost
  /\ handed' = [handed EXCEPT ![p] = @ \cup {m.text}]
  /\ UNCHANGED <<written, net>>

Next ==
  \/ Initiate
  \/ \E p \in Parties : Continue(p) \/ \E m \in net : Deliver(p, m)

Spec == Init /\ [][Next]_vars

---------------------------------------------------------------------------
(* Types.                                                                  *)

Message ==
  [text : Text,
   x3dh : [eph : Key, ikDh : Key, opkId : {OpkId, Null}] \cup {Null},
   ratchetPublic : Key, Ns : Nat, PN : Nat, messageKey : ChainKey]

(* The state of a conversation is well formed: above all, a chain key is   *)
(* null or a key and the counters of session.js stay natural numbers.      *)
TypeOK ==
  /\ DOMAIN session \subseteq Parties
  /\ session = [p \in DOMAIN session |-> session[p]]
  /\ \A p \in DOMAIN session : IsRatchetState(session[p])
  /\ generated \in [Parties -> Nat]
  /\ written \in [Parties -> 0..MaxSend]
  /\ net \subseteq Message
  /\ handed \in [Parties -> SUBSET Text]
  /\ replays \in 0..MaxReplays
  /\ log \in [Parties -> Seq(Text)]
  /\ lost \in [Parties -> SUBSET Text]

---------------------------------------------------------------------------
(* Safety.                                                                 *)

MessagesTo(p) == {m \in net : m.text.from # p}
Read(p, m) == m.text \in Range(log[p])

(* No text is read twice, however often the mailbox hands it over: a key   *)
(* leaves MKSKIPPED, or the chain, before ratchetDecrypt returns.          *)
AtMostOnce == \A p \in Parties : IsInjective(log[p])

(* A state that is stolen now opens nothing of the past: no party can      *)
(* compute the key of a message it has sent or read from what              *)
(* ratchetEncrypt, ratchetDecrypt and the skip cache have left it.         *)
ForwardSecrecy ==
  \A p \in Parties, m \in net :
    m.text.from = p \/ Read(p, m) =>
      p \in DOMAIN session /\ ~Derivable(session[p], m.messageKey)

(* No key seals two messages, whoever wrote them.                          *)
OneKeyPerMessage ==
  \A m1, m2 \in net : m1.messageKey = m2.messageKey => m1 = m2

(* Out-of-order delivery costs nothing: a message that comes for the first *)
(* time, after or before any others, opens, unless its gap is refused; a   *)
(* refused one spoils nothing.  It holds as long as nothing is handed over *)
(* twice: a repeat can use up the key of another message.                  *)
NewMessagesOpen == replays = 0 => \A p \in Parties : lost[p] = {}

(* The skip cache holds the keys of messages that were not read yet, under *)
(* their own names, and no others: nothing in it is left for good.  A      *)
(* repeat that moves the chain on gives the keys other names.              *)
CacheExact == replays = 0 =>
  \A p \in DOMAIN session :
    \A k \in DOMAIN session[p].MKSKIPPED :
      \E m \in MessagesTo(p) :
        /\ cacheKey(m) = k
        /\ m.messageKey = session[p].MKSKIPPED[k]
        /\ ~Read(p, m)

(* A conversation implements the channel of SecureChannel, where a text is *)
(* read only if the other party wrote it and never twice, under loss,      *)
(* reordering and repetition.                                              *)
Channel == INSTANCE SecureChannel
             WITH Texts <- Text, sent <- {m.text : m \in net}
ImplementsChannel == Channel!Spec
============================================================================
