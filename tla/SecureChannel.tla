--------------------------- MODULE SecureChannel ---------------------------
(***************************************************************************)
(* What a conversation promises to its two ends, and nothing of how: every *)
(* text a party reads was written by the other and is read at most once.   *)
(* Order is not promised, and texts may never arrive.                      *)
(***************************************************************************)
EXTENDS Sequences, Functions

CONSTANTS Parties, Texts  \* a text is a record with its author in field from

VARIABLES
  sent,  \* the texts written so far
  log    \* log[p]: the texts p has read, in the order it read them

Init ==
  /\ sent = {}
  /\ log = [p \in Parties |-> <<>>]

Send(text) ==
  /\ text \notin sent
  /\ sent' = sent \cup {text}
  /\ UNCHANGED log

Read(p, text) ==
  /\ text \in sent
  /\ text.from # p
  /\ text \notin Range(log[p])
  /\ log' = [log EXCEPT ![p] = Append(@, text)]
  /\ UNCHANGED sent

Next == \E text \in Texts :
  \/ Send(text)
  \/ \E p \in Parties : Read(p, text)

Spec == Init /\ [][Next]_<<sent, log>>
============================================================================
