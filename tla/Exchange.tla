------------------------------ MODULE Exchange ------------------------------
(***************************************************************************)
(* What a request promises: it is executed at most once, never before it   *)
(* was begun, though possibly after its client has given up, and whoever   *)
(* holds an answer or a part of one knows that it was executed.            *)
(***************************************************************************)
EXTENDS Naturals

CONSTANT Calls

VARIABLES
  begun,     \* the requests that were begun
  executed,  \* executed[c]: how often the server has executed c
  result     \* result[c]: what the caller was returned, "none" before that

vars == <<begun, executed, result>>

Init ==
  /\ begun = {}
  /\ executed = [c \in Calls |-> 0]
  /\ result = [c \in Calls |-> "none"]

Begin(c) ==
  /\ c \notin begun
  /\ begun' = begun \cup {c}
  /\ UNCHANGED <<executed, result>>

Execute(c) ==
  /\ c \in begun
  /\ executed[c] = 0
  /\ result[c] = "none"
  /\ executed' = [executed EXCEPT ![c] = 1]
  /\ UNCHANGED <<begun, result>>

Return(c) ==
  /\ c \in begun
  /\ result[c] = "none"
  /\ \E known \in {"nothing", "part", "all"} :
       /\ known # "nothing" => executed[c] = 1
       /\ result' = [result EXCEPT ![c] = known]
  /\ UNCHANGED <<begun, executed>>

Next == \E c \in Calls : Begin(c) \/ Execute(c) \/ Return(c)

Spec == Init /\ [][Next]_vars
=============================================================================
