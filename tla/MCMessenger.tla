---------------------------- MODULE MCMessenger ----------------------------
(* Messenger for TLC: the choices of its configurations.                   *)
EXTENDS Messenger

OnlyAlice == {Alice}
Both == {Alice, Bob}
ThreeAndTwo == [u \in User |-> IF u = Alice THEN 3 ELSE 2]
OneEach == [u \in User |-> 1]
ThreeFromAlice == [u \in User |-> IF u = Alice THEN 3 ELSE 0]
NoFaults == {}
AllFaults == {"rejected", "connection", "crash", "delete", "revoke", "erase"}
FailedDelete == {"delete"}

(* One poll is as good as another.                                         *)
PollSymmetry == Permutations(Polls)
============================================================================
