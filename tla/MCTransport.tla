---------------------------- MODULE MCTransport ----------------------------
(* Transport for TLC.  As in the program a record leaves a short last read *)
(* (5 = 2 + 2 + 1).                                                        *)
EXTENDS Transport

(* A short one, one that fills its last read, one longer than a record.    *)
RequestLengths == {3, 4, 6}
AnswerLengths == {4, 6}
============================================================================
