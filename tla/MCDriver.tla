------------------------------ MODULE MCDriver ------------------------------
(* Driver for TLC: a packet with a code of six colours, and one with a     *)
(* digit that no palette has.                                              *)
EXTENDS Driver

MCPayload == <<<<5, 2, 0, 0>>, <<0, 0, 0, 6>>>>
MCGuesses == {<<0, 0, 1, 2>>}
MCUidOf == [t \in Threads |-> 1]

(* Bound: a behaviour with a second probe has one packet. *)
FewPackets == loads = 2 => arrived + Cardinality(Net!In("captured")) < 2
=============================================================================
