------------------------------ MODULE Channels ------------------------------
(***************************************************************************)
(* The numbers of the messages in a channel, or of those that wait for     *)
(* their turn.                                                             *)
(***************************************************************************)
EXTENDS Naturals, Sequences

Places(q)   == {q[i].idx : i \in 1..Len(q)}
Waiting(ms) == {m.idx : m \in ms}
=============================================================================
