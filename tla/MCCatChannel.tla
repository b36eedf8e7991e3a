---------------------------- MODULE MCCatChannel ----------------------------
(***************************************************************************)
(* Instances of CatChannel for TLC: an unbuffered channel and one of one   *)
(* slot, pushed to, popped from, closed and selected on.                   *)
(***************************************************************************)
EXTENDS CatChannel, TLC

CONSTANTS ch1, ch2, c1, c2, c3

Mixed == [ch \in Channel |-> IF ch = ch1 THEN 0 ELSE 1]

PushOn(ch) == [channel |-> ch, opcode |-> "PUSH"]
PopOn(ch) == [channel |-> ch, opcode |-> "POP"]

\* A program that uses select() closes no channel that it selects on.
CloseOrSelect == { {"close"}, {"select"} }
CloseAndSelect == { {"close", "select"} }
\* Two requests, on different channels.
TwoChannels == { << PushOn(ch1), PopOn(ch2) >>, << PopOn(ch1), PopOn(ch2) >> }

Symm == Permutations(Coroutine)
=============================================================================
