----------------------------- MODULE MCTokenBW -----------------------------
(* TokenBW with two NPUs of different epochs.                               *)
EXTENDS TokenBW

MCEpoch == [n \in NPU |-> n + 1]

Lending == [conserv |-> TRUE, refuses |-> FALSE]
Refusing == [conserv |-> FALSE, refuses |-> TRUE]

Both == {Lending, Refusing}
RefusingOnly == {Refusing}
=============================================================================
