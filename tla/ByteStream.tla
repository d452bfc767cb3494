------------------------------ MODULE ByteStream ------------------------------
(***************************************************************************)
(* What one direction of a PipeConns promises, whatever the buffers, the   *)
(* deadlines and Close do to a call: the bytes that Write accepted come    *)
(* out of Read in that order, each once, none before it was accepted.      *)
(* Bytes are numbered in the order they are accepted.                      *)
(***************************************************************************)
EXTENDS Naturals, Sequences

CONSTANTS MaxWrite, MaxRead   \* longest slice passed to Write and to Read

VARIABLES sent,   \* number of bytes accepted
          got     \* bytes read

Numbers(m, n) == [i \in 1 .. n |-> m + i]

Init == sent = 0 /\ got = <<>>

Accept == /\ \E n \in 1 .. MaxWrite : sent' = sent + n
          /\ UNCHANGED got

Deliver == /\ \E n \in 1 .. MaxRead :
                /\ Len(got) + n <= sent
                /\ got' = got \o Numbers(Len(got), n)
           /\ UNCHANGED sent

Spec == Init /\ [][Accept \/ Deliver]_<<sent, got>>
===============================================================================
