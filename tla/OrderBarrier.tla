---------------------------- MODULE OrderBarrier ----------------------------
(***************************************************************************)
(* What the settings serializer promises, without packets, echoes and      *)
(* retries: one line of operations, first in first out.  Settings          *)
(* mutations are settled from the front, several at a time but never past  *)
(* an order; an order is placed only from the front; and the only other    *)
(* way out is that the whole line is dropped at once.                      *)
(***************************************************************************)
EXTENDS Naturals, Sequences

CONSTANT MaxBatch  \* most operations one command adds

VARIABLES line,  \* operations waiting: serial number and kind
          gone   \* operations that left, in order, and how

Kinds   == {"mutation", "order"}
Waiting == [n : Nat, kind : Kinds]
Left    == [n : Nat, kind : Kinds, how : {"settled", "placed", "dropped"}]

Out(k, how) ==
    gone' = gone \o [i \in 1..k |-> [n |-> line[i].n, kind |-> line[i].kind, how |-> how]]

Init == line = <<>> /\ gone = <<>>

(* A command joins: its mutations, then at most one order. *)
Join ==
    /\ Len(line') > Len(line)
    /\ Len(line') <= Len(line) + MaxBatch
    /\ \A i \in DOMAIN line : line'[i] = line[i]
    /\ \A i \in (Len(line) + 1)..Len(line') :
         /\ line'[i].n = Len(gone) + i
         /\ line'[i].kind \in Kinds
         /\ i < Len(line') => line'[i].kind = "mutation"
    /\ UNCHANGED gone

Settle ==
    \E k \in 1..Len(line) :
        /\ \A i \in 1..k : line[i].kind = "mutation"
        /\ line' = SubSeq(line, k + 1, Len(line))
        /\ Out(k, "settled")

Place ==
    /\ line # <<>>
    /\ line[1].kind = "order"
    /\ line' = Tail(line)
    /\ Out(1, "placed")

Clear ==
    /\ line' = <<>>
    /\ Out(Len(line), "dropped")

Next == Join \/ Settle \/ Place \/ Clear

Spec == Init /\ [][Next]_<<line, gone>>

=============================================================================
