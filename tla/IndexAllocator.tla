---------------------------- MODULE IndexAllocator ----------------------------
(***************************************************************************)
(* What DerivationService promises (spec §4.3): per network, the indices   *)
(* it hands out within one process strictly increase.  floor[n] is the     *)
(* least index the next call may return and calls[n] counts the calls;    *)
(* a process restart forgets both.                                         *)
(* The spec is stated over the next state, as it is used to check the      *)
(* allocator of WalletPipeline, never run on its own.                      *)
(***************************************************************************)
EXTENDS Naturals

CONSTANTS Networks

VARIABLES floor, calls

Init == floor = [n \in Networks |-> 0] /\ calls = [n \in Networks |-> 0]

\* One get_next_index(n): it returns some i >= floor[n], so the next call
\* must return more than i.
Allocate(n) ==
    /\ floor'[n] > floor[n]
    /\ floor' = [floor EXCEPT ![n] = floor'[n]]
    /\ calls' = [calls EXCEPT ![n] = @ + 1]

\* A new process starts from nothing.
Reset == floor' = [n \in Networks |-> 0] /\ calls' = [n \in Networks |-> 0]

Next == (\E n \in Networks : Allocate(n)) \/ Reset

Spec == Init /\ [][Next]_<<floor, calls>>

==============================================================================
