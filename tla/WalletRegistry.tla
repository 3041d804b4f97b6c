---------------------------- MODULE WalletRegistry ----------------------------
(***************************************************************************)
(* What the wallet side promises (spec §3, §4.2, §4.7, §8): a wallet is    *)
(* registered for a (user, network) pair at most once, with an index no    *)
(* other wallet of the network has, and is never changed or removed; only *)
(* registered wallets are announced on wallet.created.  Stated over the    *)
(* next state, to check WalletPipeline against it.                         *)
(***************************************************************************)
EXTENDS Naturals, Sequences

VARIABLES registry, announced

Init == registry = {} /\ announced = <<>>

Clash(w, v) == (v.user = w.user /\ v.net = w.net) \/ (v.net = w.net /\ v.idx = w.idx)

\* A new wallet for a pair that has none, at an index free in its network.
Register ==
    /\ \E w \in registry' \ registry :
          /\ registry' = registry \cup {w}
          /\ \A v \in registry : ~Clash(w, v)
    /\ UNCHANGED announced

\* A registered wallet is announced (again, possibly).
Announce ==
    /\ Len(announced') = Len(announced) + 1
    /\ SubSeq(announced', 1, Len(announced)) = announced
    /\ announced'[Len(announced')] \in registry
    /\ UNCHANGED registry

Next == Register \/ Announce

Spec == Init /\ [][Next]_<<registry, announced>>

==============================================================================
