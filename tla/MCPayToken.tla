----------------------------- MODULE MCPayToken -----------------------------
(***************************************************************************)
(* A small instance of module PayToken.                                    *)
(***************************************************************************)
EXTENDS PayToken

CONSTANTS alice, bob

Entry(a, x) == [address |-> a, amount |-> x]

\* One address several times, and a negative amount.
MixedBatches == {<<Entry(bob, 1), Entry(bob, -1), Entry(bob, 1)>>, <<Entry(bob, -1)>>}

Grant(s, x, e) == [spender |-> s, amount |-> x, expiration |-> e]

\* An amount below zero, and one that is taken back in the same list.
MixedApprovals == {<<Grant(bob, -1, 1)>>, <<Grant(alice, 1, 0), Grant(bob, 1, 1), Grant(alice, 0, 1)>>}

Signs == {-1, 1}

=============================================================================
