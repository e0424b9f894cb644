-------------------------------- MODULE MCPay --------------------------------
(***************************************************************************)
(* Small instances of module PayPool.  Alice deposits, bob is paid, carol  *)
(* is admin, arbiter, creditor and treasury.                               *)
(***************************************************************************)
EXTENDS PayPool

CONSTANTS alice, bob, carol

Share(a, bps) == [address |-> a, share_bps |-> bps]
Part(a, x) == [address |-> a, share |-> x]

\* Alice has two units, and one was sent to the contract by mistake.
TwoAndStranded == [a \in Address |-> IF a = alice THEN 2 ELSE IF a = Contract THEN 1 ELSE 0]
AliceThree == [a \in Address |-> IF a = alice THEN 3 ELSE 0]

Halves == {[recipients |-> <<Share(bob, 5000), Share(carol, 5000)>>, total |-> 2]}
TwoParts == {<<Part(bob, 1), Part(carol, 1)>>}
Thirds == {[organizer |-> bob, organizer_bps |-> 3334, artist |-> carol, artist_bps |-> 3334,
            platform |-> bob, total |-> 3]}

\* A list with dust, in which one recipient occurs twice and gets nothing once.
Uneven == {<<Share(bob, 3334), Share(alice, 6666), Share(bob, 0)>>}

\* At most two claims and payments of whatever kind, which is enough for one
\* to eat into another.
TwoClaims == Len(escrows) + Len(splits) + Len(multiEscrows) + Len(vestings) + Len(recurrings) <= 2

-----------------------------------------------------------------------------
\* "Get total escrowed value (locked funds that cannot be touched)"
\* (contract.rs:673): an emergency withdrawal leaves in the contract what the
\* active escrows are owed.  It does not after a top-up, which raises the
\* record and not the counter.
EscrowedFundsUntouched ==
    [][Withdrawn => funds'[Contract] >= OwedToEscrows]_vars

=============================================================================
