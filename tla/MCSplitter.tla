----------------------------- MODULE MCSplitter -----------------------------
(***************************************************************************)
(* Small instances of module Splitter.                                     *)
(***************************************************************************)
EXTENDS SplitterCustody

CONSTANTS alice, bob, carol

Share(a, bps) == [address |-> a, share_bps |-> bps]

\* A list with dust for amounts that are no multiple of three, an even one,
\* and lists create_split refuses: a zero share, a duplicate, a bad sum.
Lists ==
    {<<Share(alice, 3334), Share(bob, 3333), Share(carol, 3333)>>,
     <<Share(alice, 5000), Share(bob, 5000)>>,
     <<Share(alice, 8000), Share(bob, 2000), Share(carol, 0)>>,
     <<Share(bob, 5000), Share(bob, 3000), Share(carol, 2000)>>,
     <<Share(bob, 5000), Share(carol, 3000), Share(alice, 1999)>>}

SixTokens == [a \in Account |-> IF a = alice THEN 6 ELSE 0]

\* Three splits and escrows in all: two of them open and one settled before.
ThreeClaims == Len(escrows) + Len(splits) <= 3

=============================================================================
