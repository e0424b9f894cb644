------------------------------ MODULE MCDispute ------------------------------
(***************************************************************************)
(* Small instances of module Dispute.  Alice and bob are the parties;      *)
(* carol is the admin, and the usual resolver.                             *)
(***************************************************************************)
EXTENDS DisputeCustody, TLC

CONSTANTS alice, bob, carol

AliceTwo == (alice :> 2) @@ (bob :> 0) @@ (carol :> 0)

-----------------------------------------------------------------------------
(***************************************************************************)
(* Statements of the documentation that the code does not keep.            *)
(***************************************************************************)

\* "must call `resolve_dispute` or the dispute will expire automatically"
\* (contract.rs:514): an open dispute does not stay open for ever.  It does
\* once its escrow was settled some other way, since both operations then
\* fail.
EveryDisputeEnds ==
    \A d \in DisputeId :
        (DisputeExists(d) /\ disputes[d].status = "Open")
            ~> (DisputeExists(d) /\ disputes[d].status # "Open")

=============================================================================
