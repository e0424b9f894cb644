----------------------------- MODULE MCRecurring -----------------------------
(***************************************************************************)
(* Small instances of module Recurring.                                    *)
(***************************************************************************)
EXTENDS Recurring, TLC

CONSTANTS alice, bob

TwoEach == (alice :> 2) @@ (bob :> 1)

==============================================================================
