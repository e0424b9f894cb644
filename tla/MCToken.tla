------------------------------- MODULE MCToken -------------------------------
(***************************************************************************)
(* Small instances of module Token.                                        *)
(***************************************************************************)
EXTENDS Token

CONSTANTS alice, bob

-----------------------------------------------------------------------------
(***************************************************************************)
(* Statements of the documentation and the tests that the code does not    *)
(* keep.                                                                   *)
(***************************************************************************)

\* The token with freeze and unfreeze.
FreezeSpec == Init /\ [][Next \/ FreezeNext]_vars

\* `client.freeze(&user); assert_eq!(client.is_frozen(&user), true)`
\* (contract_test.rs:128): the acting admin can freeze another account that
\* is not frozen.  freeze_account looks for the admin in the wrong storage.
FreezeWorks ==
    \A c \in Account, t \in Account :
        CheckAdmin(c) /\ t # c /\ t \notin frozen => ENABLED Freeze(c, t)

==============================================================================
