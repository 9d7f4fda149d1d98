---------------------------- MODULE MCDriveSetup ----------------------------
(***************************************************************************)
(* Instances of DriveSetup for TLC.                                        *)
(***************************************************************************)
EXTENDS DriveSetup, TLC

CONSTANTS ann, ben, g1, g2, accounts, transactions

MCUsers == {ann, ben}
MCAccounts == {g1, g2}
MCCollections == {accounts, transactions}
MCSeeded == {accounts}
MCCounted == {transactions}

\* One user has rows that count in PostgreSQL. The other is as good as new.
MCLegacy == [u \in Users |-> IF u = ann THEN {accounts, transactions} ELSE {accounts}]

\* Four connects or two failures, or three and both.
NotAllAtOnce == connects + faults <= 5

AccountSymmetry == Permutations(MCAccounts)

=============================================================================
