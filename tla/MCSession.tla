----------------------------- MODULE MCSession -----------------------------
(***************************************************************************)
(* Instances of Session.                                                   *)
(***************************************************************************)
EXTENDS Session, TLC

CONSTANTS b1, b2

TwoBrowsers == {b1, b2}

BrowserSymmetry == Permutations(Browsers)

\* Once a version is lost the properties promise nothing, so those states are not explored further.
NothingLost == ~lost

=============================================================================
