--------------------------- MODULE MCCredentials ---------------------------
(***************************************************************************)
(* Recovery and SignIn for TLC: a behaviour goes through the pages that    *)
(* recover a forgotten password, or signs in. What the one does to the     *)
(* other is in SignIn as Recovered, so the two are not interleaved.        *)
(***************************************************************************)
EXTENDS Recovery, SignIn, TLC

CONSTANTS p1, p2, c1, c2, h1, h2, k1, k2

TwoPages == {p1, p2}
TwoCalls == {c1, c2}
MailAndApp == {"EMAIL_OTP", "TOTP"}
TwoHandlers == {h1, h2}
TwoBackups == {k1, k2}

VARIABLE part \* what this behaviour is about

MCInit == RecInit /\ SiInit /\ part \in {"recovery", "signIn"}

MCNext ==
    \/ part = "recovery" /\ RecNext /\ UNCHANGED <<siVars, part>>
    \/ part = "signIn" /\ SiNext /\ UNCHANGED <<recVars, part>>

MCSpec == MCInit /\ [][MCNext]_<<recVars, siVars, part>>

CredentialSymmetry == Permutations(TwoCalls) \cup Permutations(TwoHandlers)

=============================================================================
