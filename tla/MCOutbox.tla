------------------------------ MODULE MCOutbox ------------------------------
(***************************************************************************)
(* Instances of Outbox for TLC.                                            *)
(***************************************************************************)
EXTENDS Outbox, TLC

CONSTANTS alice, bob, tab1, tab2, sw

OneUser  == {alice}
TwoUsers == {alice, bob}
OneTab   == {tab1}
TwoTabs  == {tab1, tab2}
NoWorker == {}
OneWorker == {sw}

\* One page, or two pages under the Web Lock; no service worker, as in a browser
\* without background sync.
JustOnePage == {[tabs |-> {tab1}, workers |-> {}, locks |-> TRUE]}
TwoPages    == {[tabs |-> {tab1, tab2}, workers |-> {}, locks |-> TRUE]}

\* ... or one page and the service worker, which asks for no lock.
PageAndWorker == {[tabs |-> {tab1}, workers |-> {sw}, locks |-> FALSE]}
BothBrowsers  == TwoPages \cup PageAndWorker

NoFaults  == {}
LiveFaults == {"retry", "net", "kill"}


UserSymmetry == Permutations(TwoUsers)

=============================================================================
