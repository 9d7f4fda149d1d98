------------------------------ MODULE MCFinance ------------------------------
(***************************************************************************)
(* An instance of Finance for TLC. The activities of one mix read or write  *)
(* what another of the same mix reads or writes; activities that share      *)
(* nothing are not mixed.                                                  *)
(***************************************************************************)
EXTENDS Finance, TLC

CONSTANTS c1, c2, w1, s1, s2, r1, r2

MCCategories == {c1, c2}
MCWallets == {w1}
MCSubs == {s1, s2}
MCRequests == {r1, r2}
MCEntries == 1..3
MCAmount == [i \in MCEntries |-> 2 ^ i]

Draft(type, category, wallet, at) == [type |-> type, category |-> category, wallet |-> wallet, at |-> at]

MCDrafts == {Draft("expense", c1, w1, 1), Draft("expense", c2, Absent, 2), Draft("income", c1, Absent, 1),
             Draft("budget", c1, Absent, 1)}

MCFilters == {{}, {"expense", "budget"}}
MCInitial == {c1, w1}

MCMixes ==
    {[does |-> {"create", "remove"}, entries |-> {1, 2}, requests |-> MCRequests],
     [does |-> {"create", "remove", "add"}, entries |-> {}, requests |-> MCRequests],
     [does |-> {"create", "remove", "home"}, entries |-> {1, 2}, requests |-> {r1}],
     [does |-> {"feed"}, entries |-> MCEntries, requests |-> {}]}

Symmetry == Permutations(MCSubs)
=============================================================================
