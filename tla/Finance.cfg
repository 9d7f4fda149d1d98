SPECIFICATION FinSpec
CONSTANTS
    Absent = Absent
    Start = Start
    End = End
    c1 = c1
    c2 = c2
    w1 = w1
    s1 = s1
    s2 = s2
    r1 = r1
    r2 = r2
    Categories <- MCCategories
    Wallets <- MCWallets
    Subs <- MCSubs
    Entries <- MCEntries
    Days = {1, 2}
    Amount <- MCAmount
    Drafts <- MCDrafts
    Requests <- MCRequests
    PageSize = 1
    Filters <- MCFilters
    Initial <- MCInitial
    Mixes <- MCMixes
SYMMETRY Symmetry
INVARIANTS SubcategoriesKept HomeAddsUp FeedShowsEachOnce
PROPERTIES RemovedUnused
CHECK_DEADLOCK FALSE
