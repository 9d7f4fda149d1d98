------------------------ MODULE Transactions_proofs ------------------------
(***************************************************************************)
(* Theorems about the pages' save path (module SavePath) and about the     *)
(* records it makes (module Finance). First Finance, for any number of     *)
(* categories, wallets, records and overlapping requests: the types, that  *)
(* nothing still pointed at is removed, that a confirmed subcategory       *)
(* stays, that the activity feed shows its rows page by page without       *)
(* repeating or skipping one, and that Home's breakdown and trend add up   *)
(* to its totals. Behind the removal: one that found nothing               *)
(* has, for every collection it has read, only records written since that  *)
(* name what it removes. Behind the subcategory: an addition carries those *)
(* it did not race with. Behind the feed: its pages end where its cursor   *)
(* stands, whatever else is read lies behind it, and a row that has stayed *)
(* put is on a page or is read again before the next page is cut.          *)
(* Behind the figures of Home: the sum over a finite set is taken apart by *)
(* induction on the set, in the form that a smallest set for which a claim *)
(* fails would have a smaller one; so the sums of groups add up to the sum *)
(* of the whole.                                                           *)
(*                                                                         *)
(* Then SavePath, for any number of forms, faults, losses of the           *)
(* connection and retries, with and without a service worker: the types,   *)
(* that an entry makes one record (no two entries bear one key, and none   *)
(* bears two, wherever the key is), that the user is told the truth (what  *)
(* leaves the outbox the server has), that an entry is shown once (what    *)
(* leaves the outbox is in the list or in one that is still to come), and  *)
(* that an edit is not overwritten (what is sent is the oldest edit in the *)
(* outbox, and the later ones contain it).                                 *)
(***************************************************************************)
EXTENDS Finance, SavePath, FiniteSetTheorems, NaturalsInduction, WellFoundedInduction, TLAPS

\* What removal r has not seen naming its reference was written since it looked.
Accounted(r) ==
    ~removal[r].linked =>
        \A i \in Entries :
            /\ entries[i] # Absent /\ Names(entries[i], removal[r].of)
            /\ Collection[entries[i].type] \notin removal[r].unread
            => i \in removal[r].fresh

AllAccounted == \A r \in Requests : removal[r] # Absent => Accounted(r)

\* An addition writes back every subcategory of its category that it did not race with.
Carried ==
    \A r \in Requests : addition[r] # Absent =>
        \A p \in promised \ raced : p[1] = addition[r].of => p[2] \in addition[r].base

Inv == RecordsTypeOK /\ AllAccounted /\ SubcategoriesKept /\ Carried

-----------------------------------------------------------------------------
(* Types *)

\* A record is of a known type and belongs to a collection.
LEMMA DraftIsEntry ==
    ASSUME NEW d \in Drafts
    PROVE  d \in Entry /\ Collection[d.type] \in Collections
BY FinanceAssumption DEF Entry, Collections, Types, Rank

LEMMA InitTypes == FinInit => RecordsTypeOK
BY FinanceAssumption DEF FinInit, RecordsTypeOK, References

\* What the removals keep of a write.
LEMMA WrittenKeepsTypes ==
    ASSUME RecordsTypeOK, NEW i \in Entries, NEW col, Written(i, col)
    PROVE  /\ removal' \in [Requests -> Removal \cup {Absent}]
           /\ \A r \in Requests : removal[r] = Absent => removal'[r] = Absent
           /\ \A r \in Requests : removal[r] # Absent =>
                 /\ removal'[r] # Absent /\ removal'[r].of = removal[r].of
                 /\ removal'[r].unread = removal[r].unread /\ removal'[r].linked = removal[r].linked
                 /\ removal'[r].fresh = IF col \in removal[r].unread THEN removal[r].fresh
                                                                    ELSE removal[r].fresh \cup {i}
<1> DEFINE marked(r) == [removal[r] EXCEPT !.fresh = removal[r].fresh \cup {i}]
<1>1. \A r \in Requests : removal[r] # Absent => removal[r] \in Removal /\ marked(r) \in Removal
                                                 /\ marked(r).of = removal[r].of
                                                 /\ marked(r).unread = removal[r].unread
                                                 /\ marked(r).linked = removal[r].linked
                                                 /\ marked(r).fresh = removal[r].fresh \cup {i}
  BY DEF RecordsTypeOK, Removal
<1>2. removal' = [r \in Requests |-> IF removal[r] = Absent \/ col \in removal[r].unread THEN removal[r]
                                                                                          ELSE marked(r)]
  BY DEF Written
<1> HIDE DEF marked
<1>3. \A r \in Requests : removal'[r] = IF removal[r] = Absent \/ col \in removal[r].unread THEN removal[r]
                                                                                            ELSE marked(r)
  BY <1>2
<1>4. removal' \in [Requests -> Removal \cup {Absent}]
  BY <1>1, <1>2
<1>5. \A r \in Requests : removal[r] # Absent => removal'[r] # Absent
  BY <1>1, <1>3, AbsentAssumption
<1> QED
  BY <1>1, <1>3, <1>4, <1>5

\* Every step keeps the types.
LEMMA TypesKept ==
    ASSUME RecordsTypeOK, [FinNext]_vars
    PROVE  RecordsTypeOK'
<1> USE DEF RecordsTypeOK
<1>1. ASSUME NEW x \in References, CreateReference(x) PROVE RecordsTypeOK'
  BY <1>1 DEF CreateReference
<1>2. ASSUME NEW i \in Entries, NEW d \in Drafts, CreateEntry(i, d) PROVE RecordsTypeOK'
  BY <1>2, WrittenKeepsTypes DEF CreateEntry
<1>3. ASSUME NEW i \in Entries, NEW d \in Drafts, UpdateEntry(i, d) PROVE RecordsTypeOK'
  BY <1>3, WrittenKeepsTypes DEF UpdateEntry
<1>4. ASSUME NEW col \in Collections, NEW I \in SUBSET In(col), DeleteEntries(I, col) PROVE RecordsTypeOK'
  BY <1>4 DEF DeleteEntries, calls
<1>5. ASSUME NEW r \in Requests, NEW x \in References, StartRemoval(r, x) PROVE RecordsTypeOK'
  <2>1. GuardedBy(x) \subseteq Collections
    BY DEF GuardedBy, Collections, Collection, Types, Rank
  <2>2. [of |-> x, unread |-> GuardedBy(x), linked |-> FALSE, fresh |-> {}] \in Removal
    BY <2>1 DEF Removal
  <2> QED
    BY <1>5, <2>2 DEF StartRemoval, records
<1>6. ASSUME NEW r \in Requests, NEW col \in Collections, CheckUse(r, col) PROVE RecordsTypeOK'
  <2> DEFINE linked == removal[r].linked \/ \E i \in In(col) : Names(entries[i], removal[r].of)
  <2> DEFINE looked == [removal[r] EXCEPT !.unread = removal[r].unread \ {col}, !.linked = linked]
  <2>0. removal' = [removal EXCEPT ![r] = looked] /\ removal[r] \in Removal
    BY <1>6 DEF CheckUse
  <2>a. linked \in BOOLEAN
    OBVIOUS
  <2> HIDE DEF linked
  <2>b. looked \in Removal
    BY <2>0, <2>a DEF Removal
  <2> HIDE DEF looked
  <2>1. removal' \in [Requests -> Removal \cup {Absent}]
    BY <2>0, <2>b
  <2> QED
    BY <1>6, <2>1 DEF CheckUse, records
<1>7. ASSUME NEW r \in Requests, FinishRemoval(r) PROVE RecordsTypeOK'
  BY <1>7 DEF FinishRemoval
<1>8. ASSUME NEW r \in Requests, NEW c \in Categories, NEW s \in Subs, StartAddition(r, c, s)
      PROVE  RecordsTypeOK'
  <2>1. [of |-> c, sub |-> s, base |-> subs[c]] \in Addition
    BY DEF Addition
  <2> QED
    BY <1>8, <2>1 DEF StartAddition
<1>9. ASSUME NEW r \in Requests, FinishAddition(r) PROVE RecordsTypeOK'
  BY <1>9 DEF FinishAddition, Addition
<1>10. CASE StartHome
  BY <1>10 DEF StartHome, HomeCall, records
<1>11. ASSUME NEW col \in {"transactions", "categories"}, ReadForHome(col) PROVE RecordsTypeOK'
  <2>1. {[id |-> i, entry |-> entries[i]] : i \in In(col)} \subseteq [id : Entries, entry : Entry]
    BY DraftIsEntry DEF In
  <2>2. homeCall' \in HomeCall
    BY <1>11, <2>1 DEF ReadForHome, HomeCall
  <2> QED
    BY <1>11, <2>2 DEF ReadForHome, records
<1>12. CASE AnswerHome
  BY <1>12 DEF AnswerHome, records
<1>13. ASSUME NEW types \in Filters, OpenFeed(types) PROVE RecordsTypeOK'
  BY <1>13 DEF OpenFeed, records, calls
<1>14. ASSUME NEW col \in Collections, ReadForFeed(col) PROVE RecordsTypeOK'
  BY <1>14 DEF ReadForFeed, records, calls
<1>15. CASE LoadMore \/ ShowPage
  BY <1>15 DEF LoadMore, ShowPage, records, calls
<1>16. CASE UNCHANGED vars
  BY <1>16 DEF vars
<1> HIDE DEF RecordsTypeOK
<1> QED
  BY <1>1, <1>2, <1>3, <1>4, <1>5, <1>6, <1>7, <1>8, <1>9, <1>10, <1>11, <1>12, <1>13, <1>14, <1>15, <1>16
     DEF FinNext

-----------------------------------------------------------------------------
(* Removals *)

\* A removal goes on seeing what it accounted for, whatever a write of record i does.
LEMMA WrittenIsAccounted ==
    ASSUME RecordsTypeOK, AllAccounted, NEW i \in Entries, NEW d \in Drafts,
           entries' = [entries EXCEPT ![i] = d], Written(i, Collection[d.type])
    PROVE  AllAccounted'
<1> SUFFICES ASSUME NEW r \in Requests, removal'[r] # Absent, ~removal'[r].linked, NEW j \in Entries,
                    entries'[j] # Absent, Names(entries'[j], removal'[r].of),
                    Collection[entries'[j].type] \notin removal'[r].unread
             PROVE  j \in removal'[r].fresh
  BY DEF AllAccounted, Accounted
<1>1. /\ removal[r] # Absent /\ removal'[r].of = removal[r].of
      /\ removal'[r].unread = removal[r].unread /\ removal'[r].linked = removal[r].linked
      /\ removal'[r].fresh = IF Collection[d.type] \in removal[r].unread THEN removal[r].fresh
                                                                      ELSE removal[r].fresh \cup {i}
  BY WrittenKeepsTypes
<1>2. CASE j = i
  BY <1>1, <1>2 DEF RecordsTypeOK
<1>3. CASE j # i
  BY <1>1, <1>3 DEF RecordsTypeOK, AllAccounted, Accounted
<1> QED
  BY <1>2, <1>3

\* Only a record of a guarded collection can name what is removed.
LEMMA OnlyGuarded ==
    ASSUME NEW x \in References, NEW d \in Drafts, Names(d, x)
    PROVE  Collection[d.type] \in GuardedBy(x)
<1>1. d \in Entry
  BY FinanceAssumption
<1>2. d.type = "budget" \/ Collection[d.type] = "transactions"
  BY <1>1 DEF Entry, Types, Rank, Collection
<1>3. d.type = "budget" => x \in Categories
  BY <1>1, FinanceAssumption, AbsentAssumption DEF Names, Entry, References
<1>4. d.type = "budget" => Collection[d.type] = "budgets"
  BY DEF Collection
<1> QED
  BY <1>2, <1>3, <1>4 DEF GuardedBy

LEMMA AccountedKept ==
    ASSUME RecordsTypeOK, AllAccounted, [FinNext]_vars
    PROVE  AllAccounted'
<1>1. ASSUME NEW i \in Entries, NEW d \in Drafts, CreateEntry(i, d) \/ UpdateEntry(i, d) PROVE AllAccounted'
  BY <1>1, WrittenIsAccounted DEF CreateEntry, UpdateEntry
<1>2. ASSUME NEW col \in Collections, NEW I \in SUBSET In(col), DeleteEntries(I, col) PROVE AllAccounted'
  <2>1. \A j \in Entries : entries'[j] # Absent => entries'[j] = entries[j]
    BY <1>2 DEF DeleteEntries
  <2>2. removal' = removal
    BY <1>2 DEF DeleteEntries, calls
  <2> QED
    BY <2>1, <2>2 DEF AllAccounted, Accounted
<1>3. ASSUME NEW r \in Requests, NEW x \in References, StartRemoval(r, x) PROVE AllAccounted'
  <2>1. \A i \in Entries : entries[i] # Absent /\ Names(entries[i], x) => Collection[entries[i].type] \in GuardedBy(x)
    BY OnlyGuarded DEF RecordsTypeOK
  <2>2. entries' = entries /\ removal'[r].of = x /\ removal'[r].unread = GuardedBy(x)
        /\ \A q \in Requests : q # r => removal'[q] = removal[q]
    BY <1>3 DEF StartRemoval, records, RecordsTypeOK
  <2> QED
    BY <2>1, <2>2 DEF AllAccounted, Accounted
<1>4. ASSUME NEW r \in Requests, NEW col \in Collections, CheckUse(r, col) PROVE AllAccounted'
  <2>1. /\ entries' = entries
        /\ \A q \in Requests : q # r => removal'[q] = removal[q]
        /\ removal'[r].of = removal[r].of /\ removal'[r].fresh = removal[r].fresh
        /\ removal'[r].unread = removal[r].unread \ {col}
        /\ removal'[r].linked = (removal[r].linked \/ \E i \in In(col) : Names(entries[i], removal[r].of))
        /\ removal[r] # Absent
    BY <1>4 DEF CheckUse, records, RecordsTypeOK, Removal
  <2>2. \A i \in Entries : entries[i] # Absent /\ Collection[entries[i].type] = col => i \in In(col)
    BY DEF In
  <2> QED
    BY <2>1, <2>2 DEF AllAccounted, Accounted
<1>5. ASSUME NEW r \in Requests, FinishRemoval(r) PROVE AllAccounted'
  BY <1>5 DEF FinishRemoval, AllAccounted, Accounted, RecordsTypeOK
<1>6. CASE UNCHANGED <<entries, removal>>
  BY <1>6 DEF AllAccounted, Accounted
<1>7. \/ UNCHANGED <<entries, removal>>
      \/ \E i \in Entries, d \in Drafts : CreateEntry(i, d) \/ UpdateEntry(i, d)
      \/ \E col \in Collections : \E I \in SUBSET In(col) : DeleteEntries(I, col)
      \/ \E r \in Requests, x \in References : StartRemoval(r, x)
      \/ \E r \in Requests, col \in Collections : CheckUse(r, col)
      \/ \E r \in Requests : FinishRemoval(r)
  BY DEF FinNext, CreateReference, StartAddition, FinishAddition, StartHome, ReadForHome, AnswerHome,
         OpenFeed, LoadMore, ReadForFeed, ShowPage, records, calls, vars
<1> QED
  BY <1>1, <1>2, <1>3, <1>4, <1>5, <1>6, <1>7

-----------------------------------------------------------------------------
(* Subcategories *)

LEMMA AdditionsKept ==
    ASSUME RecordsTypeOK, SubcategoriesKept, Carried, [FinNext]_vars
    PROVE  SubcategoriesKept' /\ Carried'
<1>1. ASSUME NEW r \in Requests, NEW c \in Categories, NEW s \in Subs, StartAddition(r, c, s)
      PROVE  SubcategoriesKept' /\ Carried'
  <2>1. /\ addition'[r].of = c /\ addition'[r].base = subs[c]
        /\ \A q \in Requests : q # r => addition'[q] = addition[q]
        /\ UNCHANGED <<subs, promised, raced>>
    BY <1>1 DEF StartAddition, RecordsTypeOK
  <2> QED
    BY <2>1 DEF SubcategoriesKept, Carried
<1>2. ASSUME NEW r \in Requests, FinishAddition(r) PROVE SubcategoriesKept' /\ Carried'
  <2> DEFINE c == addition[r].of
             s == addition[r].sub
  <2>1. addition[r] \in Addition /\ c \in Categories /\ addition'[r] = Absent
        /\ \A q \in Requests : q # r => addition'[q] = addition[q]
    BY <1>2 DEF FinishAddition, RecordsTypeOK, Addition
  <2>2. CASE c \notin refs
    <3>1. UNCHANGED <<subs, promised, raced>>
      BY <1>2, <2>2 DEF FinishAddition
    <3> QED
      BY <2>1, <3>1 DEF SubcategoriesKept, Carried
  <2>3. CASE c \in refs
    <3>1. /\ subs'[c] = addition[r].base \cup {s}
          /\ \A b \in Categories : b # c => subs'[b] = subs[b]
          /\ promised' = promised \cup {<<c, s>>}
          /\ raced \subseteq raced'
          /\ Overlapped(r) => <<c, s>> \in raced'
      BY <1>2, <2>1, <2>3 DEF FinishAddition, RecordsTypeOK
    <3>2. ASSUME NEW p \in promised' \ raced' PROVE p[2] \in subs'[p[1]]
      <4>1. p \in promised \ raced \/ p = <<c, s>>
        BY <3>1
      <4>2. p[1] \in Categories
        BY <2>1, <3>1, <4>1 DEF RecordsTypeOK
      <4>3. CASE p = <<c, s>>
        BY <3>1, <4>3
      <4>4. CASE p \in promised \ raced /\ p[1] = c
        BY <1>2, <3>1, <4>4 DEF Carried, FinishAddition
      <4>5. CASE p \in promised \ raced /\ p[1] # c
        BY <3>1, <4>2, <4>5 DEF SubcategoriesKept
      <4> QED
        BY <4>1, <4>3, <4>4, <4>5
    <3>3. ASSUME NEW q \in Requests, addition'[q] # Absent, NEW p \in promised' \ raced', p[1] = addition'[q].of
          PROVE  p[2] \in addition'[q].base
      <4>1. q # r /\ addition'[q] = addition[q]
        BY <2>1, <3>3
      <4>2. p # <<c, s>>
        BY <3>1, <3>3, <4>1 DEF Overlapped
      <4>3. p \in promised \ raced
        BY <3>1, <4>2
      <4> QED
        BY <3>3, <4>1, <4>3 DEF Carried
    <3> QED
      BY <3>2, <3>3 DEF SubcategoriesKept, Carried
  <2> QED
    BY <2>2, <2>3
<1>3. CASE UNCHANGED <<subs, addition, promised, raced>>
  BY <1>3 DEF SubcategoriesKept, Carried
<1>4. \/ UNCHANGED <<subs, addition, promised, raced>>
      \/ \E r \in Requests, c \in Categories, s \in Subs : StartAddition(r, c, s)
      \/ \E r \in Requests : FinishAddition(r)
  BY DEF FinNext, CreateReference, CreateEntry, UpdateEntry, DeleteEntries, StartRemoval, CheckUse,
         FinishRemoval, StartHome, ReadForHome, AnswerHome, OpenFeed, LoadMore, ReadForFeed, ShowPage,
         records, calls, vars
<1> QED
  BY <1>1, <1>2, <1>3, <1>4

-----------------------------------------------------------------------------
LEMMA Inductive ==
    /\ FinInit => Inv
    /\ Inv /\ [FinNext]_vars => Inv'
<1>1. FinInit => Inv
  BY InitTypes DEF FinInit, Inv, AllAccounted, Accounted, SubcategoriesKept, Carried
<1> QED
  BY <1>1, TypesKept, AccountedKept, AdditionsKept DEF Inv

(* A removal takes nothing away that a record named when it looked.         *)
THEOREM RemovesUnused == FinSpec => RemovedUnused
<1> DEFINE Unused == \A x \in refs \ refs' :
                         \E r \in Requests : /\ removal[r] # Absent /\ removal[r].of = x
                                             /\ \A i \in Entries : entries[i] # Absent /\ Names(entries[i], x)
                                                                   => i \in removal[r].fresh
<1>1. Inv /\ [FinNext]_vars => [Unused]_vars
  <2> SUFFICES ASSUME Inv, FinNext, NEW x \in refs \ refs' PROVE \E r \in Requests :
                    /\ removal[r] # Absent /\ removal[r].of = x
                    /\ \A i \in Entries : entries[i] # Absent /\ Names(entries[i], x) => i \in removal[r].fresh
    BY DEF vars
  <2>1. PICK r \in Requests : FinishRemoval(r)
    BY DEF FinNext, CreateReference, CreateEntry, UpdateEntry, DeleteEntries, StartRemoval, CheckUse,
           StartAddition, FinishAddition, StartHome, ReadForHome, AnswerHome, OpenFeed, LoadMore,
           ReadForFeed, ShowPage, records, calls
  <2>2. removal[r] # Absent /\ removal[r].of = x /\ ~removal[r].linked /\ removal[r].unread = {}
    BY <2>1 DEF FinishRemoval
  <2> QED
    BY <2>2 DEF Inv, AllAccounted, Accounted
<1> QED
  BY <1>1, Inductive, PTL DEF FinSpec, RemovedUnused

(* A subcategory, once confirmed, stays unless an addition overlapped it.   *)
THEOREM KeepsSubcategories == FinSpec => []SubcategoriesKept
<1>1. Inv => SubcategoriesKept
  BY DEF Inv
<1> QED
  BY <1>1, Inductive, PTL DEF FinSpec

-----------------------------------------------------------------------------
(* The feed. The rows have one order, a page is the newest of what is left, *)
(* and the cursor is the oldest row of its page.                            *)

FeedTypes == feed \in Feed /\ IsFiniteSet(feed.got)

NewestFirst ==
    \A m, n \in DOMAIN feed.pages : m < n => \A x \in feed.pages[m], y \in feed.pages[n] : Newer(x, y)

\* What was shown is the cursor's row or newer.
CursorIsLast ==
    /\ feed.cursor = Start => feed.pages = <<>>
    /\ feed.cursor \in Row =>
           \A n \in DOMAIN feed.pages : \A x \in feed.pages[n] : x = feed.cursor \/ Newer(x, feed.cursor)

Stayed == {i \in Entries \ feed.moved : entries[i] # Absent}

\* A page under way has the rows that stayed of the collections it has read.
HasWhatStayed ==
    feed.loading =>
        /\ feed.cursor # End
        /\ \A i \in Stayed : Collection[entries[i].type] \notin feed.unread => RowOf(i, entries[i]) \in feed.got

Wanted(x) == feed.types # {} => x.type \in feed.types
Behind(x) == feed.cursor # Start /\ (feed.cursor = End \/ ~Newer(feed.cursor, x))

\* What stayed and is wanted was shown when the cursor has passed it.
NothingSkipped ==
    \A i \in Stayed : Wanted(RowOf(i, entries[i])) /\ Behind(RowOf(i, entries[i]))
                      => \E n \in DOMAIN feed.pages : RowOf(i, entries[i]) \in feed.pages[n]

FeedInv == FeedTypes /\ NewestFirst /\ CursorIsLast /\ HasWhatStayed /\ NothingSkipped

\* The least of some natural numbers, and the greatest when they are bounded.
LEMMA MinOfNats ==
    ASSUME NEW S, S \subseteq Nat, S # {}
    PROVE  Min(S) \in S /\ \A k \in S : Min(S) <= k
<1>1. PICK m \in S : \A k \in S : <<k, m>> \notin OpToRel(<, Nat)
  BY WFMin, NatLessThanWellFounded
<1>2. \A k \in S : ~(k < m)
  BY <1>1, Zenon DEF OpToRel
<1>3. \A k \in S : m <= k
  BY <1>2
<1> QED
  BY <1>3 DEF Min

LEMMA MaxOfBounded ==
    ASSUME NEW N \in Nat, NEW S, S \subseteq 0..N, S # {}
    PROVE  Max(S) \in S /\ \A k \in S : k <= Max(S)
<1> DEFINE above == {k \in Nat : \A x \in S : x <= k}
<1>1. N \in above
  OBVIOUS
<1>2. Min(above) \in above /\ \A k \in above : Min(above) <= k
  BY <1>1, MinOfNats
<1>3. PICK m \in Nat : m = Min(above)
  BY <1>2
<1>4. m \in S
  <2>1. SUFFICES ASSUME m \notin S PROVE FALSE
    OBVIOUS
  <2>2. \A x \in S : x \in Nat /\ x <= m /\ x # m
    BY <1>2, <1>3, <2>1
  <2>3. m - 1 \in Nat /\ \A x \in S : x <= m - 1
    <3>1. ASSUME NEW x \in S PROVE x <= m - 1 /\ m - 1 \in Nat
      BY <2>2
    <3> QED
      BY <3>1
  <2>4. m - 1 \in above
    BY <2>3
  <2> QED
    BY <1>2, <1>3, <2>4
<1>5. \A x \in S : m >= x
  BY <1>2, <1>3
<1> QED
  BY <1>4, <1>5 DEF Max

\* The rows have a strict order, and any two have a place in it.
LEMMA NewerOrders ==
    /\ \A x \in Row : ~Newer(x, x)
    /\ \A x, y \in Row : x = y \/ Newer(x, y) \/ Newer(y, x)
    /\ \A x, y, z \in Row : Newer(x, y) /\ Newer(y, z) => Newer(x, z)
<1>1. \A s, t \in Types : Rank[s] \in Nat /\ (Rank[s] = Rank[t] => s = t)
  BY DEF Types, Rank
<1>2. \A x \in Row : x.at \in Nat /\ x.type \in Types /\ x.id \in Nat
  BY FinanceAssumption DEF Row
<1>3. \A x, y \in Row : x.at = y.at /\ x.type = y.type /\ x.id = y.id => x = y
  BY DEF Row
<1>4. \A x \in Row : ~Newer(x, x)
  BY <1>1, <1>2 DEF Newer
<1>5. ASSUME NEW x \in Row, NEW y \in Row PROVE x = y \/ Newer(x, y) \/ Newer(y, x)
  BY <1>1, <1>2, <1>3 DEF Newer
<1>6. ASSUME NEW x \in Row, NEW y \in Row, NEW z \in Row, Newer(x, y), Newer(y, z) PROVE Newer(x, z)
  BY <1>1, <1>2, <1>6 DEF Newer
<1> QED
  BY <1>4, <1>5, <1>6

Ahead(all, x) == Cardinality({y \in all : Newer(y, x)})

\* Who comes earlier has fewer ahead.
LEMMA AheadCounts ==
    ASSUME NEW all, all \subseteq Row, IsFiniteSet(all)
    PROVE  /\ \A x \in all : Ahead(all, x) \in 0..Cardinality(all)
           /\ \A x, y \in all : Newer(y, x) => Ahead(all, y) < Ahead(all, x)
<1> DEFINE ahead(x) == {y \in all : Newer(y, x)}
<1>1. Cardinality(all) \in Nat
  BY FS_CardinalityType
<1>2. \A x : IsFiniteSet(ahead(x)) /\ Ahead(all, x) \in 0..Cardinality(all)
  <2> TAKE x
  <2>1. ahead(x) \in SUBSET all
    OBVIOUS
  <2>2. IsFiniteSet(ahead(x)) /\ Cardinality(ahead(x)) <= Cardinality(all)
    BY <2>1, FS_Subset
  <2>3. Cardinality(ahead(x)) \in Nat
    BY <2>2, FS_CardinalityType
  <2> QED
    BY <1>1, <2>2, <2>3 DEF Ahead
<1>3. ASSUME NEW x \in all, NEW y \in all, Newer(y, x) PROVE Ahead(all, y) < Ahead(all, x)
  <2>1. y \in ahead(x) /\ y \notin ahead(y) /\ ahead(y) \in SUBSET ahead(x)
    BY <1>3, NewerOrders
  <2>a. ahead(x) # ahead(y) /\ IsFiniteSet(ahead(x))
    BY <1>2, <2>1
  <2> HIDE DEF ahead
  <2>2. Cardinality(ahead(y)) <= Cardinality(ahead(x)) /\ Cardinality(ahead(x)) # Cardinality(ahead(y))
    BY <2>1, <2>a, FS_Subset
  <2>3. Ahead(all, x) = Cardinality(ahead(x)) /\ Ahead(all, y) = Cardinality(ahead(y))
    BY DEF Ahead, ahead
  <2>4. Ahead(all, x) \in Nat /\ Ahead(all, y) \in Nat
    BY <1>1, <1>2
  <2> QED
    BY <2>2, <2>3, <2>4
<1> QED
  BY <1>2, <1>3

\* A page is the newest of the rows, and of a page that is not all of them the
\* cursor is the oldest.
LEMMA PageIsNewest ==
    ASSUME NEW all, all \subseteq Row, IsFiniteSet(all)
    PROVE  /\ FirstRows(all) \subseteq all
           /\ \A x \in FirstRows(all), y \in all : Newer(y, x) => y \in FirstRows(all)
           /\ FirstRows(all) # all =>
                 LET last == NextCursor(all, FirstRows(all))
                 IN  last \in FirstRows(all) /\ \A y \in FirstRows(all) : y = last \/ Newer(y, last)
<1> DEFINE page == FirstRows(all)
<1> DEFINE N == Cardinality(all)
<1>0. N \in Nat /\ PageSize \in Nat /\ PageSize > 0
  BY FS_CardinalityType, FinanceAssumption
<1>1. page = {x \in all : Ahead(all, x) < PageSize}
  BY DEF FirstRows, Ahead
<1>2. /\ \A x \in all : Ahead(all, x) \in 0..N
      /\ \A x, y \in all : Newer(y, x) => Ahead(all, y) < Ahead(all, x)
  BY AheadCounts
<1> HIDE DEF page, N
<1>3. page \subseteq all /\ \A x \in page, y \in all : Newer(y, x) => y \in page
  BY <1>0, <1>1, <1>2
<1>4. ASSUME page # all PROVE \E x \in page : \A y \in page : y = x \/ Newer(y, x)
  <2>1. page # {}
    <3> DEFINE counts == {Ahead(all, x) : x \in all}
    <3>1. counts \subseteq Nat /\ counts # {}
      BY <1>0, <1>2, <1>3, <1>4
    <3>2. Min(counts) \in counts /\ \A k \in counts : Min(counts) <= k
      BY <3>1, MinOfNats
    <3>3. PICK x \in all : Ahead(all, x) = Min(counts)
      BY <3>2
    <3>4. \A y \in all : Ahead(all, x) <= Ahead(all, y)
      BY <3>2, <3>3
    <3>5. \A y \in all : ~Newer(y, x)
      BY <1>0, <1>2, <3>4
    <3>6. {y \in all : Newer(y, x)} = {}
      BY <3>5
    <3>7. Ahead(all, x) = 0
      BY <3>6, FS_EmptySet DEF Ahead
    <3> QED
      BY <1>0, <1>1, <3>7
  <2> DEFINE counts == {Ahead(all, x) : x \in page}
  <2>2. counts \subseteq 0..N /\ counts # {}
    BY <1>2, <1>3, <2>1
  <2>3. Max(counts) \in counts /\ \A k \in counts : k <= Max(counts)
    BY <1>0, <2>2, MaxOfBounded
  <2>4. PICK x \in page : Ahead(all, x) = Max(counts)
    BY <2>3
  <2>5. \A y \in page : Ahead(all, y) <= Ahead(all, x)
    BY <2>3, <2>4
  <2>6. \A y \in page : ~Newer(x, y)
    BY <1>0, <1>2, <1>3, <2>5
  <2> QED
    BY <1>3, <2>6, NewerOrders
<1> QED
  BY <1>3, <1>4 DEF NextCursor, page


\* A write moves the records it names; the rows of the others stay.
LEMMA OthersStay ==
    ASSUME RecordsTypeOK,
           \/ \E i \in Entries, d \in Drafts : CreateEntry(i, d) \/ UpdateEntry(i, d)
           \/ \E col \in Collections : \E I \in SUBSET In(col) : DeleteEntries(I, col)
    PROVE  \E I \in SUBSET Entries :
               /\ Moves(I)
               /\ \A i \in Entries \ I : entries'[i] # Absent =>
                      /\ entries[i] # Absent /\ RowOf(i, entries'[i]) = RowOf(i, entries[i])
                      /\ entries'[i].type = entries[i].type
<1>1. ASSUME NEW i \in Entries, NEW d \in Drafts, CreateEntry(i, d)
      PROVE  /\ Moves({i})
             /\ \A j \in Entries \ {i} : entries'[j] = entries[j]
  BY <1>1 DEF CreateEntry, RecordsTypeOK
<1>2. ASSUME NEW i \in Entries, NEW d \in Drafts, UpdateEntry(i, d)
      PROVE  \E I \in SUBSET Entries :
               /\ Moves(I)
               /\ \A j \in Entries \ I : entries'[j] # Absent =>
                      /\ entries[j] # Absent /\ RowOf(j, entries'[j]) = RowOf(j, entries[j])
                      /\ entries'[j].type = entries[j].type
  <2>1. /\ entries[i] # Absent
        /\ \A j \in Entries \ {i} : entries'[j] = entries[j]
        /\ entries'[i] = d
    BY <1>2 DEF UpdateEntry, RecordsTypeOK
  <2>2. CASE RowOf(i, d) = RowOf(i, entries[i])
    <3>1. Moves({})
      BY <1>2, <2>2 DEF UpdateEntry
    <3>2. d.type = entries[i].type
      BY <2>2 DEF RowOf
    <3>3. \A j \in Entries : entries'[j] # Absent =>
             entries[j] # Absent /\ RowOf(j, entries'[j]) = RowOf(j, entries[j]) /\ entries'[j].type = entries[j].type
      BY <2>1, <2>2, <3>2
    <3> QED
      BY <3>1, <3>3
  <2>3. CASE RowOf(i, d) # RowOf(i, entries[i])
    <3>1. Moves({i})
      BY <1>2, <2>3 DEF UpdateEntry
    <3> QED
      BY <2>1, <3>1
  <2> QED
    BY <2>2, <2>3
<1>3. ASSUME NEW col \in Collections, NEW I \in SUBSET In(col), DeleteEntries(I, col)
      PROVE  /\ Moves(I) /\ I \in SUBSET Entries
             /\ \A j \in Entries \ I : entries'[j] = entries[j]
  BY <1>3 DEF DeleteEntries, In
<1> QED
  BY <1>1, <1>2, <1>3

LEMMA RowTyped ==
    ASSUME RecordsTypeOK, NEW i \in Entries, entries[i] # Absent
    PROVE  RowOf(i, entries[i]) \in Row
<1>1. entries[i] \in Entry
  BY DraftIsEntry DEF RecordsTypeOK
<1> QED
  BY <1>1 DEF RowOf, Row, Entry

\* Writes keep the promise to what stays.
LEMMA WritesKeepFeed ==
    ASSUME RecordsTypeOK, FeedInv,
           \/ \E i \in Entries, d \in Drafts : CreateEntry(i, d) \/ UpdateEntry(i, d)
           \/ \E col \in Collections : \E I \in SUBSET In(col) : DeleteEntries(I, col)
    PROVE  FeedInv'
<1>1. PICK I \in SUBSET Entries :
               /\ Moves(I)
               /\ \A i \in Entries \ I : entries'[i] # Absent =>
                      /\ entries[i] # Absent /\ RowOf(i, entries'[i]) = RowOf(i, entries[i])
                      /\ entries'[i].type = entries[i].type
  BY OthersStay
<1>2. feed \in Feed /\ IsFiniteSet(feed.got)
  BY DEF FeedInv, FeedTypes
<1>3. /\ feed' \in Feed /\ feed'.types = feed.types /\ feed'.cursor = feed.cursor /\ feed'.pages = feed.pages
      /\ feed'.loading = feed.loading /\ feed'.unread = feed.unread /\ feed'.got = feed.got
      /\ feed'.moved = feed.moved \cup I
  BY <1>1, <1>2 DEF Moves, Feed
<1>4. \A i \in Stayed' : /\ i \in Stayed /\ RowOf(i, entries'[i]) = RowOf(i, entries[i])
                          /\ entries'[i].type = entries[i].type
  BY <1>1, <1>3 DEF Stayed
<1>5. FeedTypes' /\ NewestFirst' /\ CursorIsLast'
  BY <1>2, <1>3 DEF FeedInv, FeedTypes, NewestFirst, CursorIsLast
<1>6. HasWhatStayed'
  <2> SUFFICES ASSUME feed'.loading
               PROVE  /\ feed'.cursor # End
                      /\ \A i \in Stayed' : Collection[entries'[i].type] \notin feed'.unread
                                            => RowOf(i, entries'[i]) \in feed'.got
    BY DEF HasWhatStayed, RowOf
  <2> QED
    BY <1>3, <1>4 DEF FeedInv, HasWhatStayed
<1>7. NothingSkipped'
  <2> SUFFICES ASSUME NEW i \in Stayed', Wanted(RowOf(i, entries[i]))', Behind(RowOf(i, entries[i]))'
               PROVE  \E n \in DOMAIN feed'.pages : RowOf(i, entries'[i]) \in feed'.pages[n]
    BY DEF NothingSkipped, RowOf
  <2>1. Wanted(RowOf(i, entries[i])) /\ Behind(RowOf(i, entries[i]))
    BY <1>3, <1>4 DEF Wanted, Behind, RowOf, Newer
  <2> QED
    BY <1>3, <1>4, <2>1 DEF FeedInv, NothingSkipped
<1> QED
  BY <1>5, <1>6, <1>7 DEF FeedInv

LEMMA OpenKeepsFeed ==
    ASSUME RecordsTypeOK, FeedInv, NEW types \in Filters, OpenFeed(types)
    PROVE  FeedInv'
<1> DEFINE fresh == [types |-> types, cursor |-> Start, pages |-> <<>>, loading |-> TRUE,
                      unread |-> Collections, got |-> {}, moved |-> {}]
<1>1. feed' = fresh /\ entries' = entries
  BY DEF OpenFeed, records
<1>2. feed' \in Feed /\ IsFiniteSet(feed'.got)
  BY <1>1, FinanceAssumption, FS_EmptySet DEF Feed
<1>3. \A i \in Stayed' : Collection[entries'[i].type] \in feed'.unread
  BY <1>1, DraftIsEntry DEF Stayed, RecordsTypeOK
<1>4. Start # End /\ Start \notin Row
  BY AbsentAssumption
<1> QED
  BY <1>1, <1>2, <1>3, <1>4
     DEF FeedInv, FeedTypes, NewestFirst, CursorIsLast, HasWhatStayed, NothingSkipped, Behind

LEMMA LoadKeepsFeed ==
    ASSUME RecordsTypeOK, FeedInv, LoadMore
    PROVE  FeedInv'
<1>1. entries' = entries /\ feed.cursor # End
  BY DEF LoadMore, records
<1>2. feed \in Feed
  BY DEF FeedInv, FeedTypes
<1>3. /\ feed' \in Feed /\ feed'.types = feed.types /\ feed'.cursor = feed.cursor /\ feed'.pages = feed.pages
      /\ feed'.loading /\ feed'.unread = Collections /\ feed'.got = {} /\ feed'.moved = feed.moved
  BY <1>2 DEF LoadMore, Feed
<1>4. FeedTypes'
  BY <1>3, FS_EmptySet DEF FeedTypes
<1>5. Stayed' = Stayed /\ \A i \in Stayed : Collection[entries[i].type] \in feed'.unread
  BY <1>1, <1>3, DraftIsEntry DEF Stayed, RecordsTypeOK
<1>6. NewestFirst' /\ CursorIsLast' /\ HasWhatStayed'
  BY <1>1, <1>3, <1>5 DEF FeedInv, NewestFirst, CursorIsLast, HasWhatStayed
<1>7. NothingSkipped'
  BY <1>1, <1>3, <1>5 DEF FeedInv, NothingSkipped, Wanted, Behind
<1> QED
  BY <1>4, <1>6, <1>7 DEF FeedInv

\* Rows of different records are as many as the records at most.
LEMMA OneRowEach ==
    ASSUME NEW all, all \subseteq Row, \A x, y \in all : x.id = y.id => x = y
    PROVE  IsFiniteSet(all)
<1> DEFINE id == [x \in all |-> x.id]
<1>1. IsFiniteSet(Entries)
  BY FinanceAssumption
<1>2. id \in [all -> Entries]
  BY DEF Row
<1>3. id \in Injection(all, Entries)
  BY <1>2 DEF Injection, IsInjective
<1> HIDE DEF id
<1> QED
  BY <1>1, <1>3, FS_Injection

LEMMA RowsRead ==
    ASSUME RecordsTypeOK, NEW col \in Collections
    PROVE  LET read == {RowOf(i, entries[i]) : i \in In(col)}
           IN  read \subseteq Row /\ IsFiniteSet(read)
<1> DEFINE read == {RowOf(i, entries[i]) : i \in In(col)}
<1>1. read \subseteq Row
  BY RowTyped DEF In
<1>2. \A x, y \in read : x.id = y.id => x = y
  BY DEF RowOf
<1> HIDE DEF read
<1>3. IsFiniteSet(read)
  BY <1>1, <1>2, OneRowEach
<1> QED
  BY <1>1, <1>3 DEF read

LEMMA ReadKeepsFeed ==
    ASSUME RecordsTypeOK, FeedInv, NEW col \in Collections, ReadForFeed(col)
    PROVE  FeedInv'
<1> DEFINE read == {RowOf(i, entries[i]) : i \in In(col)}
<1>1. entries' = entries /\ read \subseteq Row /\ IsFiniteSet(read)
  BY RowsRead DEF ReadForFeed, records
<1>2. feed \in Feed /\ IsFiniteSet(feed.got)
  BY DEF FeedInv, FeedTypes
<1>3. feed' = [feed EXCEPT !.unread = @ \ {col}, !.got = @ \cup read]
  BY DEF ReadForFeed
<1>4. \A i \in Entries : entries[i] # Absent /\ Collection[entries[i].type] = col => RowOf(i, entries[i]) \in read
  BY DEF In
<1> HIDE DEF read
<1>5. /\ feed' \in Feed /\ feed'.types = feed.types /\ feed'.cursor = feed.cursor /\ feed'.pages = feed.pages
      /\ feed'.loading = feed.loading /\ feed'.unread = feed.unread \ {col} /\ feed'.got = feed.got \cup read
      /\ feed'.moved = feed.moved
  BY <1>1, <1>2, <1>3 DEF Feed
<1>6. FeedTypes'
  <2>1. IsFiniteSet(feed.got \cup read)
    BY <1>1, <1>2, FS_Union
  <2> QED
    BY <1>5, <2>1 DEF FeedTypes
<1>7. Stayed' = Stayed
  BY <1>1, <1>5 DEF Stayed
<1>8. NewestFirst' /\ CursorIsLast'
  BY <1>5 DEF FeedInv, NewestFirst, CursorIsLast
<1>9. HasWhatStayed'
  BY <1>1, <1>4, <1>5, <1>7 DEF FeedInv, HasWhatStayed, Stayed
<1>10. NothingSkipped'
  BY <1>1, <1>5, <1>7 DEF FeedInv, NothingSkipped, Wanted, Behind
<1> QED
  BY <1>6, <1>8, <1>9, <1>10 DEF FeedInv

\* A page shows what is next.
LEMMA PageKeepsFeed ==
    ASSUME RecordsTypeOK, FeedInv, ShowPage
    PROVE  FeedInv'
<1> DEFINE wanted == {x \in feed.got : Wanted(x)}
           rest == After(wanted, feed.cursor)
           page == FirstRows(rest)
<1>1. /\ entries' = entries /\ feed.loading /\ feed.unread = {}
      /\ feed' = [feed EXCEPT !.pages = Append(@, page), !.cursor = NextCursor(rest, page),
                              !.loading = FALSE, !.got = {}]
  BY DEF ShowPage, records, Wanted
<1>2. feed \in Feed /\ IsFiniteSet(feed.got) /\ feed.got \subseteq Row /\ feed.cursor \in Row \cup {Start}
      /\ feed.cursor # End /\ Start \notin Row /\ End \notin Row /\ Start # End
  BY <1>1, AbsentAssumption DEF FeedInv, FeedTypes, Feed, HasWhatStayed
<1>3. /\ rest \subseteq feed.got
      /\ \A x \in feed.got : x \in rest <=> Wanted(x) /\ (feed.cursor = Start \/ Newer(feed.cursor, x))
  BY DEF After
<1>4. rest \subseteq Row /\ IsFiniteSet(rest)
  BY <1>2, <1>3, FS_Subset
<1> HIDE DEF rest
<1>5. /\ page \subseteq rest
      /\ \A x \in page, y \in rest : Newer(y, x) => y \in page
      /\ page # rest => LET last == NextCursor(rest, page)
                        IN  last \in page /\ \A y \in page : y = last \/ Newer(y, last)
  BY <1>4, PageIsNewest
<1>6. page = rest => NextCursor(rest, page) = End
  BY DEF NextCursor
<1> DEFINE last == NextCursor(rest, page)
<1> HIDE DEF page, last
<1>7. last \in Row \cup {Start, End} /\ last # Start /\ (last = End <=> page = rest)
  BY <1>2, <1>4, <1>5, <1>6 DEF last
<1>8. page \in SUBSET Row /\ feed.pages \in Seq(SUBSET Row) /\ Append(feed.pages, page) \in Seq(SUBSET Row)
  BY <1>2, <1>4, <1>5 DEF Feed
<1>9. /\ feed' \in Feed /\ feed'.types = feed.types /\ feed'.cursor = last
      /\ feed'.pages = Append(feed.pages, page) /\ ~feed'.loading /\ feed'.got = {} /\ feed'.moved = feed.moved
  BY <1>1, <1>2, <1>7, <1>8 DEF Feed, last
<1> DEFINE k == Len(feed.pages)
<1>10. /\ k \in Nat /\ DOMAIN feed.pages = 1..k /\ DOMAIN feed'.pages = 1..(k + 1)
       /\ feed'.pages[k + 1] = page /\ \A n \in 1..k : feed'.pages[n] = feed.pages[n]
  BY <1>8, <1>9
<1> HIDE DEF k
<1>11. \A n \in 1..k : feed.pages[n] \subseteq Row
  BY <1>8, <1>10
\* what was shown is newer than the new page
<1>12. ASSUME NEW n \in 1..k, NEW x \in feed.pages[n], NEW y \in page PROVE Newer(x, y)
  <2>1. feed.cursor # Start
    BY <1>10 DEF FeedInv, CursorIsLast
  <2>2. feed.cursor \in Row /\ (x = feed.cursor \/ Newer(x, feed.cursor))
    BY <1>2, <1>10, <2>1 DEF FeedInv, CursorIsLast
  <2>3. Newer(feed.cursor, y) /\ y \in Row /\ x \in Row
    BY <1>3, <1>4, <1>5, <1>11, <2>1
  <2> QED
    BY <2>2, <2>3, NewerOrders
<1>13. FeedTypes'
  BY <1>9, FS_EmptySet DEF FeedTypes
<1>14. NewestFirst'
  <2> SUFFICES ASSUME NEW m \in 1..(k + 1), NEW n \in 1..(k + 1), m < n,
                      NEW x \in feed'.pages[m], NEW y \in feed'.pages[n]
               PROVE  Newer(x, y)
    BY <1>10 DEF NewestFirst
  <2>1. m \in 1..k /\ feed'.pages[m] = feed.pages[m]
    BY <1>10
  <2>2. CASE n = k + 1
    BY <1>10, <1>12, <2>1, <2>2
  <2>3. CASE n \in 1..k
    BY <1>10, <2>1, <2>3 DEF FeedInv, NewestFirst
  <2> QED
    BY <1>10, <2>2, <2>3
<1>15. CursorIsLast'
  <2>1. feed'.cursor # Start
    BY <1>7, <1>9
  <2> SUFFICES ASSUME last \in Row, NEW n \in 1..(k + 1), NEW x \in feed'.pages[n]
               PROVE  x = last \/ Newer(x, last)
    BY <1>9, <1>10, <2>1 DEF CursorIsLast
  <2>2. last \in page /\ \A y \in page : y = last \/ Newer(y, last)
    BY <1>2, <1>5, <1>7 DEF last
  <2>3. CASE n = k + 1
    BY <1>10, <2>2, <2>3
  <2>4. CASE n \in 1..k
    BY <1>10, <1>12, <2>2, <2>4
  <2> QED
    BY <1>10, <2>3, <2>4
<1>16. HasWhatStayed'
  BY <1>9 DEF HasWhatStayed
<1>17. NothingSkipped'
  <2>1. Stayed' = Stayed
    BY <1>1, <1>9 DEF Stayed
  <2> SUFFICES ASSUME NEW i \in Stayed, Wanted(RowOf(i, entries[i])),
                      last = End \/ ~Newer(last, RowOf(i, entries[i]))
               PROVE  \E n \in 1..(k + 1) : RowOf(i, entries[i]) \in feed'.pages[n]
    BY <1>1, <1>9, <1>10, <2>1 DEF NothingSkipped, Wanted, Behind
  <2> DEFINE x == RowOf(i, entries[i])
  <2>2. x \in feed.got /\ x \in Row
    BY <1>1, RowTyped DEF FeedInv, HasWhatStayed, Stayed
  <2>3. CASE feed.cursor # Start /\ ~Newer(feed.cursor, x)
    <3>1. \E n \in 1..k : x \in feed.pages[n]
      BY <1>10, <2>3 DEF FeedInv, NothingSkipped, Behind
    <3> QED
      BY <1>10, <3>1
  <2>4. CASE feed.cursor = Start \/ Newer(feed.cursor, x)
    <3>1. x \in rest
      BY <1>3, <2>2, <2>4
    <3>2. x \in page
      <4>1. CASE last = End
        BY <1>7, <3>1, <4>1
      <4>2. CASE last # End
        <5>1. last \in page /\ last \in Row /\ ~Newer(last, x)
          BY <1>4, <1>5, <1>7, <4>2 DEF last
        <5>2. x = last \/ Newer(x, last)
          BY <2>2, <5>1, NewerOrders
        <5> QED
          BY <1>5, <3>1, <5>1, <5>2
      <4> QED
        BY <4>1, <4>2
    <3> QED
      BY <1>10, <3>2
  <2> QED
    BY <2>3, <2>4
<1> QED
  BY <1>13, <1>14, <1>15, <1>16, <1>17 DEF FeedInv

LEMMA FeedKept ==
    ASSUME RecordsTypeOK, FeedInv, [FinNext]_vars
    PROVE  FeedInv'
<1>1. CASE UNCHANGED <<entries, feed>>
  BY <1>1 DEF FeedInv, FeedTypes, NewestFirst, CursorIsLast, HasWhatStayed, NothingSkipped, Stayed, Wanted, Behind
<1>2. \/ UNCHANGED <<entries, feed>>
      \/ \E i \in Entries, d \in Drafts : CreateEntry(i, d) \/ UpdateEntry(i, d)
      \/ \E col \in Collections : \E I \in SUBSET In(col) : DeleteEntries(I, col)
      \/ \E types \in Filters : OpenFeed(types)
      \/ LoadMore
      \/ \E col \in Collections : ReadForFeed(col)
      \/ ShowPage
  BY DEF FinNext, CreateReference, StartRemoval, CheckUse, FinishRemoval, StartAddition, FinishAddition,
         StartHome, ReadForHome, AnswerHome, records, calls, vars
<1> QED
  BY <1>1, <1>2, WritesKeepFeed, OpenKeepsFeed, LoadKeepsFeed, ReadKeepsFeed, PageKeepsFeed

LEMMA InitFeed == FinInit => FeedInv
<1> SUFFICES ASSUME FinInit PROVE FeedInv
  OBVIOUS
<1>1. feed = [types |-> {}, cursor |-> End, pages |-> <<>>, loading |-> FALSE, unread |-> {},
              got |-> {}, moved |-> Entries]
  BY DEF FinInit
<1>2. feed \in Feed /\ IsFiniteSet(feed.got)
  BY <1>1, FS_EmptySet DEF Feed
<1> QED
  BY <1>1, <1>2, AbsentAssumption
     DEF FeedInv, FeedTypes, NewestFirst, CursorIsLast, HasWhatStayed, NothingSkipped, Stayed

LEMMA FeedInductive ==
    /\ FinInit => Inv /\ FeedInv
    /\ Inv /\ FeedInv /\ [FinNext]_vars => (Inv /\ FeedInv)'
BY Inductive, InitFeed, FeedKept DEF Inv

\* Every variable of Finance keeps its type: the records, the handlers at work on
\* them, and the feed with its pages and cursor.
THEOREM TypeCorrect == FinSpec => []FinTypeOK
<1>1. Inv /\ FeedInv => FinTypeOK
  BY DEF Inv, FeedInv, FeedTypes, FinTypeOK
<1> QED
  BY <1>1, FeedInductive, PTL DEF FinSpec

\* ledger.ts and ActivityFeed.tsx: the pages shown run from newest to oldest, and no
\* record that stayed where it was is shown twice or skipped, whatever is written
\* between two pages.
THEOREM ShownPageByPage == FinSpec => []FeedShowsEachOnce
<1>1. Inv /\ FeedInv => FeedShowsEachOnce
  BY DEF FeedInv, NewestFirst, NothingSkipped, FeedShowsEachOnce, Stayed, Wanted, Behind
<1> QED
  BY <1>1, FeedInductive, PTL DEF FinSpec

-----------------------------------------------------------------------------
(* Sums over finite sets *)

\* Of sets that are in B some is smallest: induction over the subsets of S.
LEMMA SmallestOf ==
    ASSUME NEW S, IsFiniteSet(S), NEW B, B \subseteq SUBSET S, B # {}
    PROVE  \E s \in B : \A x \in s : s \ {x} \notin B
<1> DEFINE sizes == {Cardinality(s) : s \in B}
<1>1. \A s \in B : IsFiniteSet(s) /\ Cardinality(s) \in Nat
  BY FS_Subset, FS_CardinalityType
<1>2. sizes \subseteq Nat /\ sizes # {}
  BY <1>1
<1>3. Min(sizes) \in sizes /\ \A k \in sizes : Min(sizes) <= k
  BY <1>2, MinOfNats
<1>4. PICK s \in B : Cardinality(s) = Min(sizes)
  BY <1>3
<1>5. ASSUME NEW x \in s, s \ {x} \in B PROVE FALSE
  <2>1. Cardinality(s \ {x}) = Cardinality(s) - 1
    BY <1>1, <1>5, FS_RemoveElement
  <2>2. Cardinality(s) <= Cardinality(s \ {x})
    BY <1>3, <1>4, <1>5
  <2> QED
    BY <1>1, <1>5, <2>1, <2>2
<1> QED
  BY <1>5

Pick(s) == CHOOSE x \in s : TRUE

\* g[s] is the sum of f over s, for every s in D.
Sums(g, f, D) == g = [s \in D |-> IF s = {} THEN 0 ELSE f[Pick(s)] + g[s \ {Pick(s)}]]

\* The recursion of the fold defines a function: it does on the subsets of at most
\* n elements, and on those of one more.
LEMMA SumsExist ==
    ASSUME NEW f, NEW S, IsFiniteSet(S)
    PROVE  \E g : Sums(g, f, SUBSET S)
<1> DEFINE Below(n) == {s \in SUBSET S : Cardinality(s) <= n}
           Bad == {n \in Nat : ~ \E g : Sums(g, f, Below(n))}
<1>0. \A s \in SUBSET S : IsFiniteSet(s) /\ Cardinality(s) \in Nat /\ Cardinality(s) <= Cardinality(S)
  BY FS_Subset, FS_CardinalityType
<1>1. 0 \notin Bad
  <2>1. \A s \in Below(0) : s = {}
    <3> TAKE s \in Below(0)
    <3>1. IsFiniteSet(s) /\ Cardinality(s) = 0
      BY <1>0
    <3> QED
      BY <3>1, FS_EmptySet
  <2>2. Sums([s \in Below(0) |-> 0], f, Below(0))
    BY <2>1 DEF Sums
  <2> QED
    BY <2>2
<1>2. ASSUME NEW n \in Nat, n \notin Bad PROVE n + 1 \notin Bad
  <2>1. PICK g : Sums(g, f, Below(n))
    BY <1>2
  <2> DEFINE h == [s \in Below(n + 1) |-> IF s = {} THEN 0 ELSE f[Pick(s)] + g[s \ {Pick(s)}]]
  <2>2. ASSUME NEW s \in Below(n) PROVE s \in Below(n + 1) /\ h[s] = g[s]
    <3>1. s \in Below(n + 1)
      BY <1>0
    <3> QED
      BY <2>1, <3>1 DEF Sums
  <2>3. ASSUME NEW s \in Below(n + 1), s # {} PROVE s \ {Pick(s)} \in Below(n)
    <3>1. Pick(s) \in s
      BY <2>3 DEF Pick
    <3>2. Cardinality(s \ {Pick(s)}) = Cardinality(s) - 1
      BY <1>0, <3>1, FS_RemoveElement
    <3> QED
      BY <1>0, <3>2
  <2> HIDE DEF Below
  <2>4. Sums(h, f, Below(n + 1))
    BY <2>2, <2>3 DEF Sums
  <2> QED
    BY <2>4
<1> HIDE DEF Bad
<1>3. Bad = {}
  <2>1. SUFFICES ASSUME Bad # {} PROVE FALSE
    OBVIOUS
  <2>2. Bad \subseteq Nat
    BY DEF Bad
  <2>3. PICK m \in Nat : m \in Bad /\ \A k \in Bad : m <= k
    BY <2>1, <2>2, MinOfNats
  <2>4. m # 0 /\ m - 1 \in Nat /\ m - 1 \notin Bad /\ (m - 1) + 1 = m
    BY <1>1, <2>3
  <2> QED
    BY <1>2, <2>3, <2>4
<1>4. Cardinality(S) \in Nat /\ Below(Cardinality(S)) = SUBSET S
  BY <1>0, FS_CardinalityType
<1> QED
  BY <1>3, <1>4 DEF Bad

\* What it gives for a set does not depend on the set it is defined on.
LEMMA SumsAgree ==
    ASSUME NEW f, NEW g, NEW h, NEW S, NEW T, IsFiniteSet(S),
           Sums(g, f, SUBSET S), Sums(h, f, SUBSET T)
    PROVE  \A s \in SUBSET (S \cap T) : g[s] = h[s]
<1> DEFINE B == {s \in SUBSET (S \cap T) : g[s] # h[s]}
<1>1. SUFFICES ASSUME B # {} PROVE FALSE
  OBVIOUS
<1>2. B \subseteq SUBSET S
  OBVIOUS
<1> HIDE DEF B
<1>3. PICK s \in B : \A x \in s : s \ {x} \notin B
  BY <1>1, <1>2, SmallestOf
<1> USE DEF B
<1>4. /\ g[s] = IF s = {} THEN 0 ELSE f[Pick(s)] + g[s \ {Pick(s)}]
      /\ h[s] = IF s = {} THEN 0 ELSE f[Pick(s)] + h[s \ {Pick(s)}]
  BY DEF Sums
<1>5. s # {} => Pick(s) \in s
  BY DEF Pick
<1>6. s # {} => g[s \ {Pick(s)}] = h[s \ {Pick(s)}]
  BY <1>3, <1>5
<1> QED
  BY <1>4, <1>6

LEMMA SumIsOf ==
    ASSUME NEW f, NEW S, IsFiniteSet(S)
    PROVE  \E g : Sums(g, f, SUBSET S) /\ SumFunctionOnSet(f, S) = g[S]
<1> DEFINE G == CHOOSE g : g = [s \in SUBSET S |-> IF s = {} THEN 0 ELSE f[Pick(s)] + g[s \ {Pick(s)}]]
<1>1. SumFunctionOnSet(f, S) = G[S]
  BY Zenon DEF SumFunctionOnSet, FoldFunctionOnSet, MapThenFoldSet, Pick
<1>2. Sums(G, f, SUBSET S)
  <2>1. \E g : g = [s \in SUBSET S |-> IF s = {} THEN 0 ELSE f[Pick(s)] + g[s \ {Pick(s)}]]
    <3>1. PICK h : Sums(h, f, SUBSET S)
      BY SumsExist
    <3>2. h = [s \in SUBSET S |-> IF s = {} THEN 0 ELSE f[Pick(s)] + h[s \ {Pick(s)}]]
      BY <3>1, Zenon DEF Sums
    <3> QED
      BY <3>2, Zenon
  <2>2. G = [s \in SUBSET S |-> IF s = {} THEN 0 ELSE f[Pick(s)] + G[s \ {Pick(s)}]]
    BY <2>1, Zenon
  <2> QED
    BY <2>2, Zenon DEF Sums
<1> QED
  BY <1>1, <1>2

LEMMA SumOfNone == ASSUME NEW f PROVE SumFunctionOnSet(f, {}) = 0
<1>1. PICK g : Sums(g, f, SUBSET {}) /\ SumFunctionOnSet(f, {}) = g[{}]
  BY SumIsOf, FS_EmptySet
<1> QED
  BY <1>1 DEF Sums

LEMMA SumUnfolds ==
    ASSUME NEW f, NEW S, IsFiniteSet(S)
    PROVE  S = {} \/ /\ Pick(S) \in S
                     /\ SumFunctionOnSet(f, S) = f[Pick(S)] + SumFunctionOnSet(f, S \ {Pick(S)})
<1>2. ASSUME S # {}
      PROVE  Pick(S) \in S /\ SumFunctionOnSet(f, S) = f[Pick(S)] + SumFunctionOnSet(f, S \ {Pick(S)})
  <2>1. Pick(S) \in S /\ IsFiniteSet(S \ {Pick(S)})
    BY <1>2, FS_Subset DEF Pick
  <2>2. PICK g : Sums(g, f, SUBSET S) /\ SumFunctionOnSet(f, S) = g[S]
    BY SumIsOf
  <2>3. PICK h : /\ Sums(h, f, SUBSET (S \ {Pick(S)}))
                 /\ SumFunctionOnSet(f, S \ {Pick(S)}) = h[S \ {Pick(S)}]
    BY <2>1, SumIsOf
  <2>4. g[S \ {Pick(S)}] = h[S \ {Pick(S)}]
    <3>1. PICK T : T = S \ {Pick(S)}
      OBVIOUS
    <3>2. \A s \in SUBSET (S \cap T) : g[s] = h[s]
      BY <2>2, <2>3, <3>1, SumsAgree
    <3> QED
      BY <3>1, <3>2
  <2>5. g[S] = f[Pick(S)] + g[S \ {Pick(S)}]
    BY <1>2, <2>2 DEF Sums
  <2> QED
    BY <2>1, <2>2, <2>3, <2>4, <2>5
<1> QED
  BY <1>2

LEMMA SumIsNat ==
    ASSUME NEW f, NEW S, IsFiniteSet(S), \A x \in S : f[x] \in Nat
    PROVE  SumFunctionOnSet(f, S) \in Nat
<1> DEFINE B == {s \in SUBSET S : SumFunctionOnSet(f, s) \notin Nat}
<1>1. SUFFICES ASSUME B # {} PROVE FALSE
  OBVIOUS
<1>2. PICK s \in B : \A x \in s : s \ {x} \notin B
  BY <1>1, SmallestOf
<1>3. IsFiniteSet(s)
  BY FS_Subset
<1>4. s # {}
  BY SumOfNone
<1>5. Pick(s) \in s /\ SumFunctionOnSet(f, s) = f[Pick(s)] + SumFunctionOnSet(f, s \ {Pick(s)})
  BY <1>3, <1>4, SumUnfolds
<1>6. SumFunctionOnSet(f, s \ {Pick(s)}) \in Nat
  BY <1>2, <1>5
<1> QED
  BY <1>5, <1>6

\* Any element may be taken out, not only the one the fold begins with.
LEMMA SumTakesOut ==
    ASSUME NEW f, NEW S, IsFiniteSet(S), \A x \in S : f[x] \in Nat, NEW a \in S
    PROVE  SumFunctionOnSet(f, S) = f[a] + SumFunctionOnSet(f, S \ {a})
<1> DEFINE B == {s \in SUBSET S : \E b \in s : SumFunctionOnSet(f, s) # f[b] + SumFunctionOnSet(f, s \ {b})}
<1>1. SUFFICES ASSUME B # {} PROVE FALSE
  OBVIOUS
<1>2. PICK s \in B : \A x \in s : s \ {x} \notin B
  BY <1>1, SmallestOf
<1>3. PICK b \in s : SumFunctionOnSet(f, s) # f[b] + SumFunctionOnSet(f, s \ {b})
  OBVIOUS
<1>4. \A r \in SUBSET S : IsFiniteSet(r) /\ SumFunctionOnSet(f, r) \in Nat
  BY FS_Subset, SumIsNat
<1>5. PICK c \in s : c = Pick(s) /\ SumFunctionOnSet(f, s) = f[c] + SumFunctionOnSet(f, s \ {c})
  BY <1>3, <1>4, SumUnfolds
<1>6. b # c
  BY <1>3, <1>5
<1>7. b \in s \ {c} /\ c \in s \ {b} /\ (s \ {c}) \ {b} = (s \ {b}) \ {c}
  BY <1>6
<1>8. SumFunctionOnSet(f, s \ {c}) = f[b] + SumFunctionOnSet(f, (s \ {c}) \ {b})
  BY <1>2, <1>7
<1>9. SumFunctionOnSet(f, s \ {b}) = f[c] + SumFunctionOnSet(f, (s \ {b}) \ {c})
  BY <1>2, <1>7
<1>10. f[b] \in Nat /\ f[c] \in Nat /\ SumFunctionOnSet(f, (s \ {c}) \ {b}) \in Nat
  BY <1>4
<1> QED
  BY <1>3, <1>5, <1>7, <1>8, <1>9, <1>10

\* Only the values on the set matter.
LEMMA SumOfSame ==
    ASSUME NEW f, NEW g, NEW S, IsFiniteSet(S), \A x \in S : f[x] = g[x]
    PROVE  SumFunctionOnSet(f, S) = SumFunctionOnSet(g, S)
<1> DEFINE B == {s \in SUBSET S : SumFunctionOnSet(f, s) # SumFunctionOnSet(g, s)}
<1>1. SUFFICES ASSUME B # {} PROVE FALSE
  OBVIOUS
<1>2. PICK s \in B : \A x \in s : s \ {x} \notin B
  BY <1>1, SmallestOf
<1>3. IsFiniteSet(s)
  BY FS_Subset
<1>4. s # {}
  BY SumOfNone
<1>5. /\ Pick(s) \in s
      /\ SumFunctionOnSet(f, s) = f[Pick(s)] + SumFunctionOnSet(f, s \ {Pick(s)})
      /\ SumFunctionOnSet(g, s) = g[Pick(s)] + SumFunctionOnSet(g, s \ {Pick(s)})
  BY <1>3, <1>4, SumUnfolds
<1> QED
  BY <1>2, <1>5

LEMMA SumOfZeros ==
    ASSUME NEW f, NEW S, IsFiniteSet(S), \A x \in S : f[x] = 0
    PROVE  SumFunctionOnSet(f, S) = 0
<1> DEFINE B == {s \in SUBSET S : SumFunctionOnSet(f, s) # 0}
<1>1. SUFFICES ASSUME B # {} PROVE FALSE
  OBVIOUS
<1>2. PICK s \in B : \A x \in s : s \ {x} \notin B
  BY <1>1, SmallestOf
<1>3. IsFiniteSet(s)
  BY FS_Subset
<1>4. s # {}
  BY SumOfNone
<1>5. Pick(s) \in s /\ SumFunctionOnSet(f, s) = f[Pick(s)] + SumFunctionOnSet(f, s \ {Pick(s)})
  BY <1>3, <1>4, SumUnfolds
<1> QED
  BY <1>2, <1>5

\* The sums of the parts of a set, one for each group in K, are its sum.
Part(group, s, c) == {x \in s : group[x] = c}
PartSums(f, group, s, K) == [c \in K |-> SumFunctionOnSet(f, Part(group, s, c))]

LEMMA SumOfParts ==
    ASSUME NEW f, NEW group, NEW S, IsFiniteSet(S), \A x \in S : f[x] \in Nat,
           NEW K, IsFiniteSet(K), \A x \in S : group[x] \in K
    PROVE  SumFunctionOnSet(PartSums(f, group, S, K), K) = SumFunctionOnSet(f, S)
<1> DEFINE P(s) == PartSums(f, group, s, K)
           B == {s \in SUBSET S : SumFunctionOnSet(P(s), K) # SumFunctionOnSet(f, s)}
<1>1. SUFFICES ASSUME B # {} PROVE FALSE
  OBVIOUS
<1>2. PICK s \in B : \A x \in s : s \ {x} \notin B
  BY <1>1, SmallestOf
<1>3. \A r \in SUBSET S : IsFiniteSet(r) /\ SumFunctionOnSet(f, r) \in Nat
  BY FS_Subset, SumIsNat
<1>4. ASSUME NEW r \in SUBSET S, NEW c \in K
      PROVE  P(r)[c] = SumFunctionOnSet(f, Part(group, r, c)) /\ P(r)[c] \in Nat
  <2>1. Part(group, r, c) \in SUBSET S
    BY DEF Part
  <2> QED
    BY <1>3, <2>1 DEF PartSums
<1>5. CASE s = {}
  <2>1. \A c \in K : P(s)[c] = 0
    <3> TAKE c \in K
    <3>1. Part(group, s, c) = {}
      BY <1>5 DEF Part
    <3> QED
      BY <1>4, <3>1, SumOfNone
  <2>2. SumFunctionOnSet(P(s), K) = 0
    BY <2>1, SumOfZeros
  <2> QED
    BY <1>5, <2>2, SumOfNone
<1>6. CASE s # {}
  <2>1. PICK a \in s : TRUE
    BY <1>6
  <2> DEFINE r == s \ {a}
             k == group[a]
  <2>2. r \in SUBSET S /\ k \in K /\ a \in S
    OBVIOUS
  <2>3. SumFunctionOnSet(P(r), K) = SumFunctionOnSet(f, r)
    BY <1>2, <2>2
  <2>4. SumFunctionOnSet(f, s) = f[a] + SumFunctionOnSet(f, r)
    BY <1>3, SumTakesOut
  <2>5. \A q \in SUBSET S : SumFunctionOnSet(P(q), K) = P(q)[k] + SumFunctionOnSet(P(q), K \ {k})
    <3> TAKE q \in SUBSET S
    <3> HIDE DEF P
    <3> QED
      BY <1>4, <2>2, SumTakesOut
  <2>6. SumFunctionOnSet(P(s), K \ {k}) = SumFunctionOnSet(P(r), K \ {k})
    <3>1. ASSUME NEW c \in K \ {k} PROVE P(s)[c] = P(r)[c]
      <4>1. Part(group, s, c) = Part(group, r, c)
        BY DEF Part
      <4> QED
        BY <1>4, <2>2, <4>1
    <3>2. IsFiniteSet(K \ {k})
      BY FS_Subset
    <3> HIDE DEF P
    <3> QED
      BY <3>1, <3>2, SumOfSame
  <2>7. P(s)[k] = f[a] + P(r)[k]
    <3>1. Part(group, s, k) \in SUBSET S /\ a \in Part(group, s, k)
          /\ Part(group, s, k) \ {a} = Part(group, r, k)
      BY DEF Part
    <3>a. PICK p \in SUBSET S : p = Part(group, s, k)
      BY <3>1
    <3>b. a \in p /\ IsFiniteSet(p) /\ \A x \in p : f[x] \in Nat
      BY <1>3, <3>1, <3>a
    <3>c. SumFunctionOnSet(f, p) = f[a] + SumFunctionOnSet(f, p \ {a})
      BY ONLY <3>b, SumTakesOut
    <3>2. SumFunctionOnSet(f, Part(group, s, k)) = f[a] + SumFunctionOnSet(f, Part(group, r, k))
      BY <3>1, <3>a, <3>c
    <3> QED
      BY <1>4, <2>2, <3>2
  <2>8. f[a] \in Nat /\ P(r)[k] \in Nat
    BY <1>4, <2>2
  <2>9. SumFunctionOnSet(P(r), K \ {k}) \in Nat
    <3>1. IsFiniteSet(K \ {k}) /\ \A c \in K \ {k} : P(r)[c] \in Nat
      BY <1>4, <2>2, FS_Subset
    <3> HIDE DEF P
    <3> QED
      BY <3>1, SumIsNat
  <2>10. SumFunctionOnSet(P(s), K) = SumFunctionOnSet(f, s)
    <3> HIDE DEF P, r, k
    <3> QED
      BY <2>2, <2>3, <2>4, <2>5, <2>6, <2>7, <2>8, <2>9
  <2> QED
    BY <2>10
<1> QED
  BY <1>5, <1>6

-----------------------------------------------------------------------------
(* The figures of Home *)

\* What Home has read of the transactions is finite.
HomeIsFinite == homeCall # Absent => IsFiniteSet(homeCall.tx)

LEMMA HomeStaysFinite ==
    ASSUME RecordsTypeOK, HomeIsFinite, [FinNext]_vars
    PROVE  HomeIsFinite'
<1>1. ASSUME NEW col \in {"transactions", "categories"}, ReadForHome(col) PROVE HomeIsFinite'
  <2>1. homeCall # Absent /\ homeCall \in HomeCall
    BY <1>1 DEF ReadForHome, RecordsTypeOK
  <2>2. IsFiniteSet({[id |-> i, entry |-> entries[i]] : i \in In(col)})
    <3> DEFINE read == [i \in In(col) |-> [id |-> i, entry |-> entries[i]]]
    <3>1. IsFiniteSet(In(col))
      BY FinanceAssumption, FS_Subset DEF In
    <3>2. read \in Surjection(In(col), {[id |-> i, entry |-> entries[i]] : i \in In(col)})
      BY DEF Surjection
    <3> QED
      BY <3>1, <3>2, FS_Surjection
  <2>3. CASE col = "categories"
    BY <1>1, <2>1, <2>3 DEF ReadForHome, HomeCall, HomeIsFinite
  <2>4. CASE col # "categories"
    BY <1>1, <2>1, <2>2, <2>4 DEF ReadForHome, HomeCall, HomeIsFinite
  <2> QED
    BY <2>3, <2>4
<1>2. CASE StartHome
  BY <1>2, FS_EmptySet DEF StartHome, HomeIsFinite
<1>3. CASE AnswerHome
  BY <1>3 DEF AnswerHome, HomeIsFinite
<1>4. ASSUME UNCHANGED homeCall PROVE HomeIsFinite'
  BY <1>4 DEF HomeIsFinite
<1> QED
  BY <1>1, <1>2, <1>3, <1>4
     DEF FinNext, vars, calls, CreateReference, CreateEntry, UpdateEntry, DeleteEntries, StartRemoval, CheckUse,
         FinishRemoval, StartAddition, FinishAddition, OpenFeed, LoadMore, ReadForFeed, ShowPage

\* Totals of the groups of some transactions, for any groups that have them all.
LEMMA TotalsAddUp ==
    ASSUME NEW tx, IsFiniteSet(tx), \A t \in tx : Amount[t.id] \in Nat,
           NEW group, NEW K, IsFiniteSet(K), \A t \in tx : group[t] \in K
    PROVE  SumFunction([c \in K |-> Total({t \in tx : group[t] = c})]) = Total(tx)
<1> DEFINE worth == [t \in tx |-> Amount[t.id]]
           sums == [c \in K |-> Total({t \in tx : group[t] = c})]
<1>1. \A s \in SUBSET tx : Total(s) = SumFunctionOnSet(worth, s)
  <2> TAKE s \in SUBSET tx
  <2>1. IsFiniteSet(s)
    BY FS_Subset
  <2>2. \A t \in s : [u \in s |-> Amount[u.id]][t] = worth[t]
    OBVIOUS
  <2>3. DOMAIN [u \in s |-> Amount[u.id]] = s
    OBVIOUS
  <2> HIDE DEF worth
  <2> QED
    BY <2>1, <2>2, <2>3, SumOfSame DEF Total, SumFunction
<1>2. \A c \in K : sums[c] = PartSums(worth, group, tx, K)[c]
  BY <1>1 DEF PartSums, Part
<1>3. SumFunction(sums) = SumFunctionOnSet(PartSums(worth, group, tx, K), K)
  <2>1. DOMAIN sums = K
    OBVIOUS
  <2> HIDE DEF sums, worth
  <2> QED
    BY <1>2, <2>1, SumOfSame DEF SumFunction
<1>4. \A t \in tx : worth[t] \in Nat
  OBVIOUS
<1> HIDE DEF worth
<1>5. SumFunctionOnSet(PartSums(worth, group, tx, K), K) = SumFunctionOnSet(worth, tx)
  BY <1>4, SumOfParts
<1> QED
  BY <1>1, <1>3, <1>5

\* dashboard.controller.ts "A number can only ever be computed one way": whatever was
\* written between the reads of one answer, and whatever categories are gone, the
\* breakdown and the trend of Home add up to its totals.
THEOREM HomeFiguresAgree == FinSpec => []HomeAddsUp
<1>1. FinInit => HomeIsFinite
  BY DEF FinInit, HomeIsFinite
<1>2. RecordsTypeOK /\ HomeIsFinite => HomeAddsUp
  <2> SUFFICES ASSUME RecordsTypeOK, HomeIsFinite, homeCall # Absent
               PROVE  HomeAddsUp
    BY DEF HomeAddsUp
  <2> DEFINE tx == homeCall.tx
             spent == OfType(tx, "expense")
             parts == Breakdown(tx, homeCall.cats)
             months == Trend(tx)
  <2>1. IsFiniteSet(tx) /\ tx \subseteq [id : Entries, entry : Entry]
    BY DEF HomeIsFinite, RecordsTypeOK, HomeCall
  <2>2. \A t \in tx : Amount[t.id] \in Nat
    BY <2>1, FinanceAssumption
  <2> HIDE DEF tx
  <2>3. \A type : IsFiniteSet(OfType(tx, type)) /\ OfType(tx, type) \subseteq tx
    BY <2>1, FS_Subset DEF OfType
  <2>4. SumFunction([c \in DOMAIN parts |-> parts[c].total]) = Total(spent)
    <3> DEFINE group == [t \in spent |-> t.entry.category]
               K == {t.entry.category : t \in spent}
    <3>1. IsFiniteSet(K)
      <4>1. group \in Surjection(spent, K)
        BY DEF Surjection
      <4> QED
        BY <2>3, <4>1, FS_Surjection
    <3>2. DOMAIN parts = K /\ \A c \in K : parts[c].total = Total({t \in spent : t.entry.category = c})
      BY DEF Breakdown
    <3>3. \A c : {t \in spent : t.entry.category = c} = {t \in spent : group[t] = c}
      OBVIOUS
    <3>4. \A t \in spent : group[t] \in K
      OBVIOUS
    <3> HIDE DEF group, K, spent, parts
    <3>5. [c \in DOMAIN parts |-> parts[c].total] = [c \in K |-> Total({t \in spent : group[t] = c})]
      BY <3>2, <3>3
    <3>6. IsFiniteSet(spent) /\ \A t \in spent : Amount[t.id] \in Nat
      BY <2>2, <2>3 DEF spent
    <3> QED
      BY <3>1, <3>4, <3>5, <3>6, TotalsAddUp
  <2>5. ASSUME NEW type \in {"income", "expense"}
        PROVE  SumFunction([m \in DOMAIN months |-> months[m][type]]) = Total(OfType(tx, type))
    <3> DEFINE of == OfType(tx, type)
               group == [t \in of |-> t.entry.at]
               at == [t \in tx |-> t.entry.at]
               K == {t.entry.at : t \in tx}
    <3>1. IsFiniteSet(K)
      <4>1. at \in Surjection(tx, K)
        BY DEF Surjection
      <4> QED
        BY <2>1, <4>1, FS_Surjection
    <3>2. DOMAIN months = K /\ \A m \in K : months[m][type] = Total({t \in of : t.entry.at = m})
      BY DEF Trend
    <3>3. \A m : {t \in of : t.entry.at = m} = {t \in of : group[t] = m}
      OBVIOUS
    <3>4. \A t \in of : group[t] \in K
      BY <2>3
    <3> HIDE DEF group, K, of, months
    <3>5. [m \in DOMAIN months |-> months[m][type]] = [m \in K |-> Total({t \in of : group[t] = m})]
      BY <3>2, <3>3
    <3>6. IsFiniteSet(of) /\ \A t \in of : Amount[t.id] \in Nat
      BY <2>2, <2>3 DEF of
    <3> QED
      BY <3>1, <3>4, <3>5, <3>6, TotalsAddUp DEF of
  <2> QED
    BY <2>4, <2>5 DEF HomeAddsUp, tx
<1> QED
  BY <1>1, <1>2, HomeStaysFinite, Inductive, PTL DEF FinSpec, Inv

-----------------------------------------------------------------------------
(* The types of the save path *)

\* Every form has at most two keys: the one it opens with and the one it leaves.
Unused == IF (form # Nil /\ form.kind = "new") \/ (save # Nil /\ save.kind = "new") THEN 1 ELSE 0
KeysSuffice == keyRef + Unused <= 2 * opened

\* A run that has an answer has an entry that it is for.
AnswerIsForOne == flush # Nil /\ flush.step \in {"ok", "refused"} => Todo # {}

SaveTypes == SaveTypeOK /\ KeysSuffice /\ AnswerIsForOne

\* The entry a run is at.
LEMMA AtEntry ==
    ASSUME SaveTypeOK, flush # Nil, Todo # {}
    PROVE  /\ Min(Todo) \in Todo /\ Min(Todo) \in Forms /\ Min(Todo) \in Nat
           /\ flush.items[Min(Todo)] \in Item
           /\ \A m \in Todo : Min(Todo) <= m
<1>1. Todo \subseteq Nat /\ Todo \subseteq Forms
  BY DEF Todo, Forms
<1>2. \A n \in Todo : flush.items[n] \in Item
  BY DEF SaveTypeOK, Run, Todo
<1> QED
  BY <1>1, <1>2, MinOfNats

\* The oldest entry that waits.
LEMMA OldestWaits ==
    ASSUME SaveTypeOK, Pending # {}
    PROVE  /\ Min(Pending) \in Pending /\ Min(Pending) \in Forms /\ Min(Pending) \in Nat
           /\ queue[Min(Pending)] \in Item
           /\ \A m \in Pending : Min(Pending) <= m
<1>1. Pending \subseteq Nat /\ Pending \subseteq Forms
  BY DEF Pending, Forms
<1>2. \A n \in Pending : queue[n] \in Item
  BY DEF SaveTypeOK, Pending
<1> QED
  BY <1>1, <1>2, MinOfNats

\* Saves and runs go from step to step.
LEMMA SaveGoesOn ==
    ASSUME NEW s \in Save,
           NEW step \in {"post", "taken", "lost", "refused", "store", "announce", "keep", "kept"}
    PROVE  /\ [s EXCEPT !.step = step] \in Save
           /\ [s EXCEPT !.step = step].step = step
           /\ [s EXCEPT !.step = step].n = s.n /\ [s EXCEPT !.step = step].kind = s.kind
           /\ [s EXCEPT !.step = step].key = s.key /\ [s EXCEPT !.step = step].body = s.body
           /\ [s EXCEPT !.step = step] # Nil
  BY NilIsNoValue DEF Save

LEMMA RunGoesOn ==
    ASSUME NEW r \in Run, NEW step \in {"read", "next", "ok", "refused", "end"}
    PROVE  /\ [r EXCEPT !.step = step] \in Run
           /\ [r EXCEPT !.step = step].step = step
           /\ [r EXCEPT !.step = step].items = r.items
           /\ [r EXCEPT !.step = step].synced = r.synced
           /\ [r EXCEPT !.step = step] # Nil
  BY NilIsNoValue DEF Run

\* A run that begins.
LEMMA RunBegins ==
    /\ NewRun \in Run /\ NewRun # Nil /\ NewRun.step = "read" /\ NewRun.synced = {}
    /\ \A n \in Forms : NewRun.items[n] = Nil
  BY NilIsNoValue DEF NewRun, Run, Nothing

LEMMA RunRequested ==
    ASSUME SaveTypeOK, RequestFlush
    PROVE  /\ flush' \in Run /\ flush' # Nil /\ again' \in BOOLEAN
           /\ flush' = flush \/ (flush = Nil /\ flush' = NewRun)
  BY RunBegins DEF RequestFlush, SaveTypeOK

\* What the server takes.
LEMMA TakenTyped ==
    ASSUME SaveTypeOK, NEW n \in Forms, NEW item, item.key \in Keys, item.body \subseteq Forms,
           Take(n, item)
    PROVE  created' \subseteq Forms \X Keys /\ record' \subseteq Forms /\ applied' \subseteq Forms
  BY DEF Take, SaveTypeOK

\* Giving up a save or a form takes no key.
LEMMA StillSuffices ==
    ASSUME keyRef \in Nat, opened \in Nat, KeysSuffice, keyRef' = keyRef, opened' = opened,
           form' = form \/ form' = Nil, save' = save \/ save' = Nil
    PROVE  KeysSuffice'
<1>1. Unused \in {0, 1} /\ Unused' \in {0, 1} /\ (Unused' = 1 => Unused = 1)
  BY DEF Unused
<1>2. CASE Unused' = 0
  <2>1. keyRef <= 2 * opened
    BY <1>1 DEF KeysSuffice
  <2> QED
    BY <1>2, <2>1 DEF KeysSuffice
<1>3. CASE Unused' = 1
  BY <1>1, <1>3 DEF KeysSuffice
<1> QED
  BY <1>1, <1>2, <1>3

\* What each step of persistTransaction() does to the save, the form and the key.
LEMMA SaveStepTypes ==
    ASSUME SaveTypes, SaveStep
    PROVE  SaveTypes'
<1>1. SaveTypeOK /\ KeysSuffice /\ keyRef \in Nat /\ opened \in Nat /\ MaxForms \in Nat
  BY SaveAssumption DEF SaveTypes, SaveTypeOK, Keys
<1>2. save # Nil /\ save \in Save
  BY DEF SaveStep, Post, PostConfirmed, PostKept, PostFailed, Store, Stored, SaveTypes, SaveTypeOK
<1>3. save.n \in Forms /\ save.key \in Keys /\ save.body \subseteq Forms /\ save.kind \in {"new", "edit"}
  BY <1>2 DEF Save
<1> USE DEF SaveTypeOK, ui, strip, server
<1>4. CASE Post
  <2>1. save' \in Save /\ save' # Nil /\ save'.kind = save.kind
    <3>1. PICK step \in {"taken", "lost", "refused"} : save' = [save EXCEPT !.step = step]
      BY <1>4 DEF Post
    <3>2. step \in {"post", "taken", "lost", "refused", "store", "announce", "keep", "kept"}
      OBVIOUS
    <3>3. LET s == [save EXCEPT !.step = step] IN s \in Save /\ s # Nil /\ s.kind = save.kind
      BY ONLY <1>2, <3>2, NilIsNoValue DEF Save
    <3> QED
      BY <3>1, <3>3
  <2>2. created' \subseteq Forms \X Keys /\ record' \subseteq Forms /\ applied' \subseteq Forms
    BY <1>1, <1>3, <1>4, TakenTyped DEF Post
  <2>3. faults' \in 0..MaxFaults /\ refused' \subseteq Forms
    BY <1>1, <1>3, <1>4, SaveAssumption DEF Post, Fault
  <2>4. UNCHANGED <<owner, online, ui, queue, flush, again, strip, list, fetch, losses, told, blind, byHelper>>
    BY <1>4 DEF Post
  <2> QED
    BY <1>1, <1>2, <2>1, <2>2, <2>3, <2>4 DEF SaveTypes, KeysSuffice, Unused, AnswerIsForOne, Todo
<1>5. ASSUME NEW word \in {"syncing", "saved"}, Ends(word), UNCHANGED <<opened, kind>>
      PROVE  /\ keyRef' \in Keys /\ KeysSuffice' /\ save' = Nil /\ form' = Nil
             /\ told' \in [Forms -> {"syncing", "saved", "failed", Nil}]
  <2>1. save' = Nil /\ form' = Nil /\ keyRef' \in Nat /\ Unused' = 0 /\ opened' = opened
    BY <1>1, <1>5 DEF Ends, Unused
  <2>2. keyRef' <= 2 * opened
    BY <1>1, <1>2, <1>5 DEF Ends, KeysSuffice, Unused
  <2>3. keyRef' <= 2 * MaxForms
    BY <1>1, <2>1, <2>2
  <2> QED
    BY <1>1, <1>3, <1>5, <2>1, <2>2, <2>3 DEF Ends, KeysSuffice, Keys
<1>6. CASE PostConfirmed
  <2>1. Asked \in [step : {"none", "asked", "answered"}, list : List]
    BY DEF Asked, EmptyList, List
  <2> QED
    BY <1>1, <1>5, <1>6, <2>1 DEF PostConfirmed, SaveTypes, AnswerIsForOne, Todo
<1>7. CASE PostKept
  <2>1. save' \in Save /\ save' # Nil /\ save'.kind = save.kind
    BY <1>2, <1>7, SaveGoesOn DEF PostKept
  <2> QED
    BY <1>1, <1>2, <1>7, <2>1 DEF PostKept, SaveTypes, KeysSuffice, Unused, AnswerIsForOne, Todo
<1>8. CASE PostFailed
  <2>1. KeysSuffice'
    BY <1>1, <1>8, StillSuffices DEF PostFailed
  <2> QED
    BY <1>1, <1>3, <1>8, <2>1 DEF PostFailed, SaveTypes, AnswerIsForOne, Todo
<1>9. CASE Store
  <2>1. save' \in Save /\ save' # Nil /\ save'.kind = save.kind
    <3>1. PICK step \in {"announce", "kept"} : save' = [save EXCEPT !.step = step]
      BY <1>9 DEF Store
    <3>2. step \in {"post", "taken", "lost", "refused", "store", "announce", "keep", "kept"}
      OBVIOUS
    <3>3. LET s == [save EXCEPT !.step = step] IN s \in Save /\ s # Nil /\ s.kind = save.kind
      BY ONLY <1>2, <3>2, NilIsNoValue DEF Save
    <3> QED
      BY <3>1, <3>3
  <2>2. [kind |-> save.kind, key |-> save.key, body |-> save.body, rejected |-> FALSE] \in Item
    BY <1>3 DEF Item
  <2> QED
    BY <1>1, <1>2, <1>9, <2>1, <2>2 DEF Store, SaveTypes, KeysSuffice, Unused, AnswerIsForOne, Todo
<1>10. CASE Stored
  <2>1. /\ flush' \in Run \cup {Nil} /\ again' \in BOOLEAN
        /\ flush' = flush \/ flush' = NewRun
    BY <1>1, <1>10, RunRequested DEF Stored
  <2>2. AnswerIsForOne'
    <3>1. CASE flush' = flush
      BY <3>1 DEF SaveTypes, AnswerIsForOne, Todo
    <3>2. CASE flush' = NewRun
      BY <3>2, RunBegins DEF AnswerIsForOne
    <3> QED
      BY <2>1, <3>1, <3>2
  <2> QED
    BY <1>1, <1>5, <1>10, <2>1, <2>2 DEF Stored, SaveTypes
<1> QED
  BY <1>4, <1>6, <1>7, <1>8, <1>9, <1>10 DEF SaveStep

\* Nor does a run over the outbox, however it ends.
LEMMA RunStepTypes ==
    ASSUME SaveTypes, RunStep
    PROVE  SaveTypes'
<1>1. SaveTypeOK /\ AnswerIsForOne
  BY DEF SaveTypes
<1>2. flush # Nil /\ flush \in Run
  BY <1>1 DEF RunStep, ReadOutbox, Send, Settle, EndRun, SaveTypeOK
<1>3. flush.items \in [Forms -> Item \cup {Nil}] /\ flush.synced \subseteq Forms
  BY <1>2 DEF Run
<1> SUFFICES SaveTypeOK' /\ AnswerIsForOne'
  <2>1. UNCHANGED <<keyRef, form, save, opened>>
    BY DEF RunStep, ReadOutbox, Send, Settle, EndRun, ui
  <2> QED
    BY <2>1 DEF SaveTypes, KeysSuffice, Unused
<1> USE DEF SaveTypeOK, ui, strip, server
<1>4. CASE ReadOutbox
  <2>1. [n \in Forms |-> IF n \in Pending THEN queue[n] ELSE Nil] \in [Forms -> Item \cup {Nil}]
    BY <1>1
  <2>2. [flush EXCEPT !.step = "next", !.items = [n \in Forms |-> IF n \in Pending THEN queue[n] ELSE Nil]] \in Run
    BY <1>2, <2>1 DEF Run
  <2>3. flush' \in Run /\ flush'.step = "next"
    BY <1>2, <1>4, <2>2 DEF ReadOutbox, Run
  <2> QED
    BY <1>1, <1>4, <2>3 DEF ReadOutbox, AnswerIsForOne
<1>5. CASE Send
  <2>1. Min(Todo) \in Forms /\ flush.items[Min(Todo)] \in Item
    BY <1>1, <1>2, <1>5, AtEntry DEF Send
  <2>2. flush.items[Min(Todo)].key \in Keys /\ flush.items[Min(Todo)].body \subseteq Forms
    BY <2>1 DEF Item
  <2>3. flush' \in Run /\ flush'.items = flush.items
    <3>1. PICK step \in {"ok", "end", "refused"} : flush' = [flush EXCEPT !.step = step]
      BY <1>5 DEF Send
    <3>2. step \in {"read", "next", "ok", "refused", "end"}
      OBVIOUS
    <3> QED
      BY ONLY <1>2, <3>1, <3>2, RunGoesOn
  <2>4. created' \subseteq Forms \X Keys /\ record' \subseteq Forms /\ applied' \subseteq Forms
    BY <1>1, <1>5, <2>1, <2>2, TakenTyped DEF Send
  <2>5. faults' \in 0..MaxFaults /\ refused' \subseteq Forms
    BY <1>1, <1>5, <2>1, SaveAssumption DEF Send, Fault
  <2>6. AnswerIsForOne'
    BY <1>5, <2>3 DEF AnswerIsForOne, Send, Todo
  <2> QED
    BY <1>1, <1>5, <2>3, <2>4, <2>5, <2>6 DEF Send
<1>6. CASE Settle
  <2>1. Min(Todo) \in Forms
    BY <1>1, <1>2, <1>6, AtEntry DEF Settle, AnswerIsForOne
  <2>2. flush' \in Run /\ flush'.step = "next"
    BY <1>2, <1>3, <1>6, <2>1 DEF Settle, Run
  <2>3. queue' \in [Forms -> Item \cup {Nil}]
    <3>1. queue[Min(Todo)] # Nil => [queue[Min(Todo)] EXCEPT !.rejected = TRUE] \in Item
      BY <1>1, <2>1 DEF Item
    <3> QED
      BY <1>1, <1>6, <2>1, <3>1 DEF Settle
  <2> QED
    BY <1>1, <1>6, <2>2, <2>3 DEF Settle, AnswerIsForOne
<1>7. CASE EndRun
  <2>1. flush' = NewRun \/ flush' = Nil
    BY <1>7 DEF EndRun
  <2>2. flush' \in Run \cup {Nil} /\ AnswerIsForOne'
    BY <2>1, RunBegins DEF AnswerIsForOne
  <2>3. fetch' \in [step : {"none", "asked", "answered"}, list : List]
    BY <1>1, <1>7 DEF EndRun, Asked, EmptyList, List
  <2> QED
    BY <1>1, <1>3, <1>7, <2>2, <2>3 DEF EndRun
<1> QED
  BY <1>4, <1>5, <1>6, <1>7 DEF RunStep

\* The form that opens.
LEMMA OpenedForm ==
    ASSUME SaveTypeOK, NEW k \in {"new", "edit"}, Open(k)
    PROVE  /\ form' \in Form /\ form' # Nil
           /\ form'.n = opened' /\ form'.kind = k
           /\ (form'.filled => k = "new" \/ ~owner) /\ (~form'.filled => owner)
           /\ form'.base = IF k = "edit" THEN list.record ELSE {}
<1>1. opened' \in Forms
  BY SaveAssumption DEF Open, SaveTypeOK, Forms
<1>2. list.record \subseteq Forms
  BY DEF SaveTypeOK, List
<1>3. PICK filled \in BOOLEAN, base \in SUBSET Forms :
          /\ form' = [n |-> opened', kind |-> k, filled |-> filled, base |-> base]
          /\ filled = (k = "new" \/ ~owner) /\ base = IF k = "edit" THEN list.record ELSE {}
  <2>1. (k = "new" \/ ~owner) \in BOOLEAN
    OBVIOUS
  <2>2. (IF k = "edit" THEN list.record ELSE {}) \in SUBSET Forms
    BY <1>2
  <2> QED
    BY <2>1, <2>2, Zenon DEF Open, NewForm
<1>4. PICK n \in Forms : n = opened'
  BY <1>1
<1>5. [n |-> n, kind |-> k, filled |-> filled, base |-> base] \in Form
  BY DEF Form
<1>6. form' = [n |-> n, kind |-> k, filled |-> filled, base |-> base]
  BY <1>3, <1>4
<1>7. (filled => k = "new" \/ ~owner) /\ (~filled => owner)
  BY <1>3, Zenon
<1> QED
  BY <1>3, <1>4, <1>5, <1>6, <1>7, NilIsNoValue

\* So do the other steps of the page, the service worker and the connection.
LEMMA PageStepTypes ==
    ASSUME SaveTypes,
           \/ (\E k \in {"new", "edit"} : Open(k)) \/ Fill \/ Close \/ Click
           \/ Timer \/ HelperSends \/ (\E n \in Forms : TryAgain(n) \/ Forget(n))
           \/ ReadRows \/ AnswerFetch \/ ShowList
           \/ KnowOwner \/ GoOffline \/ GoOnline
    PROVE  SaveTypes'
<1>1. SaveTypeOK /\ AnswerIsForOne /\ KeysSuffice /\ keyRef \in Nat /\ opened \in Nat /\ MaxForms \in Nat
  BY SaveAssumption DEF SaveTypes, SaveTypeOK, Keys
<1> USE DEF SaveTypeOK, ui, strip, server
<1>2. ASSUME UNCHANGED flush PROVE AnswerIsForOne'
  BY <1>1, <1>2 DEF AnswerIsForOne, Todo
<1>3. ASSUME UNCHANGED <<form, save, keyRef, opened>> PROVE KeysSuffice'
  BY <1>1, <1>3 DEF KeysSuffice, Unused
<1>4. ASSUME RequestFlush PROVE flush' \in Run /\ again' \in BOOLEAN /\ AnswerIsForOne'
  <2>1. flush' \in Run /\ again' \in BOOLEAN /\ (flush' = flush \/ flush' = NewRun)
    BY <1>1, <1>4, RunRequested
  <2> QED
    BY <1>2, <2>1, RunBegins DEF AnswerIsForOne
<1>5. ASSUME NEW k \in {"new", "edit"}, Open(k) PROVE SaveTypes'
  <2>1. opened' \in Forms /\ opened' = opened + 1
    BY <1>1, <1>5 DEF Open, Forms
  <2>2. list.record \subseteq Forms
    BY <1>1 DEF List
  <2>3. form' \in Form /\ form' # Nil /\ form'.kind = k
    BY <1>1, <1>5, OpenedForm
  <2>4. KeysSuffice' /\ keyRef' \in Keys
    <3>1. form = Nil /\ save' = save
      BY <1>5 DEF Open
    <3>2. CASE k = "new"
      <4>1. keyRef' = keyRef + 1 /\ Unused' = 1 /\ keyRef <= 2 * opened
        BY <1>1, <1>5, <2>3, <3>2 DEF Open, Unused, KeysSuffice
      <4>2. keyRef' + 1 <= 2 * opened' /\ opened' <= MaxForms
        BY <1>1, <2>1, <4>1 DEF Forms
      <4> QED
        BY <1>1, <2>1, <4>1, <4>2 DEF KeysSuffice, Keys
    <3>3. CASE k = "edit"
      <4>1. keyRef' = keyRef /\ Unused' = Unused
        BY <1>1, <1>5, <2>3, <3>1, <3>3 DEF Open, Unused
      <4>2. Unused \in Nat
        BY DEF Unused
      <4> QED
        BY <1>1, <2>1, <4>1, <4>2 DEF KeysSuffice
    <3> QED
      BY <3>2, <3>3
  <2>5. kind' \in [Forms -> {"new", "edit", Nil}] /\ opened' \in 0..MaxForms
    BY <1>1, <1>5, <2>1 DEF Open, Forms
  <2> QED
    BY <1>1, <1>2, <1>5, <2>3, <2>4, <2>5 DEF Open, SaveTypes
<1>6. CASE Fill
  <2>1. form \in Form /\ form.n \in Forms /\ form.base \subseteq Forms
    BY <1>1, <1>6 DEF Fill, Form
  <2>2. Waiting # {} => queue[Max(Waiting)] \in Item
    <3>1. Waiting \subseteq 0..MaxForms /\ \A n \in Waiting : queue[n] \in Item
      BY <1>1 DEF Waiting, Pending, Forms
    <3> QED
      BY <1>1, <3>1, MaxOfBounded
  <2>3. (IF Waiting = {} THEN form.base ELSE queue[Max(Waiting)].body) \subseteq Forms
    BY <2>1, <2>2 DEF Item
  <2>4. form' = [form EXCEPT !.filled = TRUE,
                             !.base = IF Waiting = {} THEN form.base ELSE queue[Max(Waiting)].body]
    BY <1>6, <2>1 DEF Fill, Form
  <2>5. form' \in Form /\ form'.kind = form.kind /\ form' # Nil
    BY <2>1, <2>3, <2>4, NilIsNoValue DEF Form
  <2>6. KeysSuffice'
    BY <1>1, <1>6, <2>5 DEF Fill, KeysSuffice, Unused
  <2> QED
    BY <1>1, <1>2, <1>6, <2>1, <2>5, <2>6 DEF Fill, SaveTypes
<1>7. CASE Close
  <2>1. KeysSuffice'
    BY <1>1, <1>7, StillSuffices DEF Close
  <2> QED
    BY <1>1, <1>2, <1>7, <2>1 DEF Close, SaveTypes
<1>8. CASE Click
  <2>1. form \in Form /\ save = Nil
    BY <1>1, <1>8 DEF Click
  <2>2. (IF form.kind = "edit" THEN form.base \cup {form.n} ELSE {}) \subseteq Forms
    BY <2>1 DEF Form
  <2>3. save' \in Save /\ save'.kind = form.kind
    BY <1>1, <1>8, <2>1, <2>2 DEF Click, Save, Form
  <2>4. KeysSuffice'
    BY <1>1, <1>8, <2>1, <2>3 DEF Click, KeysSuffice, Unused
  <2>5. blind' \subseteq Forms
    BY <1>1, <1>8, <2>1 DEF Click, Form, SaveTypeOK
  <2> QED
    BY <1>1, <1>2, <1>8, <2>3, <2>4, <2>5 DEF Click, SaveTypes
<1>9. CASE Timer \/ KnowOwner \/ GoOnline
  BY <1>1, <1>3, <1>4, <1>9 DEF Timer, KnowOwner, GoOnline, SaveTypes
<1>10. CASE HelperSends
  <2>1. Min(Pending) \in Forms /\ queue[Min(Pending)] \in Item
    BY <1>1, <1>10, OldestWaits DEF HelperSends
  <2>2. queue[Min(Pending)].key \in Keys /\ queue[Min(Pending)].body \subseteq Forms
    BY <2>1 DEF Item
  <2>3. created' \subseteq Forms \X Keys /\ record' \subseteq Forms /\ applied' \subseteq Forms
    BY <1>1, <1>10, <2>1, <2>2, TakenTyped DEF HelperSends
  <2>4. faults' \in 0..MaxFaults
    BY <1>1, <1>10, SaveAssumption DEF HelperSends, Fault
  <2>5. fetch' \in [step : {"none", "asked", "answered"}, list : List]
    BY <1>10 DEF HelperSends, Asked, EmptyList, List
  <2>6. queue' \in [Forms -> Item \cup {Nil}] /\ byHelper' \subseteq Forms
    BY <1>1, <1>10, <2>1 DEF HelperSends
  <2> QED
    BY <1>1, <1>2, <1>3, <1>10, <2>3, <2>4, <2>5, <2>6 DEF HelperSends, SaveTypes
<1>11. ASSUME NEW n \in Forms, TryAgain(n) PROVE SaveTypes'
  <2>1. queue[n] \in Item /\ queue' = [queue EXCEPT ![n] = [queue[n] EXCEPT !.rejected = FALSE]]
    BY <1>1, <1>11 DEF TryAgain
  <2>2. queue' \in [Forms -> Item \cup {Nil}]
    BY <1>1, <2>1 DEF Item
  <2> QED
    BY <1>1, <1>3, <1>4, <1>11, <2>2 DEF TryAgain, SaveTypes
<1>12. ASSUME NEW n \in Forms, Forget(n) PROVE SaveTypes'
  BY <1>1, <1>2, <1>3, <1>12 DEF Forget, SaveTypes
<1>13. CASE ReadRows
  BY <1>1, <1>2, <1>3, <1>13 DEF ReadRows, SaveTypes
<1>14. CASE AnswerFetch
  <2>1. [created |-> {c[1] : c \in created}, record |-> record] \in List
    BY <1>1 DEF List
  <2>2. fetch' \in [step : {"none", "asked", "answered"}, list : List]
    BY <1>14, <2>1 DEF AnswerFetch
  <2> QED
    BY <1>1, <1>2, <1>3, <1>14, <2>2 DEF AnswerFetch, SaveTypes
<1>15. CASE ShowList
  <2>1. NoFetch \in [step : {"none", "asked", "answered"}, list : List]
    BY DEF NoFetch, EmptyList, List
  <2> QED
    BY <1>1, <1>2, <1>3, <1>15, <2>1 DEF ShowList, SaveTypes
<1>16. CASE GoOffline
  <2>1. losses < MaxOffline /\ losses' = losses + 1 /\ online' \in BOOLEAN
    BY <1>16 DEF GoOffline
  <2>2. losses' \in 0..MaxOffline
    BY <1>1, <2>1, SaveAssumption
  <2> QED
    BY <1>1, <1>2, <1>3, <1>16, <2>1, <2>2 DEF GoOffline, SaveTypes
<1> QED
  BY <1>5, <1>6, <1>7, <1>8, <1>9, <1>10, <1>11, <1>12, <1>13, <1>14, <1>15, <1>16

LEMMA SaveNextTypes == SaveTypes /\ [SaveNext]_pathVars => SaveTypes'
<1>1. CASE UNCHANGED pathVars
  BY <1>1 DEF pathVars, SaveTypes, SaveTypeOK, KeysSuffice, Unused, AnswerIsForOne, Todo
<1> QED
  BY <1>1, SaveStepTypes, RunStepTypes, PageStepTypes DEF SaveNext

LEMMA SaveInitTypes == SaveInit => SaveTypes
<1> SUFFICES ASSUME SaveInit PROVE SaveTypes
  OBVIOUS
<1> USE SaveAssumption DEF SaveInit
<1>1. EmptyList \in List /\ NoFetch \in [step : {"none", "asked", "answered"}, list : List]
  BY DEF NoFetch, EmptyList, List
<1>2. Nothing \in [Forms -> Item \cup {Nil}]
  BY DEF Nothing
<1>3. SaveTypeOK
  <2>1. opened \in 0..MaxForms /\ keyRef \in Keys /\ faults \in 0..MaxFaults /\ losses \in 0..MaxOffline
    BY DEF Keys
  <2>2. /\ kind \in [Forms -> {"new", "edit", Nil}]
        /\ told \in [Forms -> {"syncing", "saved", "failed", Nil}]
    OBVIOUS
  <2> QED
    BY <1>1, <1>2, <2>1, <2>2 DEF SaveTypeOK
<1> QED
  BY <1>3 DEF SaveTypes, KeysSuffice, Unused, AnswerIsForOne

\* Every state of every behaviour has the declared types.
THEOREM SaveTypeCorrect == SaveSpec => []SaveTypeOK
<1>1. SaveTypes => SaveTypeOK
  BY DEF SaveTypes
<1> QED
  BY <1>1, SaveInitTypes, SaveNextTypes, PTL DEF SaveSpec

-----------------------------------------------------------------------------
(* One key for one entry *)

\* Somewhere, on the server, in the outbox or on the way there, a create of entry n
\* bears the key k, or it will once the open form is saved.
Bears(n, k) ==
    \/ <<n, k>> \in created
    \/ save # Nil /\ save.kind = "new" /\ save.n = n /\ save.key = k
    \/ queue[n] # Nil /\ queue[n].kind = "new" /\ queue[n].key = k
    \/ flush # Nil /\ flush.items[n] # Nil /\ flush.items[n].kind = "new" /\ flush.items[n].key = k
    \/ form # Nil /\ form.kind = "new" /\ form.n = n /\ keyRef = k

\* No entry bears two keys, and no key is that of two entries.
OneKey ==
    \A n \in Forms, k \in Keys : Bears(n, k) =>
        /\ n <= opened /\ k <= keyRef
        /\ \A m \in Forms, l \in Keys : Bears(m, l) => (m = n <=> l = k)

\* What is under way is of a form that was opened, and of its kind.
Kinds ==
    /\ form # Nil => form.n <= opened /\ form.kind = kind[form.n]
    /\ save # Nil => save.n <= opened /\ save.kind = kind[save.n]
    /\ \A n \in Forms : queue[n] # Nil => n <= opened /\ queue[n].kind = kind[n]
    /\ flush # Nil => \A n \in Forms :
          flush.items[n] # Nil => n <= opened /\ flush.items[n].kind = kind[n]

\* Nothing the server has, and no form that was opened, is taken back.
Grows ==
    /\ created \subseteq created' /\ applied \subseteq applied'
    /\ opened <= opened' /\ keyRef <= keyRef'
    /\ \A n \in Forms : n <= opened => kind'[n] = kind[n]

LEMMA EverGrows ==
    ASSUME SaveTypes, [SaveNext]_pathVars
    PROVE  Grows
<1>1. SaveTypeOK /\ opened \in Nat /\ keyRef \in Nat
  BY SaveAssumption DEF SaveTypes, SaveTypeOK, Keys
<1> USE DEF Grows, ui, strip, server
<1>2. ASSUME NEW k \in {"new", "edit"}, Open(k) PROVE Grows
  <2>1. \A n \in Forms : n <= opened => kind'[n] = kind[n]
    BY <1>1, <1>2 DEF Open, SaveTypeOK
  <2> QED
    BY <1>1, <1>2, <2>1 DEF Open
<1>3. CASE PostConfirmed \/ Stored
  BY <1>1, <1>3 DEF PostConfirmed, Stored, Ends
<1>4. CASE Post \/ Send \/ HelperSends
  BY <1>1, <1>4 DEF Post, Send, HelperSends, Take
<1>5. CASE PostKept \/ PostFailed \/ Store \/ ReadOutbox \/ Settle \/ EndRun \/ Fill \/ Close \/ Click
  BY <1>1, <1>5 DEF PostKept, PostFailed, Store, ReadOutbox, Settle, EndRun, Fill, Close, Click
<1>6. CASE Timer \/ (\E n \in Forms : TryAgain(n) \/ Forget(n)) \/ ReadRows \/ AnswerFetch
           \/ ShowList \/ KnowOwner \/ GoOffline \/ GoOnline
  BY <1>1, <1>6 DEF Timer, TryAgain, Forget, ReadRows, AnswerFetch, ShowList, KnowOwner,
                    GoOffline, GoOnline
<1>7. CASE UNCHANGED pathVars
  BY <1>1, <1>7 DEF pathVars
<1> QED
  BY <1>2, <1>3, <1>4, <1>5, <1>6, <1>7 DEF SaveNext, SaveStep, RunStep

\* The steps of a save bear no new key.
LEMMA SaveStepKeys ==
    ASSUME SaveTypes, Kinds, SaveStep
    PROVE  /\ Kinds'
           /\ \A n \in Forms, k \in Keys : Bears(n, k)' => Bears(n, k)
<1>1. SaveTypeOK
  BY DEF SaveTypes
<1>2. save # Nil /\ save \in Save
  BY <1>1 DEF SaveStep, Post, PostConfirmed, PostKept, PostFailed, Store, Stored, SaveTypeOK
<1>3. save.n \in Forms
  BY <1>2 DEF Save
<1> USE DEF ui, strip, server
<1>4. CASE Post
  <2>1. save' # Nil /\ save'.kind = save.kind /\ save'.n = save.n /\ save'.key = save.key
    BY <1>2, <1>4, NilIsNoValue DEF Post, Save
  <2>2. \/ created' = created
        \/ save.kind = "new" /\ created' = created \cup {<<save.n, save.key>>}
    BY <1>4 DEF Post, Take
  <2>3. UNCHANGED <<queue, flush, form, keyRef, kind, opened>>
    BY <1>4 DEF Post
  <2> QED
    BY <1>2, <2>1, <2>2, <2>3 DEF Bears, Kinds
<1>5. CASE PostConfirmed
  BY <1>5 DEF PostConfirmed, Ends, Bears, Kinds
<1>6. CASE PostKept
  <2>1. save' # Nil /\ save'.kind = save.kind /\ save'.n = save.n /\ save'.key = save.key
    BY <1>2, <1>6, NilIsNoValue DEF PostKept, Save
  <2> QED
    BY <1>2, <1>6, <2>1 DEF PostKept, Bears, Kinds
<1>7. CASE PostFailed
  BY <1>7 DEF PostFailed, Bears, Kinds
<1>8. CASE Store
  <2>1. save' # Nil /\ save'.kind = save.kind /\ save'.n = save.n /\ save'.key = save.key
    BY <1>2, <1>8, NilIsNoValue DEF Store, Save
  <2>2. \A n \in Forms :
          \/ queue'[n] = queue[n]
          \/ n = save.n /\ queue'[n].kind = save.kind /\ queue'[n].key = save.key
    BY <1>1, <1>3, <1>8 DEF Store, SaveTypeOK
  <2>3. UNCHANGED <<created, flush, form, keyRef, kind, opened>>
    BY <1>8 DEF Store
  <2> QED
    BY <1>2, <2>1, <2>2, <2>3 DEF Bears, Kinds
<1>9. CASE Stored
  <2>1. flush' = flush \/ flush' = NewRun
    BY <1>1, <1>9, RunRequested DEF Stored
  <2>2. save' = Nil /\ form' = Nil /\ UNCHANGED <<created, queue, kind, opened>>
    BY <1>9 DEF Stored, Ends
  <2> QED
    BY <2>1, <2>2, RunBegins DEF Bears, Kinds
<1> QED
  BY <1>4, <1>5, <1>6, <1>7, <1>8, <1>9 DEF SaveStep

\* Nor do those of a run.
LEMMA RunStepKeys ==
    ASSUME SaveTypes, Kinds, RunStep
    PROVE  /\ Kinds'
           /\ \A n \in Forms, k \in Keys : Bears(n, k)' => Bears(n, k)
<1>1. SaveTypeOK /\ AnswerIsForOne
  BY DEF SaveTypes
<1>2. flush # Nil /\ flush \in Run /\ flush.items \in [Forms -> Item \cup {Nil}]
  BY <1>1 DEF RunStep, ReadOutbox, Send, Settle, EndRun, SaveTypeOK, Run
<1> USE DEF ui, strip, server
<1>3. UNCHANGED <<save, form, keyRef, kind, opened>>
  BY DEF RunStep, ReadOutbox, Send, Settle, EndRun
<1>4. CASE ReadOutbox
  <2>1. \A n \in Forms : flush'.items[n] = IF n \in Pending THEN queue[n] ELSE Nil
    BY <1>2, <1>4 DEF ReadOutbox, Run
  <2>2. UNCHANGED <<created, queue>>
    BY <1>4 DEF ReadOutbox
  <2> QED
    BY <1>2, <1>3, <2>1, <2>2 DEF Bears, Kinds
<1>5. CASE Send
  <2>1. Min(Todo) \in Forms /\ flush.items[Min(Todo)] # Nil
    BY <1>1, <1>2, <1>5, AtEntry DEF Send, Todo
  <2>2. flush'.items = flush.items /\ queue' = queue
    BY <1>2, <1>5 DEF Send, Run
  <2>3. \/ created' = created
        \/ /\ flush.items[Min(Todo)].kind = "new"
           /\ created' = created \cup {<<Min(Todo), flush.items[Min(Todo)].key>>}
    BY <1>5 DEF Send, Take
  <2> QED
    BY <1>2, <1>3, <2>1, <2>2, <2>3 DEF Bears, Kinds
<1>6. CASE Settle
  <2>1. Min(Todo) \in Forms
    BY <1>1, <1>2, <1>6, AtEntry DEF Settle, AnswerIsForOne
  <2>2. \A n \in Forms : flush'.items[n] = Nil \/ flush'.items[n] = flush.items[n]
    BY <1>2, <1>6, <2>1 DEF Settle
  <2>3. \A n \in Forms : queue'[n] # Nil =>
          queue[n] # Nil /\ queue'[n].kind = queue[n].kind /\ queue'[n].key = queue[n].key
    BY <1>1, <1>6, <2>1 DEF Settle, SaveTypeOK, Item
  <2>4. created' = created
    BY <1>6 DEF Settle
  <2> QED
    BY <1>2, <1>3, <2>2, <2>3, <2>4 DEF Bears, Kinds
<1>7. CASE EndRun
  <2>1. (flush' = NewRun \/ flush' = Nil) /\ UNCHANGED <<created, queue>>
    BY <1>7 DEF EndRun
  <2> QED
    BY <1>3, <2>1, RunBegins DEF Bears, Kinds
<1> QED
  BY <1>4, <1>5, <1>6, <1>7 DEF RunStep

\* And a form that opens for a new entry bears a key of its own.
LEMMA PageStepKeys ==
    ASSUME SaveTypes, Kinds,
           \/ (\E k \in {"new", "edit"} : Open(k)) \/ Fill \/ Close \/ Click
           \/ Timer \/ HelperSends \/ (\E n \in Forms : TryAgain(n) \/ Forget(n))
           \/ ReadRows \/ AnswerFetch \/ ShowList
           \/ KnowOwner \/ GoOffline \/ GoOnline
    PROVE  /\ Kinds'
           /\ \A n \in Forms, k \in Keys : Bears(n, k)' =>
                 Bears(n, k) \/ (n = opened + 1 /\ opened' = n /\ k = keyRef + 1 /\ keyRef' = k)
<1>1. SaveTypeOK /\ opened \in Nat /\ keyRef \in Nat
  BY SaveAssumption DEF SaveTypes, SaveTypeOK, Keys
<1> USE DEF ui, strip, server
<1>2. ASSUME UNCHANGED <<created, save, queue, form, keyRef, kind, opened>>,
             flush' = flush \/ flush' = NewRun
      PROVE  Kinds' /\ \A n \in Forms, k \in Keys : Bears(n, k)' => Bears(n, k)
  BY <1>2, RunBegins DEF Bears, Kinds
<1>3. ASSUME NEW t \in {"new", "edit"}, Open(t)
      PROVE  /\ Kinds'
             /\ \A n \in Forms, k \in Keys : Bears(n, k)' =>
                   Bears(n, k) \/ (n = opened + 1 /\ opened' = n /\ k = keyRef + 1 /\ keyRef' = k)
  <2>1. opened' = opened + 1 /\ opened' \in Forms /\ UNCHANGED <<created, save, queue, flush>>
    BY <1>1, <1>3, SaveAssumption DEF Open, SaveTypeOK, Forms
  <2>2. form'.n = opened' /\ form'.kind = t /\ kind'[opened'] = t
    BY <1>1, <1>3, <2>1 DEF Open, NewForm, SaveTypeOK
  <2>3. \A n \in Forms : n <= opened => kind'[n] = kind[n]
    BY <1>1, <1>3, <2>1 DEF Open, SaveTypeOK
  <2>4. save # Nil => save.n \in Forms
    BY <1>1 DEF SaveTypeOK, Save
  <2>5. Kinds'
    <3>1. save' # Nil => save'.n <= opened' /\ save'.kind = kind'[save'.n]
      BY <1>1, <2>1, <2>3, <2>4 DEF Kinds, Forms
    <3>2. \A n \in Forms : queue'[n] # Nil => n <= opened' /\ queue'[n].kind = kind'[n]
      BY <1>1, <2>1, <2>3 DEF Kinds, Forms
    <3>3. flush' # Nil => \A n \in Forms :
              flush'.items[n] # Nil => n <= opened' /\ flush'.items[n].kind = kind'[n]
      BY <1>1, <2>1, <2>3 DEF Kinds, Forms
    <3> QED
      BY <1>1, <2>1, <2>2, <3>1, <3>2, <3>3 DEF Kinds
  <2>6. t = "new" => keyRef' = keyRef + 1
    BY <1>3 DEF Open
  <2> QED
    BY <2>1, <2>2, <2>5, <2>6 DEF Bears
<1>4. CASE Fill
  <2>1. form \in Form /\ form'.n = form.n /\ form'.kind = form.kind /\ form # Nil
    BY <1>1, <1>4 DEF Fill, SaveTypeOK, Form
  <2>2. UNCHANGED <<created, save, queue, flush, keyRef, kind, opened>>
    BY <1>4 DEF Fill
  <2> QED
    BY <2>1, <2>2 DEF Bears, Kinds
<1>5. CASE Close
  BY <1>5 DEF Close, Bears, Kinds
<1>6. CASE Click
  <2>1. save'.n = form.n /\ save'.kind = form.kind /\ save'.key = keyRef /\ form # Nil
    BY <1>6 DEF Click
  <2>2. UNCHANGED <<created, form, queue, flush, keyRef, kind, opened>>
    BY <1>6 DEF Click
  <2> QED
    BY <2>1, <2>2 DEF Bears, Kinds
<1>7. CASE Timer \/ KnowOwner \/ GoOnline
  BY <1>1, <1>2, <1>7, RunRequested DEF Timer, KnowOwner, GoOnline
<1>8. CASE HelperSends
  <2>1. Min(Pending) \in Forms /\ queue[Min(Pending)] # Nil
    BY <1>1, <1>8, OldestWaits DEF HelperSends, Pending
  <2>2. \A n \in Forms : queue'[n] = Nil \/ queue'[n] = queue[n]
    BY <1>1, <1>8, <2>1 DEF HelperSends, SaveTypeOK
  <2>3. \/ created' = created
        \/ /\ queue[Min(Pending)].kind = "new"
           /\ created' = created \cup {<<Min(Pending), queue[Min(Pending)].key>>}
    BY <1>8 DEF HelperSends, Take
  <2>4. UNCHANGED <<save, form, flush, keyRef, kind, opened>>
    BY <1>8 DEF HelperSends
  <2> QED
    BY <2>1, <2>2, <2>3, <2>4 DEF Bears, Kinds
<1>9. ASSUME NEW m \in Forms, TryAgain(m)
      PROVE  Kinds' /\ \A n \in Forms, k \in Keys : Bears(n, k)' => Bears(n, k)
  <2>1. \A n \in Forms : queue'[n] # Nil =>
          queue[n] # Nil /\ queue'[n].kind = queue[n].kind /\ queue'[n].key = queue[n].key
    BY <1>1, <1>9 DEF TryAgain, SaveTypeOK, Item
  <2>2. UNCHANGED <<created, save, form, keyRef, kind, opened>> /\ (flush' = flush \/ flush' = NewRun)
    BY <1>1, <1>9, RunRequested DEF TryAgain
  <2> QED
    BY <2>1, <2>2, RunBegins DEF Bears, Kinds
<1>10. CASE (\E n \in Forms : Forget(n)) \/ ReadRows \/ AnswerFetch \/ ShowList \/ GoOffline
  BY <1>2, <1>10 DEF Forget, ReadRows, AnswerFetch, ShowList, GoOffline
<1> QED
  BY <1>3, <1>4, <1>5, <1>6, <1>7, <1>8, <1>9, <1>10

\* So each entry keeps its one key, and each key its one entry.
LEMMA NextKeys ==
    ASSUME SaveTypes, Kinds, OneKey, [SaveNext]_pathVars
    PROVE  Kinds' /\ OneKey'
<1>1. opened \in Nat /\ keyRef \in Nat /\ opened' \in Nat /\ keyRef' \in Nat
  BY SaveNextTypes, SaveAssumption DEF SaveTypes, SaveTypeOK, Keys
<1>2. Grows
  BY EverGrows
<1>3. /\ Kinds'
      /\ \A n \in Forms, k \in Keys : Bears(n, k)' =>
            Bears(n, k) \/ (n = opened + 1 /\ opened' = n /\ k = keyRef + 1 /\ keyRef' = k)
  <2>1. CASE UNCHANGED pathVars
    BY <2>1 DEF pathVars, Bears, Kinds
  <2>2. CASE SaveStep
    BY <2>2, SaveStepKeys
  <2>3. CASE RunStep
    BY <2>3, RunStepKeys
  <2>4. CASE \/ (\E k \in {"new", "edit"} : Open(k)) \/ Fill \/ Close \/ Click
             \/ Timer \/ HelperSends \/ (\E n \in Forms : TryAgain(n) \/ Forget(n))
             \/ ReadRows \/ AnswerFetch \/ ShowList
             \/ KnowOwner \/ GoOffline \/ GoOnline
    BY <2>4, PageStepKeys
  <2> QED
    BY ONLY <2>1, <2>2, <2>3, <2>4, [SaveNext]_pathVars DEF SaveNext
<1>4. Forms \subseteq Nat /\ Keys \subseteq Nat
  BY DEF Forms, Keys
<1>5. \A n \in Forms, k \in Keys : Bears(n, k) => n <= opened /\ k <= keyRef
  BY DEF OneKey
<1>6. ASSUME NEW n \in Forms, NEW k \in Keys, Bears(n, k)'
      PROVE  n <= opened' /\ k <= keyRef'
  BY <1>1, <1>2, <1>3, <1>4, <1>5, <1>6 DEF Grows
<1>7. ASSUME NEW n \in Forms, NEW k \in Keys, Bears(n, k)',
             NEW m \in Forms, NEW l \in Keys, Bears(m, l)'
      PROVE  m = n <=> l = k
  <2>1. CASE Bears(n, k) /\ Bears(m, l)
    BY <2>1 DEF OneKey
  <2>2. CASE Bears(n, k) /\ ~Bears(m, l)
    <3>1. n <= opened /\ k <= keyRef /\ m = opened + 1 /\ l = keyRef + 1
      BY <1>3, <1>5, <1>7, <2>2
    <3> QED
      BY <1>1, <1>4, <3>1
  <2>3. CASE ~Bears(n, k) /\ Bears(m, l)
    <3>1. m <= opened /\ l <= keyRef /\ n = opened + 1 /\ k = keyRef + 1
      BY <1>3, <1>5, <1>7, <2>3
    <3> QED
      BY <1>1, <1>4, <3>1
  <2>4. CASE ~Bears(n, k) /\ ~Bears(m, l)
    BY <1>3, <1>7, <2>4
  <2> QED
    BY <2>1, <2>2, <2>3, <2>4
<1>8. Forms' = Forms /\ Keys' = Keys
  BY DEF Forms, Keys
<1> QED
  BY <1>3, <1>6, <1>7, <1>8 DEF OneKey

LEMMA InitKeys == SaveInit => Kinds /\ OneKey
  BY DEF SaveInit, Kinds, OneKey, Bears, Nothing

\* saveTransaction.ts:22, for any number of forms, faults and retries: one entry
\* makes at most one record.
THEOREM OneRecordEach == SaveSpec => []OneRecordPerEntry
<1> DEFINE KeyInv == SaveTypes /\ Kinds /\ OneKey
<1>1. SaveInit => KeyInv
  BY SaveInitTypes, InitKeys
<1>2. KeyInv /\ [SaveNext]_pathVars => KeyInv'
  BY SaveNextTypes, NextKeys
<1>3. KeyInv => OneRecordPerEntry
  <2>1. SUFFICES ASSUME KeyInv, NEW n \in Forms
                 PROVE  Cardinality({k \in Keys : <<n, k>> \in created}) <= 1
    BY DEF OneRecordPerEntry
  <2> DEFINE keys == {k \in Keys : <<n, k>> \in created}
  <2>2. \A k, l \in keys : k = l
    BY <2>1 DEF OneKey, Bears
  <2>3. CASE keys = {}
    <3>1. Cardinality(keys) = 0
      BY ONLY <2>3, FS_EmptySet
    <3> QED
      BY <3>1
  <2>4. CASE keys # {}
    <3>1. PICK k \in keys : TRUE
      BY <2>4
    <3>2. keys = {k}
      BY <2>2, <3>1
    <3>3. Cardinality(keys) = 1
      BY ONLY <3>2, FS_Singleton
    <3> QED
      BY <3>3
  <2> QED
    BY <2>3, <2>4
<1> QED
  BY <1>1, <1>2, <1>3, PTL DEF SaveSpec

-----------------------------------------------------------------------------
(* What the user is told *)

\* The server has the save of form n.
There(n) == n <= opened /\ IF kind[n] = "new" THEN Recorded(n) ELSE n \in applied

\* What was told, or is about to be, is so; and what a run has confirmed.
HonestTold == \A n \in Forms :
    /\ told[n] = "saved" => There(n)
    /\ told[n] = "syncing" => There(n) \/ queue[n] # Nil
HonestSave == save # Nil =>
    /\ save.step = "taken" => There(save.n)
    /\ save.step \in {"announce", "kept"} => There(save.n) \/ queue[save.n] # Nil
HonestRun == flush # Nil =>
    /\ flush.step = "ok" => There(Min(Todo))
    /\ \A n \in flush.synced : There(n)
HonestStrip == \A n \in confirming : There(n) /\ kind[n] = "new"

Honest == HonestTold /\ HonestSave /\ HonestRun /\ HonestStrip

\* What the server has it keeps.
LEMMA ThereStays ==
    ASSUME SaveTypes, SaveTypes', Grows, NEW n \in Forms, There(n)
    PROVE  There(n)' /\ kind'[n] = kind[n]
<1>1. n \in Nat /\ opened \in Nat /\ opened' \in Nat
  BY SaveAssumption DEF SaveTypes, SaveTypeOK, Forms
<1>2. Keys' = Keys
  BY DEF Keys
<1> QED
  BY <1>1, <1>2 DEF There, Grows, Recorded

\* What it takes it has, also when it answers with what the key made before.
LEMMA TakenIsThere ==
    ASSUME SaveTypes, OneKey, Grows, NEW n \in Forms, n <= opened, opened' = opened,
           NEW item, item.kind = kind[n], item.key \in Keys,
           item.kind = "new" => Bears(n, item.key),
           Take(n, item)
    PROVE  There(n)'
<1>1. kind'[n] = kind[n] /\ Keys' = Keys
  BY DEF Grows, Keys
<1>2. CASE kind[n] = "new"
  <2>1. CASE Replays(item.key)
    <3>1. PICK m \in Forms : <<m, item.key>> \in created
      BY <2>1 DEF Replays
    <3>2. m = n
      <4>1. Bears(m, item.key) /\ Bears(n, item.key)
        BY <1>2, <3>1 DEF Bears
      <4> QED
        BY <4>1 DEF OneKey
    <3>3. <<n, item.key>> \in created'
      BY <3>1, <3>2 DEF Grows
    <3> QED
      BY <1>1, <1>2, <3>3 DEF There, Recorded
  <2>2. CASE ~Replays(item.key)
    <3>1. <<n, item.key>> \in created'
      BY <1>2, <2>2 DEF Take
    <3> QED
      BY <1>1, <1>2, <3>1 DEF There, Recorded
  <2> QED
    BY <2>1, <2>2
<1>3. CASE kind[n] # "new"
  BY <1>1, <1>3 DEF Take, There
<1> QED
  BY <1>2, <1>3

\* An entry leaves the outbox only for the server.
LeavesForServer == \A n \in Forms : queue[n] # Nil => queue'[n] # Nil \/ There(n)'

LEMMA StillHonest ==
    ASSUME SaveTypes, SaveTypes', Grows, Honest, LeavesForServer
    PROVE  /\ told' = told => HonestTold'
           /\ save' = save => HonestSave'
           /\ flush' = flush => HonestRun'
           /\ confirming' = confirming => HonestStrip'
<1>1. \A n \in Forms : There(n) => There(n)' /\ kind'[n] = kind[n]
  BY ThereStays
<1>2. SaveTypeOK /\ Forms' = Forms
  BY DEF SaveTypes, Forms
<1>3. ASSUME told' = told PROVE HonestTold'
  BY <1>1, <1>2, <1>3 DEF Honest, HonestTold, LeavesForServer
<1>4. ASSUME save' = save PROVE HonestSave'
  <2>1. save # Nil => save.n \in Forms
    BY <1>2 DEF SaveTypeOK, Save
  <2> QED
    BY <1>1, <1>4, <2>1 DEF Honest, HonestSave, LeavesForServer
<1>5. ASSUME flush' = flush PROVE HonestRun'
  <2>1. PICK r \in Run \cup {Nil} : r = flush
    BY <1>2 DEF SaveTypeOK
  <2>2. Todo' = Todo
    BY <1>2, <1>5 DEF Todo
  <2>3. r # Nil /\ r.step = "ok" => Min(Todo) \in Forms
    BY <1>2, <2>1, AtEntry DEF SaveTypes, AnswerIsForOne
  <2>4. r # Nil => r.synced \subseteq Forms
    BY <2>1 DEF Run
  <2>5. PICK m : m = Min(Todo)
    OBVIOUS
  <2>6. m = Min(Todo)'
    BY <2>2, <2>5
  <2>7. r # Nil => (r.step = "ok" => There(m)) /\ \A n \in r.synced : There(n)
    BY <2>1, <2>5 DEF Honest, HonestRun
  <2>8. r # Nil => (r.step = "ok" => There(m)') /\ \A n \in r.synced : There(n)'
    BY <1>1, <2>3, <2>4, <2>5, <2>7
  <2> QED
    BY <1>5, <2>1, <2>6, <2>8 DEF HonestRun
<1>6. ASSUME confirming' = confirming PROVE HonestStrip'
  BY <1>1, <1>2, <1>6 DEF Honest, HonestStrip, SaveTypeOK
<1> QED
  BY <1>3, <1>4, <1>5, <1>6

\* A run that begins has confirmed nothing.
LEMMA NewRunHonest == flush' = NewRun \/ flush' = Nil => HonestRun'
  BY RunBegins DEF HonestRun

\* The steps of a save.
LEMMA SaveStepHonest ==
    ASSUME SaveTypes, SaveTypes', Grows, Kinds, OneKey, Honest, SaveStep
    PROVE  Honest' /\ LeavesForServer
<1>1. SaveTypeOK /\ SaveTypeOK'
  BY DEF SaveTypes
<1>2. save # Nil /\ save \in Save
  BY <1>1 DEF SaveStep, Post, PostConfirmed, PostKept, PostFailed, Store, Stored, SaveTypeOK
<1>3. PICK m \in Forms : m = save.n
  BY <1>2 DEF Save
<1>14. save.key \in Keys /\ m <= opened /\ save.kind = kind[m] /\ save.kind \in {"new", "edit"}
  BY <1>2, <1>3 DEF Save, Kinds
<1> USE DEF ui, strip, server
<1>4. LeavesForServer
  <2>1. \A n \in Forms : queue[n] # Nil => queue'[n] # Nil
    <3>1. CASE Store
      <4>1. [kind |-> save.kind, key |-> save.key, body |-> save.body, rejected |-> FALSE] \in Item
        BY <1>2 DEF Save, Item
      <4> QED
        BY <1>1, <3>1, <4>1, NilIsNoValue DEF Store, SaveTypeOK
    <3>2. CASE Post \/ PostConfirmed \/ PostKept \/ PostFailed \/ Stored
      BY <3>2 DEF Post, PostConfirmed, PostKept, PostFailed, Stored
    <3> QED
      BY <3>1, <3>2 DEF SaveStep
  <2> QED
    BY <2>1 DEF LeavesForServer
<1>5. /\ told' = told => HonestTold'
      /\ save' = save => HonestSave'
      /\ flush' = flush => HonestRun'
      /\ confirming' = confirming => HonestStrip'
  BY <1>4, StillHonest
<1>6. \A n \in Forms : There(n) => There(n)'
  BY ThereStays
<1> SUFFICES Honest'
  BY <1>4
<1>7. CASE Post
  <2>1. UNCHANGED <<told, flush, confirming, opened, queue>>
    BY <1>7 DEF Post
  <2>2. PICK step \in {"taken", "lost", "refused"} : save' = [save EXCEPT !.step = step]
    BY <1>7 DEF Post
  <2>3. save'.step = step /\ save'.n = save.n
    BY <1>2, <2>2 DEF Save
  <2>4. step = "taken" => Take(m, save)
    BY <1>2, <1>3, <1>7, <2>2, <2>3 DEF Post, Save
  <2>5. step = "taken" => There(m)'
    <3>1. save.kind = "new" => Bears(m, save.key)
      BY <1>2, <1>3 DEF Bears
    <3>2. PICK s \in Save : s = save
      BY <1>2
    <3>3. s.key \in Keys /\ s.kind = kind[m] /\ (s.kind = "new" => Bears(m, s.key))
          /\ (step = "taken" => Take(m, s))
      BY <1>14, <2>4, <3>1, <3>2
    <3> QED
      BY <1>14, <2>1, <3>3, TakenIsThere
  <2>6. HonestSave'
    BY <1>3, <2>3, <2>5 DEF HonestSave
  <2> QED
    BY <1>5, <2>1, <2>6 DEF Honest
<1>8. ASSUME NEW word \in {"saved", "syncing"}, Ends(word),
             There(m)' \/ (word = "syncing" /\ queue'[m] # Nil)
      PROVE  HonestTold' /\ HonestSave'
  <2>1. save' = Nil
    BY <1>8 DEF Ends
  <2>2. \A n \in Forms \ {m} : told'[n] = told[n]
    BY <1>1, <1>3, <1>8 DEF Ends, SaveTypeOK
  <2>3. told'[m] = word
    BY <1>1, <1>3, <1>8 DEF Ends, SaveTypeOK
  <2>4. \A n \in Forms : /\ told[n] = "saved" => There(n)'
                         /\ told[n] = "syncing" => There(n)' \/ queue'[n] # Nil
    BY <1>4, <1>6 DEF Honest, HonestTold, LeavesForServer
  <2>5. ASSUME NEW n \in Forms
        PROVE  /\ told'[n] = "saved" => There(n)'
               /\ told'[n] = "syncing" => There(n)' \/ queue'[n] # Nil
    <3>1. CASE n # m
      BY <2>2, <2>4, <3>1
    <3>2. CASE n = m
      BY <1>8, <2>3, <3>2
    <3> QED
      BY <3>1, <3>2
  <2>6. Forms' = Forms
    BY DEF Forms
  <2> QED
    BY <2>1, <2>5, <2>6 DEF HonestTold, HonestSave
<1>9. CASE PostConfirmed
  <2>1. There(m)
    BY <1>2, <1>3, <1>9 DEF PostConfirmed, Honest, HonestSave
  <2>2. There(m)'
    BY <1>6, <2>1
  <2>3. UNCHANGED <<flush, confirming>> /\ Ends("saved")
    BY <1>9 DEF PostConfirmed
  <2> QED
    BY <1>5, <1>8, <2>2, <2>3 DEF Honest
<1>10. CASE PostKept
  <2>1. UNCHANGED <<told, flush, confirming>> /\ save'.step = "keep"
    BY <1>2, <1>10 DEF PostKept, Save
  <2> QED
    BY <1>5, <2>1 DEF Honest, HonestSave
<1>11. CASE PostFailed
  <2>1. UNCHANGED <<flush, confirming, queue>> /\ save' = Nil
    BY <1>11 DEF PostFailed
  <2>2. \A n \in Forms : told'[n] = told[n] \/ told'[n] = "failed"
    BY <1>1, <1>11 DEF PostFailed, SaveTypeOK
  <2>3. HonestTold'
    <3>1. \A n \in Forms : /\ told[n] = "saved" => There(n)'
                           /\ told[n] = "syncing" => There(n)' \/ queue'[n] # Nil
      BY <1>4, <1>6 DEF Honest, HonestTold, LeavesForServer
    <3>2. Forms' = Forms
      BY DEF Forms
    <3> QED
      BY <2>2, <3>1, <3>2 DEF HonestTold
  <2> QED
    BY <1>5, <2>1, <2>3 DEF Honest, HonestSave
<1>12. CASE Store
  <2>1. UNCHANGED <<told, flush, confirming>>
    BY <1>12 DEF Store
  <2>2. [kind |-> save.kind, key |-> save.key, body |-> save.body, rejected |-> FALSE] \in Item
    BY <1>2 DEF Save, Item
  <2>3. queue'[m] # Nil
    BY <1>1, <1>3, <1>12, <2>2, NilIsNoValue DEF Store, SaveTypeOK
  <2>4. save'.n = m /\ save'.step \in {"announce", "kept"}
    BY <1>2, <1>3, <1>12 DEF Store, Save
  <2> QED
    BY <1>5, <2>1, <2>3, <2>4 DEF Honest, HonestSave
<1>13. CASE Stored
  <2>1. There(m) \/ queue[m] # Nil
    BY <1>2, <1>3, <1>13 DEF Stored, Honest, HonestSave
  <2>2. There(m)' \/ queue'[m] # Nil
    BY <1>4, <1>6, <2>1 DEF LeavesForServer
  <2>3. confirming' = confirming /\ Ends("syncing")
    BY <1>13 DEF Stored
  <2>4. HonestRun'
    BY <1>1, <1>5, <1>13, RunRequested, NewRunHonest DEF Stored
  <2> QED
    BY <1>5, <1>8, <2>2, <2>3, <2>4 DEF Honest
<1> QED
  BY <1>7, <1>9, <1>10, <1>11, <1>12, <1>13 DEF SaveStep

\* The steps of a run.
LEMMA RunStepHonest ==
    ASSUME SaveTypes, SaveTypes', Grows, Kinds, OneKey, Honest, RunStep
    PROVE  Honest' /\ LeavesForServer
<1>1. SaveTypeOK /\ SaveTypeOK' /\ AnswerIsForOne
  BY DEF SaveTypes
<1>2. flush # Nil /\ flush \in Run /\ flush.items \in [Forms -> Item \cup {Nil}]
      /\ flush.synced \subseteq Forms
  BY <1>1 DEF RunStep, ReadOutbox, Send, Settle, EndRun, SaveTypeOK, Run
<1> USE DEF ui, strip, server
<1>3. UNCHANGED <<told, save, opened, kind>>
  BY DEF RunStep, ReadOutbox, Send, Settle, EndRun
<1>4. ASSUME LeavesForServer
      PROVE  /\ HonestTold' /\ HonestSave'
             /\ flush' = flush => HonestRun'
             /\ confirming' = confirming => HonestStrip'
  BY <1>3, <1>4, StillHonest
<1>5. \A n \in Forms : There(n) => There(n)'
  BY ThereStays
<1>6. CASE ReadOutbox
  <2>1. queue' = queue /\ confirming' = confirming
    BY <1>6 DEF ReadOutbox
  <2>2. flush'.step = "next" /\ flush'.synced = flush.synced
    BY <1>2, <1>6 DEF ReadOutbox, Run
  <2>3. HonestRun'
    BY <1>2, <1>5, <2>2 DEF Honest, HonestRun
  <2> QED
    BY <1>4, <2>1, <2>3 DEF LeavesForServer, Honest
<1>7. CASE Send
  <2>1. PICK m \in Forms : m = Min(Todo)
    BY <1>1, <1>2, <1>7, AtEntry DEF Send
  <2>2. PICK item \in Item : item = flush.items[m] /\ flush.items[m] # Nil
    BY <1>1, <1>2, <1>7, <2>1, AtEntry DEF Send, Todo
  <2>3. m <= opened /\ item.kind = kind[m] /\ item.key \in Keys
        /\ (item.kind = "new" => Bears(m, item.key))
    BY <1>2, <2>2 DEF Kinds, Item, Bears
  <2>4. PICK step \in {"ok", "end", "refused"} :
          flush' = [flush EXCEPT !.step = step] /\ (step = "ok" => Take(m, item))
    BY <1>7, <2>1, <2>2 DEF Send
  <2>5. flush'.step = step /\ flush'.items = flush.items /\ flush'.synced = flush.synced /\ flush' # Nil
    BY <1>2, <2>4, NilIsNoValue DEF Run
  <2>6. step = "ok" => There(m)'
    BY <1>3, <2>3, <2>4, TakenIsThere
  <2>7. Todo' = Todo
    BY <2>5 DEF Todo, Forms
  <2>8. m = Min(Todo)'
    BY <2>1, <2>7
  <2>9. HonestRun'
    BY <1>2, <1>5, <2>5, <2>6, <2>8 DEF Honest, HonestRun
  <2>10. queue' = queue /\ confirming' = confirming
    BY <1>7 DEF Send
  <2> QED
    BY <1>4, <2>9, <2>10 DEF LeavesForServer, Honest
<1>8. CASE Settle
  <2>1. PICK m \in Forms : m = Min(Todo)
    BY <1>1, <1>2, <1>8, AtEntry DEF Settle, AnswerIsForOne
  <2>2. flush.step = "ok" => There(m)
    BY <1>2, <2>1 DEF Honest, HonestRun
  <2>3. LeavesForServer
    <3>1. ASSUME NEW n \in Forms, queue[n] # Nil, queue'[n] = Nil PROVE n = m /\ flush.step = "ok"
      <4>1. queue[m] # Nil => [queue[m] EXCEPT !.rejected = TRUE] \in Item
        <5>1. \A i \in Item : [i EXCEPT !.rejected = TRUE] \in Item
          BY DEF Item
        <5>2. queue[m] # Nil => queue[m] \in Item
          BY <1>1 DEF SaveTypeOK
        <5> QED
          BY <5>1, <5>2
      <4> QED
        BY <1>1, <1>8, <2>1, <3>1, <4>1, NilIsNoValue DEF Settle, SaveTypeOK
    <3> QED
      BY <1>5, <2>2, <3>1 DEF LeavesForServer
  <2>4. HonestRun'
    <3>1. /\ flush'.step = "next"
          /\ \A n \in flush'.synced : n \in flush.synced \/ (n = m /\ flush.step = "ok")
      BY <1>8, <2>1 DEF Settle
    <3>2. \A n \in flush'.synced : n \in Forms /\ There(n)
      BY <1>2, <2>2, <3>1 DEF Honest, HonestRun
    <3> QED
      BY <1>5, <3>1, <3>2 DEF HonestRun
  <2>5. confirming' = confirming
    BY <1>8 DEF Settle
  <2> QED
    BY <1>4, <2>3, <2>4, <2>5 DEF Honest
<1>9. CASE EndRun
  <2>1. queue' = queue /\ (flush' = NewRun \/ flush' = Nil)
    BY <1>9 DEF EndRun
  <2>2. HonestStrip'
    <3>1. \A n \in confirming' : n \in Forms /\ There(n) /\ kind[n] = "new"
      BY <1>1, <1>2, <1>9 DEF EndRun, Honest, HonestRun, HonestStrip, SaveTypeOK
    <3> QED
      BY <1>3, <1>5, <3>1 DEF HonestStrip
  <2> QED
    BY <1>4, <2>1, <2>2, NewRunHonest DEF LeavesForServer, Honest
<1> QED
  BY <1>6, <1>7, <1>8, <1>9 DEF RunStep

\* All other steps.
LEMMA PageStepHonest ==
    ASSUME SaveTypes, SaveTypes', Grows, Kinds, OneKey, Honest,
           \/ (\E k \in {"new", "edit"} : Open(k)) \/ Fill \/ Close \/ Click
           \/ Timer \/ HelperSends \/ (\E n \in Forms : TryAgain(n) \/ Forget(n))
           \/ ReadRows \/ AnswerFetch \/ ShowList
           \/ KnowOwner \/ GoOffline \/ GoOnline
    PROVE  Honest' /\ LeavesForServer
<1>1. SaveTypeOK
  BY DEF SaveTypes
<1> USE DEF ui, strip, server
<1>2. ASSUME LeavesForServer, UNCHANGED <<told, confirming>>, save' = save \/ HonestSave',
             flush' = flush \/ flush' = NewRun
      PROVE  Honest' /\ LeavesForServer
  BY <1>2, StillHonest, NewRunHonest DEF Honest
<1>3. ASSUME queue' = queue PROVE LeavesForServer
  BY <1>3 DEF LeavesForServer
<1>4. CASE (\E k \in {"new", "edit"} : Open(k)) \/ Fill \/ Close \/ ReadRows \/ AnswerFetch
           \/ ShowList \/ GoOffline
  BY <1>2, <1>3, <1>4 DEF Open, Fill, Close, ReadRows, AnswerFetch, ShowList, GoOffline
<1>5. CASE Click
  <2>1. save'.step \in {"store", "post"}
    BY <1>5 DEF Click
  <2>2. UNCHANGED <<told, confirming, flush, queue>>
    BY <1>5 DEF Click
  <2> QED
    BY <1>2, <1>3, <2>1, <2>2 DEF HonestSave
<1>6. CASE Timer \/ KnowOwner \/ GoOnline
  BY <1>1, <1>2, <1>3, <1>6, RunRequested DEF Timer, KnowOwner, GoOnline
<1>7. CASE HelperSends
  <2>1. PICK m \in Forms : m = Min(Pending) /\ queue[m] # Nil
    BY <1>1, <1>7, OldestWaits DEF HelperSends, Pending
  <2>2. PICK item \in Item : item = queue[m]
    BY <1>1, <2>1 DEF SaveTypeOK
  <2>3. m <= opened /\ item.kind = kind[m] /\ item.key \in Keys
        /\ (item.kind = "new" => Bears(m, item.key))
    BY <2>1, <2>2 DEF Kinds, Item, Bears
  <2>4. Take(m, item) /\ UNCHANGED <<opened, told, confirming, save, flush>>
    BY <1>7, <2>1, <2>2 DEF HelperSends
  <2>5. There(m)'
    BY <2>3, <2>4, TakenIsThere
  <2>6. \A n \in Forms \ {m} : queue'[n] = queue[n]
    BY <1>1, <1>7, <2>1 DEF HelperSends, SaveTypeOK
  <2>7. LeavesForServer
    BY <2>5, <2>6 DEF LeavesForServer
  <2> QED
    BY <1>2, <2>4, <2>7
<1>8. ASSUME NEW m \in Forms, TryAgain(m) PROVE Honest' /\ LeavesForServer
  <2>1. [queue[m] EXCEPT !.rejected = FALSE] \in Item
    <3>1. \A i \in Item : [i EXCEPT !.rejected = FALSE] \in Item
      BY DEF Item
    <3>2. queue[m] \in Item
      BY <1>1, <1>8 DEF TryAgain, SaveTypeOK
    <3> QED
      BY <3>1, <3>2
  <2>2. \A n \in Forms : queue[n] # Nil => queue'[n] # Nil
    BY <1>1, <1>8, <2>1, NilIsNoValue DEF TryAgain, SaveTypeOK
  <2>3. LeavesForServer
    BY <2>2 DEF LeavesForServer
  <2> QED
    BY <1>1, <1>2, <1>8, <2>3, RunRequested DEF TryAgain
<1>9. ASSUME NEW m \in Forms, Forget(m) PROVE Honest' /\ LeavesForServer
  <2>1. UNCHANGED <<told, save, flush, queue>> /\ confirming' \subseteq confirming
    BY <1>9 DEF Forget
  <2>2. HonestStrip'
    <3>1. \A n \in confirming : n \in Forms /\ There(n)' /\ kind'[n] = "new"
      BY <1>1, ThereStays DEF Honest, HonestStrip, SaveTypeOK
    <3> QED
      BY <2>1, <3>1 DEF HonestStrip
  <2>3. LeavesForServer
    BY <1>3, <2>1
  <2> QED
    BY <2>1, <2>2, <2>3, StillHonest DEF Honest
<1> QED
  BY <1>4, <1>5, <1>6, <1>7, <1>8, <1>9

\* Nothing is told that is not so.
TruthInv == SaveTypes /\ Kinds /\ OneKey /\ Honest

LEMMA NextTruth == TruthInv /\ [SaveNext]_pathVars => TruthInv' /\ LeavesForServer
<1> SUFFICES ASSUME TruthInv, [SaveNext]_pathVars PROVE TruthInv' /\ LeavesForServer
  OBVIOUS
<1>1. /\ SaveTypes /\ SaveTypes' /\ Grows /\ Kinds /\ OneKey /\ Honest
      /\ Kinds' /\ OneKey'
  BY SaveNextTypes, EverGrows, NextKeys DEF TruthInv
<1> SUFFICES Honest' /\ LeavesForServer
  BY <1>1 DEF TruthInv
<1>2. CASE UNCHANGED pathVars
  BY <1>1, <1>2, StillHonest DEF pathVars, LeavesForServer, Honest
<1>3. CASE SaveStep
  BY <1>1, <1>3, SaveStepHonest
<1>4. CASE RunStep
  BY <1>1, <1>4, RunStepHonest
<1>5. CASE \/ (\E k \in {"new", "edit"} : Open(k)) \/ Fill \/ Close \/ Click
           \/ Timer \/ HelperSends \/ (\E n \in Forms : TryAgain(n) \/ Forget(n))
           \/ ReadRows \/ AnswerFetch \/ ShowList
           \/ KnowOwner \/ GoOffline \/ GoOnline
  BY <1>1, <1>5, PageStepHonest
<1> QED
  BY ONLY <1>2, <1>3, <1>4, <1>5, [SaveNext]_pathVars DEF SaveNext

LEMMA InitTruth == SaveInit => TruthInv
<1> SUFFICES ASSUME SaveInit PROVE Honest
  BY SaveInitTypes, InitKeys DEF TruthInv
<1> QED
  BY NilIsNoValue DEF SaveInit, Honest, HonestTold, HonestSave, HonestRun, HonestStrip

\* saveTransaction.ts:86, for any number of forms, faults and retries: what was
\* reported saved the server has, and what was reported syncing is in the outbox
\* until the server has it.
THEOREM TruthIsTold == SaveSpec => []TellsTheTruth
<1>1. TruthInv => TellsTheTruth
  <2>1. SUFFICES ASSUME TruthInv PROVE TellsTheTruth
    OBVIOUS
  <2>2. HonestTold
    BY <2>1 DEF TruthInv, Honest
  <2> QED
    BY <2>2 DEF HonestTold, There, TellsTheTruth
<1>2. SaveInit => TruthInv
  BY InitTruth
<1>3. TruthInv /\ [SaveNext]_pathVars => TruthInv'
  BY NextTruth
<1> QED
  BY <1>1, <1>2, <1>3, PTL DEF SaveSpec

-----------------------------------------------------------------------------
(* What the page shows *)

\* The strip shows what is in the outbox, but for what the service worker took.
StripIsRead == ~unread => \A n \in Forms \ byHelper : rows[n] = Nil <=> queue[n] = Nil

\* A list is of records the server has, and a later one has those of an earlier.
ListsGrow ==
    /\ \A n \in list.created : Recorded(n)
    /\ fetch.step = "answered" =>
          list.created \subseteq fetch.list.created /\ \A n \in fetch.list.created : Recorded(n)

\* The user was told of entry n, or is about to be.
Promised(n) ==
    \/ told[n] \in {"syncing", "saved"}
    \/ save # Nil /\ save.n = n /\ save.step \in {"announce", "kept"}

\* Entry n is in the list or will be in one that the page fetches.
Coming(n) ==
    \/ n \in list.created
    \/ fetch.step = "asked"
    \/ fetch.step = "answered" /\ n \in fetch.list.created
    \/ flush # Nil /\ n \in flush.synced

\* What has left the outbox comes into the list.
LeavesForTheList ==
    \A n \in Forms \ byHelper :
        Promised(n) /\ kind[n] = "new" /\ queue[n] = Nil => Coming(n)

\* What a step can do to the list and its fetch, and to what a run has confirmed.
LEMMA FetchGoesOn ==
    ASSUME SaveTypes, [SaveNext]_pathVars
    PROVE  \/ fetch' = Asked /\ UNCHANGED list
           \/ AnswerFetch
           \/ ShowList
           \/ /\ UNCHANGED <<fetch, list>>
              /\ \A n : flush # Nil /\ n \in flush.synced => flush' # Nil /\ n \in flush'.synced
<1>1. SaveTypeOK
  BY DEF SaveTypes
<1> DEFINE Confirmed == \A n : flush # Nil /\ n \in flush.synced => flush' # Nil /\ n \in flush'.synced
<1> USE DEF ui, strip, server
<1>2. ASSUME flush' = flush PROVE Confirmed
  BY <1>2
<1>3. ASSUME RequestFlush PROVE Confirmed
  BY <1>3 DEF RequestFlush
<1>4. CASE UNCHANGED pathVars
  BY <1>2, <1>4 DEF pathVars
<1>5. CASE SaveStep
  BY <1>2, <1>3, <1>5 DEF SaveStep, Post, PostConfirmed, PostKept, PostFailed, Store, Stored
<1>6. CASE ReadOutbox \/ Send
  <2>1. flush \in Run /\ UNCHANGED <<fetch, list>>
    BY <1>1, <1>6 DEF ReadOutbox, Send, SaveTypeOK
  <2>2. flush'.synced = flush.synced /\ flush' # Nil
    <3>1. CASE ReadOutbox
      <4>1. [n \in Forms |-> IF n \in Pending THEN queue[n] ELSE Nil] \in [Forms -> Item \cup {Nil}]
        BY <1>1 DEF SaveTypeOK
      <4>2. flush' \in Run
        BY <2>1, <3>1, <4>1 DEF ReadOutbox, Run
      <4> QED
        BY <2>1, <3>1, <4>2, NilIsNoValue DEF ReadOutbox, Run
    <3>2. CASE Send
      <4>1. PICK step \in {"ok", "end", "refused"} : flush' = [flush EXCEPT !.step = step]
        BY <3>2 DEF Send
      <4>2. step \in {"read", "next", "ok", "refused", "end"}
        OBVIOUS
      <4> QED
        BY ONLY <2>1, <4>1, <4>2, RunGoesOn
    <3> QED
      BY <1>6, <3>1, <3>2
  <2> QED
    BY <2>1, <2>2
<1>7. CASE Settle
  <2>1. UNCHANGED <<fetch, list>>
    BY <1>7 DEF Settle
  <2>2. flush'.synced = IF flush.step = "ok" THEN flush.synced \cup {Min(Todo)} ELSE flush.synced
    BY <1>7 DEF Settle
  <2>3. flush' # Nil
    <3>1. flush.items \in [Forms -> Item \cup {Nil}] /\ flush.synced \subseteq Forms /\ flush \in Run
      BY <1>1, <1>7 DEF Settle, SaveTypeOK, Run
    <3>2. Min(Todo) \in Forms
      BY <1>1, <1>7, AtEntry DEF Settle, SaveTypes, AnswerIsForOne
    <3>3. flush' \in Run
      BY <1>7, <3>1, <3>2 DEF Settle, Run
    <3> QED
      BY <3>3, NilIsNoValue
  <2> QED
    BY <2>1, <2>2, <2>3
<1>8. CASE EndRun
  BY <1>8 DEF EndRun
<1>9. CASE (\E k \in {"new", "edit"} : Open(k)) \/ Fill \/ Close \/ Click
           \/ (\E n \in Forms : Forget(n)) \/ ReadRows \/ GoOffline
  BY <1>2, <1>9 DEF Open, Fill, Close, Click, Forget, ReadRows, GoOffline
<1>10. CASE Timer \/ (\E n \in Forms : TryAgain(n)) \/ KnowOwner \/ GoOnline
  BY <1>3, <1>10 DEF Timer, TryAgain, KnowOwner, GoOnline
<1>11. CASE HelperSends
  BY <1>11 DEF HelperSends
<1> QED
  BY ONLY [SaveNext]_pathVars, <1>4, <1>5, <1>6, <1>7, <1>8, <1>9, <1>10, <1>11 DEF SaveNext, RunStep

\* The strip reads the outbox after every change the page makes to it.
LEMMA StripStaysRead ==
    ASSUME SaveTypes, SaveTypes', StripIsRead, [SaveNext]_pathVars
    PROVE  StripIsRead'
<1>1. SaveTypeOK /\ SaveTypeOK'
  BY DEF SaveTypes
<1> USE DEF ui, strip, server
<1>2. ASSUME UNCHANGED <<queue, rows, unread, byHelper>> PROVE StripIsRead'
  BY <1>2 DEF StripIsRead
<1>3. ASSUME unread' = TRUE PROVE StripIsRead'
  BY <1>3 DEF StripIsRead
<1>4. CASE UNCHANGED pathVars
  BY <1>2, <1>4 DEF pathVars
<1>5. CASE SaveStep
  BY <1>2, <1>3, <1>5 DEF SaveStep, Post, PostConfirmed, PostKept, PostFailed, Store, Stored
<1>6. CASE RunStep
  BY <1>2, <1>3, <1>6 DEF RunStep, ReadOutbox, Send, Settle, EndRun
<1>7. CASE ReadRows
  BY <1>7 DEF ReadRows, StripIsRead
<1>8. CASE HelperSends
  <2>1. /\ rows' = rows /\ unread' = unread /\ byHelper' = byHelper \cup {Min(Pending)}
        /\ queue' = [queue EXCEPT ![Min(Pending)] = Nil]
    BY <1>8 DEF HelperSends
  <2>2. \A n \in Forms \ byHelper' : queue'[n] = queue[n] /\ n \notin byHelper
    BY <1>1, <2>1 DEF SaveTypeOK
  <2> QED
    BY <2>1, <2>2 DEF StripIsRead
<1>9. CASE \/ (\E k \in {"new", "edit"} : Open(k)) \/ Fill \/ Close \/ Click
           \/ Timer \/ (\E n \in Forms : TryAgain(n) \/ Forget(n))
           \/ AnswerFetch \/ ShowList \/ KnowOwner \/ GoOffline \/ GoOnline
  BY <1>2, <1>3, <1>9
     DEF Open, Fill, Close, Click, Timer, TryAgain, Forget, AnswerFetch, ShowList,
         KnowOwner, GoOffline, GoOnline
<1> QED
  BY ONLY [SaveNext]_pathVars, <1>4, <1>5, <1>6, <1>7, <1>8, <1>9 DEF SaveNext

\* What the server answers the list's request.
LEMMA AnswerHasRecords ==
    ASSUME SaveTypes, AnswerFetch
    PROVE  /\ fetch'.step = "answered" /\ UNCHANGED <<list, created>>
           /\ \A n \in Forms : n \in fetch'.list.created <=> Recorded(n)
           /\ fetch'.list.created \subseteq Forms
<1>1. created \subseteq Forms \X Keys
  BY DEF SaveTypes, SaveTypeOK
<1>2. /\ fetch'.step = "answered" /\ fetch'.list.created = {c[1] : c \in created}
      /\ UNCHANGED <<list, created>>
  BY DEF AnswerFetch, server
<1>3. ASSUME NEW n \in Forms PROVE n \in {c[1] : c \in created} <=> Recorded(n)
  <2>1. ASSUME Recorded(n) PROVE n \in {c[1] : c \in created}
    <3>1. PICK k \in Keys : <<n, k>> \in created
      BY <2>1 DEF Recorded
    <3>2. <<n, k>>[1] = n
      OBVIOUS
    <3> QED
      BY <3>1, <3>2
  <2>2. ASSUME n \in {c[1] : c \in created} PROVE Recorded(n)
    <3>1. PICK c \in created : c[1] = n
      BY <2>2
    <3>2. c = <<n, c[2]>> /\ c[2] \in Keys
      BY <1>1, <3>1
    <3> QED
      BY <3>1, <3>2 DEF Recorded
  <2> QED
    BY <2>1, <2>2
<1>4. {c[1] : c \in created} \subseteq Forms
  BY <1>1
<1> QED
  BY <1>2, <1>3, <1>4

\* A record stays, a list lists records, and a later list has those of an earlier one.
LEMMA ListsStillGrow ==
    ASSUME SaveTypes, SaveTypes', Grows, ListsGrow, [SaveNext]_pathVars
    PROVE  ListsGrow'
<1>1. SaveTypeOK /\ SaveTypeOK' /\ Keys' = Keys
  BY DEF SaveTypes, Keys
<1>2. \A n : Recorded(n) => Recorded(n)'
  BY <1>1 DEF Grows, Recorded
<1>3. list.created \subseteq Forms
  BY <1>1 DEF SaveTypeOK, List
<1>4. CASE fetch' = Asked /\ UNCHANGED list
  BY <1>2, <1>4 DEF ListsGrow, Asked
<1>5. CASE AnswerFetch
  <2>1. list.created \subseteq fetch'.list.created
    BY <1>3, <1>5, AnswerHasRecords DEF ListsGrow
  <2>2. \A n \in fetch'.list.created : Recorded(n)
    BY <1>5, AnswerHasRecords
  <2> QED
    BY <1>2, <1>5, <2>1, <2>2, AnswerHasRecords DEF ListsGrow
<1>6. CASE ShowList
  BY <1>2, <1>6 DEF ShowList, ListsGrow, NoFetch
<1>7. CASE UNCHANGED <<fetch, list>>
  BY <1>2, <1>7 DEF ListsGrow
<1> QED
  BY <1>4, <1>5, <1>6, <1>7, FetchGoesOn

\* What comes into the list still does, or it is there.
LEMMA StillComing ==
    ASSUME SaveTypes, SaveTypes', ListsGrow, [SaveNext]_pathVars,
           NEW n \in Forms, Recorded(n), Coming(n)
    PROVE  Coming(n)'
<1>1. CASE fetch' = Asked
  BY <1>1 DEF Coming, Asked
<1>2. CASE AnswerFetch
  <2>1. fetch'.step = "answered" /\ n \in fetch'.list.created
    BY <1>2, AnswerHasRecords
  <2> QED
    BY <2>1 DEF Coming
<1>3. CASE ShowList
  <2>1. list' = fetch.list /\ fetch.step = "answered" /\ flush' = flush
    BY <1>3 DEF ShowList
  <2> QED
    BY <2>1 DEF Coming, ListsGrow
<1>4. CASE /\ UNCHANGED <<fetch, list>>
           /\ \A m : flush # Nil /\ m \in flush.synced => flush' # Nil /\ m \in flush'.synced
  BY <1>4 DEF Coming
<1> QED
  BY <1>1, <1>2, <1>3, <1>4, FetchGoesOn

\* Who is told of an entry: one whose save is in the outbox, or after which the
\* list is fetched.
LEMMA PromisesKept ==
    ASSUME SaveTypes, SaveTypes', [SaveNext]_pathVars, NEW n \in Forms, Promised(n)'
    PROVE  Promised(n) \/ queue'[n] # Nil \/ fetch' = Asked
<1>1. SaveTypeOK /\ SaveTypeOK'
  BY DEF SaveTypes
<1>2. ASSUME UNCHANGED <<told, save>> PROVE Promised(n)
  BY <1>2 DEF Promised
<1> USE DEF ui, strip, server
<1>3. CASE UNCHANGED pathVars
  BY <1>2, <1>3 DEF pathVars
<1>4. CASE SaveStep
  <2>1. save # Nil /\ save \in Save /\ save.n \in Forms
    BY <1>1, <1>4
       DEF SaveStep, Post, PostConfirmed, PostKept, PostFailed, Store, Stored, SaveTypeOK, Save
  <2>2. CASE Post
    <3>1. PICK step \in {"taken", "lost", "refused"} : save' = [save EXCEPT !.step = step]
      BY <2>2 DEF Post
    <3>2. save'.step = step
      BY <2>1, <3>1, SaveGoesOn
    <3> QED
      BY <2>2, <3>2 DEF Post, Promised
  <2>3. CASE PostConfirmed
    BY <2>3 DEF PostConfirmed
  <2>4. CASE PostKept
    <3>1. save'.step = "keep"
      BY <2>1, <2>4, SaveGoesOn DEF PostKept
    <3> QED
      BY <2>4, <3>1 DEF PostKept, Promised
  <2>5. CASE PostFailed
    BY <1>1, <2>1, <2>5 DEF PostFailed, Promised, SaveTypeOK
  <2>6. CASE Store
    <3>1. save'.n = save.n
      BY <2>1, <2>6, SaveGoesOn DEF Store
    <3>2. CASE n = save.n
      <4>1. [kind |-> save.kind, key |-> save.key, body |-> save.body, rejected |-> FALSE] \in Item
        BY <2>1 DEF Save, Item
      <4>2. queue'[n] # Nil
        BY <1>1, <2>6, <3>2, <4>1, NilIsNoValue DEF Store, SaveTypeOK
      <4> QED
        BY <4>2
    <3>3. CASE n # save.n
      BY <2>6, <3>1, <3>3 DEF Store, Promised
    <3> QED
      BY <3>2, <3>3
  <2>7. CASE Stored
    BY <1>1, <2>1, <2>7 DEF Stored, Ends, Promised, SaveTypeOK
  <2> QED
    BY <1>4, <2>2, <2>3, <2>4, <2>5, <2>6, <2>7 DEF SaveStep
<1>5. CASE RunStep
  BY <1>2, <1>5 DEF RunStep, ReadOutbox, Send, Settle, EndRun
<1>6. CASE Click
  <2>1. save'.step \in {"store", "post"} /\ told' = told
    BY <1>6 DEF Click
  <2> QED
    BY <2>1 DEF Promised
<1>7. CASE \/ (\E k \in {"new", "edit"} : Open(k)) \/ Fill \/ Close
           \/ Timer \/ HelperSends \/ (\E m \in Forms : TryAgain(m) \/ Forget(m))
           \/ ReadRows \/ AnswerFetch \/ ShowList \/ KnowOwner \/ GoOffline \/ GoOnline
  BY <1>2, <1>7
     DEF Open, Fill, Close, Timer, HelperSends, TryAgain, Forget, ReadRows, AnswerFetch,
         ShowList, KnowOwner, GoOffline, GoOnline
<1> QED
  BY ONLY [SaveNext]_pathVars, <1>3, <1>4, <1>5, <1>6, <1>7 DEF SaveNext

\* How an entry leaves the outbox: the service worker has sent it, or a run that
\* has noted it as confirmed.
LEMMA LeavesConfirmed ==
    ASSUME SaveTypes, SaveTypes', [SaveNext]_pathVars, NEW n \in Forms, queue[n] # Nil, queue'[n] = Nil
    PROVE  n \in byHelper' \/ (flush' # Nil /\ n \in flush'.synced)
<1>1. SaveTypeOK /\ SaveTypeOK' /\ AnswerIsForOne
  BY DEF SaveTypes
<1> USE DEF ui, strip, server
<1>2. ASSUME queue' = queue PROVE FALSE
  BY <1>2
<1>3. CASE UNCHANGED pathVars
  BY <1>2, <1>3 DEF pathVars
<1>4. CASE SaveStep
  <2>1. CASE Store
    <3>1. save \in Save
      BY <1>1, <2>1 DEF Store, SaveTypeOK
    <3>2. [kind |-> save.kind, key |-> save.key, body |-> save.body, rejected |-> FALSE] \in Item
      BY <3>1 DEF Save, Item
    <3> QED
      BY <1>1, <2>1, <3>2, NilIsNoValue DEF Store, SaveTypeOK
  <2> QED
    BY <1>2, <1>4, <2>1 DEF SaveStep, Post, PostConfirmed, PostKept, PostFailed, Stored
<1>5. CASE ReadOutbox \/ Send \/ EndRun
  BY <1>2, <1>5 DEF ReadOutbox, Send, EndRun
<1>6. CASE Settle
  <2>1. Min(Todo) \in Forms
    BY <1>1, <1>6, AtEntry DEF Settle, AnswerIsForOne
  <2>2. n = Min(Todo) /\ flush.step = "ok"
    <3>1. \A i \in Item : [i EXCEPT !.rejected = TRUE] \in Item
      BY DEF Item
    <3>2. \A m \in Forms : queue[m] # Nil => queue[m] \in Item
      BY <1>1 DEF SaveTypeOK
    <3>3. queue[Min(Todo)] # Nil => [queue[Min(Todo)] EXCEPT !.rejected = TRUE] \in Item
      BY <2>1, <3>1, <3>2
    <3> QED
      BY <1>1, <1>6, <2>1, <3>3, NilIsNoValue DEF Settle, SaveTypeOK
  <2>3. n \in flush'.synced
    BY <1>6, <2>2 DEF Settle
  <2>4. flush' # Nil
    <3>1. flush.items \in [Forms -> Item \cup {Nil}] /\ flush.synced \subseteq Forms
      BY <1>1, <1>6 DEF Settle, SaveTypeOK, Run
    <3>2. flush' \in Run
      BY <1>6, <2>1, <3>1 DEF Settle, Run
    <3> QED
      BY <3>2, NilIsNoValue
  <2> QED
    BY <2>3, <2>4
<1>7. CASE HelperSends
  BY <1>1, <1>7 DEF HelperSends, SaveTypeOK
<1>8. ASSUME NEW m \in Forms, TryAgain(m) PROVE FALSE
  <2>1. \A i \in Item : [i EXCEPT !.rejected = FALSE] \in Item
    BY DEF Item
  <2>2. queue[m] \in Item
    BY <1>1, <1>8 DEF TryAgain, SaveTypeOK
  <2>3. [queue[m] EXCEPT !.rejected = FALSE] \in Item
    BY <2>1, <2>2
  <2> QED
    BY <1>1, <1>8, <2>3, NilIsNoValue DEF TryAgain, SaveTypeOK
<1>9. CASE \/ (\E k \in {"new", "edit"} : Open(k)) \/ Fill \/ Close \/ Click
           \/ Timer \/ (\E m \in Forms : Forget(m))
           \/ ReadRows \/ AnswerFetch \/ ShowList \/ KnowOwner \/ GoOffline \/ GoOnline
  BY <1>2, <1>9
     DEF Open, Fill, Close, Click, Timer, Forget, ReadRows, AnswerFetch, ShowList,
         KnowOwner, GoOffline, GoOnline
<1> QED
  BY ONLY [SaveNext]_pathVars, <1>3, <1>4, <1>5, <1>6, <1>7, <1>8, <1>9 DEF SaveNext, RunStep

\* The service worker's sends are counted for good.
LEMMA HelpCounts ==
    ASSUME [SaveNext]_pathVars
    PROVE  byHelper \subseteq byHelper'
<1> USE DEF ui, strip, server
<1>1. CASE HelperSends
  BY <1>1 DEF HelperSends
<1>2. CASE SaveStep \/ RunStep
  BY <1>2 DEF SaveStep, RunStep, Post, PostConfirmed, PostKept, PostFailed, Store, Stored,
              ReadOutbox, Send, Settle, EndRun
<1>3. CASE \/ (\E k \in {"new", "edit"} : Open(k)) \/ Fill \/ Close \/ Click
           \/ Timer \/ (\E m \in Forms : TryAgain(m) \/ Forget(m))
           \/ ReadRows \/ AnswerFetch \/ ShowList \/ KnowOwner \/ GoOffline \/ GoOnline
  BY <1>3
     DEF Open, Fill, Close, Click, Timer, TryAgain, Forget, ReadRows, AnswerFetch, ShowList,
         KnowOwner, GoOffline, GoOnline
<1> QED
  BY <1>1, <1>2, <1>3 DEF SaveNext, pathVars

\* What the page shows, as an invariant.
PageInv == TruthInv /\ StripIsRead /\ ListsGrow /\ LeavesForTheList

LEMMA NextPage == PageInv /\ [SaveNext]_pathVars => PageInv'
<1> SUFFICES ASSUME PageInv, [SaveNext]_pathVars PROVE PageInv'
  OBVIOUS
<1>1. /\ TruthInv /\ TruthInv' /\ SaveTypes /\ SaveTypes' /\ Grows
      /\ StripIsRead /\ ListsGrow /\ LeavesForTheList /\ Honest
  BY NextTruth, EverGrows DEF PageInv, TruthInv
<1>2. StripIsRead' /\ ListsGrow'
  BY <1>1, StripStaysRead, ListsStillGrow
<1>3. ASSUME NEW n \in Forms, n \notin byHelper', Promised(n)', kind'[n] = "new", queue'[n] = Nil
      PROVE  Coming(n)'
  <2>1. n \notin byHelper
    BY <1>3, HelpCounts
  <2>2. CASE fetch' = Asked
    BY <2>2 DEF Coming, Asked
  <2>3. CASE queue[n] # Nil
    BY <1>1, <1>3, <2>3, LeavesConfirmed DEF Coming
  <2>4. CASE queue[n] = Nil /\ fetch' # Asked
    <3>1. Promised(n)
      BY <1>1, <1>3, <2>4, PromisesKept
    <3>2. There(n)
      BY <1>1, <2>4, <3>1 DEF Promised, Honest, HonestTold, HonestSave
    <3>3. kind[n] = "new"
      BY <1>1, <1>3, <3>2, ThereStays
    <3>4. Recorded(n) /\ Coming(n)
      BY <1>1, <1>3, <2>1, <2>4, <3>1, <3>2, <3>3 DEF There, LeavesForTheList
    <3> QED
      BY <1>1, <3>4, StillComing
  <2> QED
    BY <2>2, <2>3, <2>4
<1>4. LeavesForTheList'
  <2>1. Forms' = Forms
    BY DEF Forms
  <2> QED
    BY <1>3, <2>1 DEF LeavesForTheList
<1> QED
  BY <1>1, <1>2, <1>4 DEF PageInv

LEMMA InitPage == SaveInit => PageInv
<1> SUFFICES ASSUME SaveInit PROVE StripIsRead /\ ListsGrow /\ LeavesForTheList
  BY InitTruth DEF PageInv
<1>1. EmptyList.created = {} /\ NoFetch.step = "none"
  BY DEF EmptyList, NoFetch
<1> QED
  BY <1>1, NilIsNoValue DEF SaveInit, Nothing, StripIsRead, ListsGrow, LeavesForTheList, Promised

\* In a quiet page an entry the user was told of is in one place.
LEMMA OnePlace ==
    ASSUME PageInv, Quiet, NEW n \in Forms, told[n] \in {"syncing", "saved"}, kind[n] = "new",
           n \notin byHelper, queue[n] = Nil \/ ~Recorded(n)
    PROVE  Shown(n) = {"strip"} \/ Shown(n) = {"list"}
<1>1. HonestTold /\ HonestStrip /\ SaveTypeOK
  BY DEF PageInv, TruthInv, Honest, SaveTypes
<1>2. \A m \in confirming : Recorded(m)
  BY <1>1 DEF HonestStrip, There
<1>3. \A m \in list.created : Recorded(m)
  BY DEF PageInv, ListsGrow
<1>4. rows[n] = Nil <=> queue[n] = Nil
  BY DEF PageInv, StripIsRead, Quiet
<1>5. CASE queue[n] # Nil
  <2>1. ~Recorded(n) /\ n \notin list.created /\ n \notin confirming
    BY <1>2, <1>3, <1>5
  <2> QED
    BY <1>4, <1>5, <2>1 DEF Shown
<1>6. CASE queue[n] = Nil
  <2>1. Coming(n)
    BY <1>6 DEF PageInv, LeavesForTheList, Promised
  <2>2. n \in list.created
    BY <2>1 DEF Coming, Quiet, NoFetch
  <2> QED
    BY <1>4, <1>6, <2>2 DEF Shown
<1> QED
  BY <1>5, <1>6

\* pendingTransactions.ts:14, for any number of forms, faults and retries: whenever
\* the page has caught up, an entry the user was told of is shown exactly once.
THEOREM EachShownOnce == SaveSpec => []ShownOnce
<1>1. PageInv => ShownOnce
  <2>1. SUFFICES ASSUME PageInv, Quiet, NEW n \in Forms, told[n] \in {"syncing", "saved"},
                        kind[n] = "new", n \notin byHelper, queue[n] = Nil \/ ~Recorded(n)
                 PROVE  Cardinality(Shown(n)) = 1
    BY DEF ShownOnce
  <2>2. PICK place \in {"strip", "list"} : Shown(n) = {place}
    BY <2>1, OnePlace
  <2> QED
    BY <2>2, FS_Singleton
<1>2. SaveInit => PageInv
  BY InitPage
<1>3. PageInv /\ [SaveNext]_pathVars => PageInv'
  BY NextPage
<1> QED
  BY <1>1, <1>2, <1>3, PTL DEF SaveSpec

-----------------------------------------------------------------------------
(* Edits build on edits *)

IsEdit(n) == n <= opened /\ kind[n] = "edit"
EditsUpTo(n, set) == \A e \in set : e <= n /\ IsEdit(e)

\* The edits in the outbox, and those that a run has read and not sent.
Queued == {n \in Forms : queue[n] # Nil /\ queue[n].kind = "edit"}
Reading == IF flush = Nil THEN {}
           ELSE {n \in Forms : flush.items[n] # Nil /\ flush.items[n].kind = "edit"}

Editing == form # Nil /\ form.kind = "edit"
Direct  == save # Nil /\ save.kind = "edit" /\ save.step \in {"post", "taken", "lost", "refused"}
Storing == save # Nil /\ save.kind = "edit" /\ save.step = "store"
\* The open form will be closed when the save under way is.
Closing == save # Nil /\ save.step \notin {"post", "lost", "refused"}

\* A body is of its own edit and earlier ones.
Bodies ==
    /\ EditsUpTo(opened, record) /\ EditsUpTo(opened, list.record)
    /\ EditsUpTo(opened, fetch.list.record)
    /\ \A n \in Queued : n \in queue[n].body /\ EditsUpTo(n, queue[n].body)
    /\ Editing /\ ~Closing => EditsUpTo(form.n - 1, form.base)
    /\ save # Nil /\ save.kind = "edit" => save.n \in save.body /\ EditsUpTo(save.n, save.body)

\* What is saved later was opened later.
InTurn ==
    /\ form # Nil => form.n = opened
    /\ save # Nil =>
        /\ \A n \in Queued : n <= save.n
        /\ \A e \in record : e <= save.n
    /\ Storing => save.n \notin Queued
    /\ Editing /\ ~Closing => form.n \notin Queued
    /\ Editing /\ save # Nil /\ form.n = save.n => form.filled \/ Closing

\* Before the account is known no edit is in the outbox, no form waits for one, and an
\* edit that is sent directly was begun blindly.
Unknown ==
    /\ ~owner \/ Direct => Queued = {}
    /\ Direct => save.n \in blind
    /\ save # Nil /\ save.step \in {"store", "announce"} => owner
    /\ save # Nil /\ save.step \in {"keep", "kept"} => save.kind = "new"
    /\ Editing /\ ~form.filled => owner
    /\ Editing /\ form.filled /\ (~owner \/ (save # Nil /\ form.n # save.n)) => form.n \in blind

\* A run sends what is in the outbox, in the order in which it came there.
RunInTurn ==
    /\ \A n \in Reading : n \in Queued /\ queue[n].body = flush.items[n].body
    /\ \A n \in Queued \ (Reading \cup refused) : \A m \in Reading : m < n
    /\ \A n \in Queued \ refused : \A e \in record : e <= n

\* An entry the server refused is marked so, and only such an entry.
RefusalsNoted ==
    /\ \A n \in Forms : queue[n] # Nil /\ queue[n].rejected => n \in refused
    /\ flush # Nil /\ flush.step = "refused" => Min(Todo) \in refused

\* The body B of a later edit has those in the outbox in it, and they were not begun blindly.
BuildsOnQueued(n, B) == \A d \in Queued : d < n => d \notin blind /\ queue[d].body \subseteq B

\* The body B has every edit of the record that the user was told of.
Covers(B) == \A e \in record \ B : e \in refused \/ told[e] \notin {"syncing", "saved"}

\* An edit that was not begun blindly builds on the ones before it.
Builds ==
    /\ \A n \in Queued \ blind :
        /\ BuildsOnQueued(n, queue[n].body)
        /\ n \notin refused => Covers(queue[n].body)
    /\ Storing /\ save.n \notin blind =>
        /\ BuildsOnQueued(save.n, save.body)
        /\ save.n \notin refused => Covers(save.body)
    /\ Editing /\ form.filled /\ ~Closing /\ form.n \notin blind =>
        /\ BuildsOnQueued(form.n, form.base)
        /\ form.n \notin refused => Covers(form.base \cup {form.n})

Edits == Bodies /\ InTurn /\ Unknown /\ RunInTurn /\ RefusalsNoted /\ Builds
EditInv == byHelper = {} => Bodies /\ InTurn /\ Unknown /\ RunInTurn /\ Builds

\* What is an edit stays one.
LEMMA EditsStay ==
    ASSUME SaveTypes, SaveTypes', Grows
    PROVE  \A e \in Forms : IsEdit(e) => IsEdit(e)'
<1>1. opened \in Nat /\ opened' \in Nat /\ \A e \in Forms : e \in Nat
  BY SaveAssumption DEF SaveTypes, SaveTypeOK, Forms
<1> QED
  BY <1>1 DEF IsEdit, Grows

\* What the parts of the invariant speak of.
LEMMA EditTypes ==
    ASSUME SaveTypes
    PROVE  /\ MaxForms \in Nat /\ opened \in 0..MaxForms
           /\ Forms \subseteq Nat /\ \A n \in Forms : n <= MaxForms
           /\ Queued \subseteq Forms /\ Reading \subseteq Forms
           /\ \A n \in Queued : queue[n] \in Item /\ queue[n] # Nil /\ queue[n].body \subseteq Forms
           /\ form # Nil => form \in Form /\ form.n \in Forms /\ form.base \subseteq Forms
           /\ save # Nil => /\ save \in Save /\ save.n \in Forms /\ save.body \subseteq Forms
                            /\ save.kind \in {"new", "edit"}
           /\ record \subseteq Forms /\ list.record \subseteq Forms /\ fetch.list.record \subseteq Forms
<1>1. SaveTypeOK /\ MaxForms \in Nat
  BY SaveAssumption DEF SaveTypes
<1>2. Queued \subseteq Forms /\ Reading \subseteq Forms
  BY DEF Queued, Reading
<1>3. \A n \in Queued : queue[n] \in Item /\ queue[n] # Nil
  BY <1>1 DEF Queued, SaveTypeOK
<1>4. \A n \in Queued : queue[n].body \subseteq Forms
  BY <1>3 DEF Item
<1>5. form # Nil => form \in Form /\ form.n \in Forms /\ form.base \subseteq Forms
  BY <1>1 DEF SaveTypeOK, Form
<1>6. save # Nil => save \in Save /\ save.n \in Forms /\ save.body \subseteq Forms /\ save.kind \in {"new", "edit"}
  BY <1>1 DEF SaveTypeOK, Save
<1>7. list.record \subseteq Forms /\ fetch.list.record \subseteq Forms
  BY <1>1 DEF SaveTypeOK, List
<1>8. record \subseteq Forms /\ opened \in 0..MaxForms
  BY <1>1 DEF SaveTypeOK
<1>9. Forms \subseteq Nat /\ \A n \in Forms : n <= MaxForms
  BY <1>1 DEF Forms
<1> QED
  BY <1>1, <1>2, <1>3, <1>4, <1>5, <1>6, <1>7, <1>8, <1>9

\* Only a refusal marks an entry.
LEMMA RefusalsStayNoted ==
    ASSUME SaveTypes, SaveTypes', RefusalsNoted, [SaveNext]_pathVars
    PROVE  RefusalsNoted' /\ refused \subseteq refused'
<1>1. SaveTypeOK /\ AnswerIsForOne
  BY DEF SaveTypes
<1> DEFINE Marked == \A n \in Forms : queue[n] # Nil /\ queue[n].rejected => n \in refused
           Answered == flush # Nil /\ flush.step = "refused" => Min(Todo) \in refused
<1>2. Marked /\ Answered
  BY DEF RefusalsNoted
<1> HIDE DEF Marked, Answered
<1> SUFFICES Marked' /\ Answered' /\ refused \subseteq refused'
  BY DEF Marked, Answered, RefusalsNoted
<1> USE DEF ui, strip, server
<1>3. ASSUME queue' = queue, refused \subseteq refused' PROVE Marked'
  BY <1>2, <1>3 DEF Marked
<1>4. ASSUME flush' = flush, refused \subseteq refused' PROVE Answered'
  BY <1>2, <1>4 DEF Answered, Todo
<1>5. ASSUME flush' = Nil \/ flush'.step \notin {"refused"} PROVE Answered'
  BY <1>5 DEF Answered
<1>6. ASSUME RequestFlush, refused' = refused PROVE Answered'
  BY <1>1, <1>4, <1>5, <1>6, RunRequested, RunBegins
<1>7. CASE UNCHANGED pathVars
  BY <1>3, <1>4, <1>7 DEF pathVars
<1>8. CASE SaveStep
  <2>1. CASE Store
    <3>1. save \in Save /\ save.n \in Forms
      BY <1>1, <2>1 DEF Store, SaveTypeOK, Save
    <3>2. Marked'
      BY <1>1, <1>2, <2>1, <3>1 DEF Store, Marked, SaveTypeOK
    <3> QED
      BY <1>4, <2>1, <3>2 DEF Store
  <2>2. CASE Post \/ PostConfirmed \/ PostKept \/ PostFailed
    BY <1>3, <1>4, <2>2 DEF Post, PostConfirmed, PostKept, PostFailed
  <2>3. CASE Stored
    BY <1>3, <1>4, <1>6, <2>3 DEF Stored
  <2> QED
    BY <1>8, <2>1, <2>2, <2>3 DEF SaveStep
<1>9. CASE ReadOutbox
  <2>1. flush'.step = "next"
    <3>1. flush \in Run
      BY <1>1, <1>9 DEF ReadOutbox, SaveTypeOK
    <3> QED
      BY <1>9, <3>1 DEF ReadOutbox, Run
  <2> QED
    BY <1>3, <1>5, <1>9, <2>1 DEF ReadOutbox
<1>10. CASE Send
  <2>1. PICK m \in Forms : m = Min(Todo)
    BY <1>1, <1>10, AtEntry DEF Send
  <2>2. flush \in Run
    BY <1>1, <1>10 DEF Send, SaveTypeOK
  <2>3. PICK step \in {"ok", "end", "refused"} :
          /\ flush' = [flush EXCEPT !.step = step]
          /\ refused \subseteq refused' /\ (step = "refused" => m \in refused')
    BY <1>10, <2>1 DEF Send
  <2>4. step \in {"read", "next", "ok", "refused", "end"}
    OBVIOUS
  <2>5. flush'.step = step /\ flush'.items = flush.items
    BY ONLY <2>2, <2>3, <2>4, RunGoesOn
  <2>6. Todo' = Todo
    BY <2>5 DEF Todo, Forms
  <2>7. m = Min(Todo)'
    BY <2>1, <2>6
  <2>8. Answered'
    BY <2>3, <2>5, <2>7 DEF Answered
  <2> QED
    BY <1>3, <1>10, <2>3, <2>8 DEF Send
<1>11. CASE Settle
  <2>1. PICK m \in Forms : m = Min(Todo)
    BY <1>1, <1>11, AtEntry DEF Settle, AnswerIsForOne
  <2>2. flush.step = "refused" => m \in refused
    BY <1>2, <1>11, <2>1 DEF Answered, Settle
  <2>3. flush'.step = "next" /\ refused' = refused
    BY <1>11 DEF Settle
  <2>4. Marked'
    <3>1. CASE flush.step = "ok"
      BY <1>1, <1>2, <1>11, <2>1, <2>3, <3>1 DEF Settle, Marked, SaveTypeOK
    <3>2. CASE flush.step # "ok"
      <4>1. flush.step = "refused" /\ m \in refused
        BY <1>11, <2>2, <3>2 DEF Settle
      <4>2. \A n \in Forms \ {m} : queue'[n] = queue[n]
        BY <1>1, <1>11, <2>1, <3>2 DEF Settle, SaveTypeOK
      <4> QED
        BY <1>2, <2>3, <4>1, <4>2 DEF Marked
    <3> QED
      BY <3>1, <3>2
  <2> QED
    BY <1>5, <2>3, <2>4
<1>12. CASE EndRun
  BY <1>3, <1>5, <1>12, RunBegins DEF EndRun
<1>13. CASE HelperSends
  <2>1. queue' = [queue EXCEPT ![Min(Pending)] = Nil] /\ refused' = refused /\ flush' = flush
    BY <1>13 DEF HelperSends
  <2>2. Marked'
    BY <1>1, <1>2, <2>1 DEF Marked, SaveTypeOK
  <2> QED
    BY <1>4, <2>1, <2>2
<1>14. ASSUME NEW m \in Forms, TryAgain(m) PROVE Marked' /\ Answered' /\ refused \subseteq refused'
  <2>1. queue[m] \in Item /\ refused' = refused /\ queue' = [queue EXCEPT ![m].rejected = FALSE]
    BY <1>1, <1>14 DEF TryAgain, SaveTypeOK
  <2>2. \A n \in Forms \ {m} : queue'[n] = queue[n]
    BY <1>1, <2>1 DEF SaveTypeOK
  <2>3. m \in refused
    BY <1>2, <1>14 DEF TryAgain, Marked
  <2>4. Marked'
    BY <1>2, <2>1, <2>2, <2>3 DEF Marked
  <2> QED
    BY <1>6, <1>14, <2>1, <2>4 DEF TryAgain
<1>15. CASE (\E k \in {"new", "edit"} : Open(k)) \/ Fill \/ Close \/ Click
           \/ (\E n \in Forms : Forget(n)) \/ ReadRows \/ AnswerFetch \/ ShowList \/ GoOffline
  BY <1>3, <1>4, <1>15 DEF Open, Fill, Close, Click, Forget, ReadRows, AnswerFetch, ShowList, GoOffline
<1>16. CASE Timer \/ KnowOwner \/ GoOnline
  BY <1>3, <1>6, <1>16 DEF Timer, KnowOwner, GoOnline
<1> QED
  BY ONLY [SaveNext]_pathVars, <1>7, <1>8, <1>9, <1>10, <1>11, <1>12, <1>13, <1>14, <1>15, <1>16
     DEF SaveNext, RunStep

\* The steps that leave the form, the save and the outbox alone.
LEMMA FrameEdits ==
    ASSUME SaveTypes, SaveTypes', Edits, RefusalsNoted',
           UNCHANGED <<opened, kind, form, save, queue, record, refused, told, blind>>,
           owner' = owner \/ owner',
           flush' = flush \/ flush' = NewRun \/ flush' = Nil,
           list'.record \subseteq record \cup list.record \cup fetch.list.record,
           fetch'.list.record \subseteq record \cup list.record \cup fetch.list.record
    PROVE  Edits'
<1>1. Bodies /\ InTurn /\ Unknown /\ RunInTurn /\ Builds
  BY DEF Edits
<1>2. Queued' = Queued
  BY DEF Queued, Forms
<1>3. /\ Reading' = Reading \/ Reading' = {}
      /\ \A n \in Reading' : flush'.items[n] = flush.items[n]
  <2>1. CASE flush' = flush
    BY <2>1 DEF Reading, Forms
  <2>2. CASE flush' = NewRun \/ flush' = Nil
    <3>1. Reading' = {}
      BY <2>2, RunBegins DEF Reading, Forms
    <3> QED
      BY <3>1
  <2> QED
    BY <2>1, <2>2
<1>4. Bodies'
  <2>1. \A e : IsEdit(e)' <=> IsEdit(e)
    BY DEF IsEdit
  <2>2. \A e \in record \cup list.record \cup fetch.list.record : e <= opened /\ IsEdit(e)
    BY <1>1 DEF Bodies, EditsUpTo
  <2> QED
    BY <1>1, <1>2, <2>1, <2>2 DEF Bodies, EditsUpTo, Editing, Closing
<1>5. InTurn'
  BY <1>1, <1>2 DEF InTurn, Storing, Editing, Closing
<1>6. Unknown'
  BY <1>1, <1>2 DEF Unknown, Direct, Editing
<1>7. RunInTurn'
  BY <1>1, <1>2, <1>3 DEF RunInTurn
<1>8. Builds'
  BY <1>1, <1>2 DEF Builds, BuildsOnQueued, Covers, Storing, Editing, Closing
<1> QED
  BY <1>4, <1>5, <1>6, <1>7, <1>8 DEF Edits

\* A form opens, empty or with the record as it is listed.
LEMMA OpenEdits ==
    ASSUME SaveTypes, SaveTypes', Kinds, Grows, Edits, RefusalsNoted',
           NEW k \in {"new", "edit"}, Open(k)
    PROVE  Edits'
<1>1. Bodies /\ InTurn /\ Unknown /\ RunInTurn /\ Builds
  BY DEF Edits
<1>2. /\ UNCHANGED <<save, queue, record, refused, told, owner, flush, list, fetch>>
      /\ opened' = opened + 1
      /\ blind \subseteq blind' /\ blind' \subseteq blind \cup {opened'}
      /\ k = "edit" /\ ~owner => opened' \in blind'
  BY DEF Open, strip, server
<1>3. form' # Nil /\ form'.n = opened' /\ form'.kind = k
      /\ (form'.filled => k = "new" \/ ~owner) /\ (~form'.filled => owner)
      /\ form'.base = IF k = "edit" THEN list.record ELSE {}
  BY OpenedForm DEF SaveTypes
<1>4. Editing' => /\ k = "edit" /\ form'.base = list.record
                  /\ form'.filled => form'.n \in blind'
  BY <1>2, <1>3 DEF Editing
<1>5. Queued' = Queued /\ Reading' = Reading /\ Reading \subseteq Forms
  BY <1>2 DEF Queued, Reading, Forms
<1>6. opened \in Nat /\ Forms \subseteq Nat
  BY EditTypes
<1>7. (\A n \in Queued : n <= opened) /\ (save # Nil => save.n <= opened /\ save.n \in Forms)
  BY EditTypes DEF Kinds, Queued
<1>8. Bodies'
  <2>1. \A e \in Forms : e <= opened => e <= opened' /\ e <= opened' - 1
    BY <1>2, <1>6
  <2>2. \A e \in Forms : IsEdit(e) => IsEdit(e)'
    BY EditsStay
  <2>3. EditsUpTo(opened, record)' /\ EditsUpTo(opened, list.record)' /\ EditsUpTo(opened, fetch.list.record)'
    BY <1>1, <1>2, <2>1, <2>2, EditTypes DEF Bodies, EditsUpTo
  <2>4. \A n \in Queued' : n \in queue'[n].body /\ EditsUpTo(n, queue[n].body)'
    BY <1>1, <1>2, <1>5, <2>2, EditTypes DEF Bodies, EditsUpTo
  <2>5. Editing' => EditsUpTo(form.n - 1, form.base)'
    BY <1>1, <1>2, <1>3, <1>4, <2>1, <2>2, EditTypes DEF Bodies, EditsUpTo
  <2>6. save' # Nil /\ save'.kind = "edit" => save'.n \in save'.body /\ EditsUpTo(save.n, save.body)'
    BY <1>1, <1>2, <2>2, EditTypes DEF Bodies, EditsUpTo
  <2> QED
    BY <2>3, <2>4, <2>5, <2>6 DEF Bodies
<1>9. InTurn'
  <2>1. opened' \notin Queued /\ (save # Nil => save.n # opened')
    BY <1>2, <1>6, <1>7, EditTypes
  <2> QED
    BY <1>1, <1>2, <1>3, <1>5, <2>1 DEF InTurn, Storing, Editing, Closing
<1>10. Unknown'
  BY <1>1, <1>2, <1>3, <1>4, <1>5 DEF Unknown, Direct
<1>11. RunInTurn'
  BY <1>1, <1>2, <1>5 DEF RunInTurn
<1>12. Builds'
  <2>1. \A n \in Queued : n \in blind' <=> n \in blind
    BY <1>2, <1>6, <1>7, EditTypes
  <2>2. save # Nil => save.n \in blind' <=> save.n \in blind
    BY <1>2, <1>6, <1>7, EditTypes
  <2> QED
    BY <1>1, <1>2, <1>4, <1>5, <2>1, <2>2 DEF Builds, BuildsOnQueued, Covers, Storing, Closing
<1> QED
  BY <1>8, <1>9, <1>10, <1>11, <1>12 DEF Edits

\* A form is closed while a save is under way.
LEMMA CloseEdits ==
    ASSUME SaveTypes, SaveTypes', Edits, RefusalsNoted', Close
    PROVE  Edits'
<1>1. Bodies /\ InTurn /\ Unknown /\ RunInTurn /\ Builds
  BY DEF Edits
<1>2. /\ UNCHANGED <<save, queue, record, refused, told, blind, owner, flush, list, fetch, opened, kind>>
      /\ form' = Nil
  BY DEF Close, strip, server
<1>3. Queued' = Queued /\ Reading' = Reading /\ ~Editing'
  BY <1>2 DEF Queued, Reading, Forms, Editing
<1>4. Bodies'
  BY <1>1, <1>2, <1>3 DEF Bodies, EditsUpTo, IsEdit
<1>5. InTurn'
  BY <1>1, <1>2, <1>3 DEF InTurn, Storing
<1>6. Unknown'
  BY <1>1, <1>2, <1>3 DEF Unknown, Direct
<1>7. RunInTurn'
  BY <1>1, <1>2, <1>3 DEF RunInTurn
<1>8. Builds'
  BY <1>1, <1>2, <1>3 DEF Builds, BuildsOnQueued, Covers, Storing
<1> QED
  BY <1>4, <1>5, <1>6, <1>7, <1>8 DEF Edits

\* When the page can know of all edits, those that wait are all there are in the
\* outbox, none of them was begun blindly, and what else the record has is in the form.
LEMMA KnownWaits ==
    ASSUME SaveTypes, Kinds, Bodies, RefusalsNoted, Known
    PROVE  /\ Waiting = Queued
           /\ \A n \in Queued : n \notin blind /\ n \notin refused
           /\ Queued = {} => record \subseteq form.base
<1>1. Queued \subseteq Forms /\ record \subseteq Forms
  BY EditTypes
<1>2. \A n \in Queued : n \notin blind /\ n \notin refused
  BY <1>1 DEF Known, Queued
<1>3. Waiting = Queued
  <2>1. \A n \in Queued : ~queue[n].rejected
    BY <1>1, <1>2 DEF RefusalsNoted, Queued
  <2> QED
    BY <2>1 DEF Waiting, Pending, Queued
<1>4. ASSUME NEW e \in record, e \notin form.base PROVE e \in Queued
  <2>1. e \in Forms /\ queue[e] # Nil
    BY <1>1, <1>4 DEF Known
  <2>2. kind[e] = "edit" /\ queue[e].kind = kind[e]
    BY <2>1 DEF Bodies, EditsUpTo, IsEdit, Kinds
  <2> QED
    BY <2>1, <2>2 DEF Queued
<1> QED
  BY <1>2, <1>3, <1>4

\* A form is filled from the newest edit in the outbox. When the page can know of all
\* edits, that one builds on all of them. While a save is under way that will close the
\* form, it does not matter what the form is filled with.
LEMMA FillEdits ==
    ASSUME SaveTypes, SaveTypes', Kinds, Edits, RefusalsNoted', Fill
    PROVE  Edits'
<1>1. Bodies /\ InTurn /\ Unknown /\ RunInTurn /\ RefusalsNoted /\ Builds
  BY DEF Edits
<1>2. /\ UNCHANGED <<save, queue, record, refused, told, owner, flush, list, fetch, opened, kind>>
      /\ form # Nil /\ ~form.filled
      /\ blind' = IF Known \/ SavesItself THEN blind ELSE blind \cup {form.n}
  BY DEF Fill, strip, server
<1>3. PICK f \in Form : f = form
  BY <1>2, EditTypes
<1>4. f.n \in Forms /\ f.base \subseteq Forms /\ f.n = opened /\ f.n \in Nat /\ opened \in Nat
  BY <1>1, <1>2, <1>3, EditTypes DEF InTurn
<1>5. PICK B \in SUBSET Forms :
          /\ form' = [f EXCEPT !.filled = TRUE, !.base = B]
          /\ Waiting = {} => B = f.base
          /\ Waiting # {} => B = queue[Max(Waiting)].body
  <2>1. Waiting # {} => queue[Max(Waiting)] \in Item
    <3>1. Waiting \subseteq 0..MaxForms /\ \A n \in Waiting : queue[n] \in Item
      BY EditTypes DEF Waiting, Pending, Queued
    <3>2. MaxForms \in Nat
      BY EditTypes
    <3> QED
      BY <3>1, <3>2, MaxOfBounded
  <2>2. (IF Waiting = {} THEN f.base ELSE queue[Max(Waiting)].body) \in SUBSET Forms
    BY <1>4, <2>1 DEF Item
  <2>3. form' = [f EXCEPT !.filled = TRUE,
                          !.base = IF Waiting = {} THEN f.base ELSE queue[Max(Waiting)].body]
    BY <1>3 DEF Fill, Form
  <2> QED
    BY <2>2, <2>3
<1>6. /\ form' # Nil /\ form'.n = f.n /\ form'.kind = f.kind /\ form'.filled = TRUE /\ form'.base = B
  <2>1. form' \in Form
    BY <1>5 DEF Form
  <2> QED
    BY <1>5, <2>1, NilIsNoValue DEF Form
<1>7. Queued' = Queued /\ Reading' = Reading /\ Queued \subseteq Forms /\ Forms \subseteq Nat
  BY <1>2, EditTypes DEF Queued, Reading, Forms
<1>8. \A n \in Queued : n <= f.n
  BY <1>4 DEF Kinds, Queued
<1>9. ASSUME f.kind = "edit", ~Closing
      PROVE  ~SavesItself /\ \A n \in Queued : n < f.n
  <2>1. Editing
    BY <1>2, <1>3, <1>9 DEF Editing
  <2>2. ~SavesItself /\ f.n \notin Queued
    BY <1>1, <1>2, <1>3, <1>9, <2>1 DEF InTurn, SavesItself
  <2>3. f.n \in Nat /\ Queued \subseteq Nat
    BY <1>4, <1>7
  <2> QED
    BY ONLY <1>8, <2>2, <2>3
<1>10. ASSUME f.kind = "edit", ~Closing PROVE B \subseteq Forms /\ EditsUpTo(f.n - 1, B)
  <2>1. Editing
    BY <1>2, <1>3, <1>10 DEF Editing
  <2>2. CASE Waiting = {}
    BY <1>1, <1>3, <1>5, <1>10, <2>1, <2>2 DEF Bodies
  <2>3. CASE Waiting # {}
    <3>1. Waiting \subseteq Queued /\ Waiting \subseteq 0..MaxForms /\ MaxForms \in Nat
      BY EditTypes DEF Waiting, Pending, Queued
    <3>2. PICK w \in Queued : w = Max(Waiting)
      BY <2>3, <3>1, MaxOfBounded
    <3>3. B = queue[w].body /\ EditsUpTo(w, B) /\ w < f.n
      BY <1>1, <1>5, <1>9, <1>10, <2>3, <3>2 DEF Bodies
    <3>a. f.n \in Nat /\ w \in Nat /\ Forms \subseteq Nat /\ w < f.n
      BY <1>4, <1>7, <3>2, <3>3
    <3>4. \A e \in Forms : e <= w => e <= f.n - 1
      BY ONLY <3>a
    <3> QED
      BY <3>3, <3>4 DEF EditsUpTo
  <2> QED
    BY <2>2, <2>3
<1>11. Bodies'
  <2>1. \A e : IsEdit(e)' <=> IsEdit(e)
    BY <1>2 DEF IsEdit
  <2>2. Editing' /\ ~Closing' => EditsUpTo(form.n - 1, form.base)'
    <3>1. Editing' /\ ~Closing' => f.kind = "edit" /\ ~Closing
      BY <1>2, <1>6 DEF Editing, Closing
    <3> QED
      BY <1>6, <1>10, <2>1, <3>1 DEF EditsUpTo
  <2> QED
    BY <1>1, <1>2, <1>7, <2>1, <2>2 DEF Bodies, EditsUpTo
<1>12. InTurn'
  BY <1>1, <1>2, <1>3, <1>6, <1>7 DEF InTurn, Storing, Editing, Closing
<1>13. Unknown'
  <2>1. save # Nil /\ f.n # save.n => f.n \in blind'
    BY <1>2, <1>3 DEF Known, SavesItself
  <2>3. Editing' => owner
    BY <1>1, <1>2, <1>3, <1>6 DEF Unknown, Editing
  <2>2. blind \subseteq blind'
    BY <1>2
  <2> QED
    BY <1>1, <1>2, <1>6, <1>7, <2>1, <2>2, <2>3 DEF Unknown, Direct
<1>14. RunInTurn'
  BY <1>1, <1>2, <1>7 DEF RunInTurn
<1>15. ASSUME f.kind = "edit", f.n \notin blind', ~Closing PROVE BuildsOnQueued(f.n, B) /\ Covers(B)
  <2>1. Known /\ blind' = blind
    BY <1>2, <1>3, <1>9, <1>15
  <2>2. (\A n \in Queued : n \notin blind /\ n \notin refused) /\ Waiting = Queued
        /\ (Queued = {} => record \subseteq f.base)
    BY <1>1, <1>3, <2>1, KnownWaits
  <2>4. CASE Queued = {}
    BY <1>5, <2>2, <2>4 DEF BuildsOnQueued, Covers
  <2>5. CASE Queued # {}
    <3>1. Queued \subseteq 0..MaxForms /\ MaxForms \in Nat
      BY EditTypes
    <3>2. PICK w \in Queued : w = Max(Waiting) /\ \A n \in Queued : n <= w
      BY <2>2, <2>5, <3>1, MaxOfBounded
    <3>3. B = queue[w].body
      BY <1>5, <2>2, <2>5, <3>2
    <3>4. BuildsOnQueued(w, B) /\ Covers(B)
      BY <1>1, <2>2, <3>2, <3>3 DEF Builds
    <3>5. \A n \in Queued : n = w \/ n < w
      BY <1>7, <3>2
    <3> QED
      BY <2>2, <3>3, <3>4, <3>5 DEF BuildsOnQueued
  <2> QED
    BY <2>4, <2>5
<1>16. Builds'
  <2>1. \A n \in Queued : n < f.n => (n \in blind' <=> n \in blind)
    BY <1>2, <1>3, <1>4, <1>7
  <2>2. blind \subseteq blind'
    BY <1>2
  <2>a. ASSUME NEW n \in Forms, n <= f.n, NEW C, BuildsOnQueued(n, C) PROVE BuildsOnQueued(n, C)'
    <3>1. \A d \in Queued : d < n => d < f.n
      BY <1>4, <1>7, <2>a
    <3> QED
      BY <1>2, <1>7, <2>1, <2>a, <3>1 DEF BuildsOnQueued
  <2>3. \A n \in Queued' \ blind' :
            BuildsOnQueued(n, queue[n].body)' /\ (n \notin refused' => Covers(queue[n].body)')
    <3>1. SUFFICES ASSUME NEW n \in Queued, n \notin blind
                   PROVE  BuildsOnQueued(n, queue[n].body)' /\ (n \notin refused => Covers(queue[n].body)')
      BY <1>2, <1>7, <2>2
    <3>2. BuildsOnQueued(n, queue[n].body) /\ (n \notin refused => Covers(queue[n].body))
      BY <1>1, <3>1 DEF Builds
    <3>3. BuildsOnQueued(n, queue[n].body)'
      BY <1>2, <1>7, <1>8, <2>1, <2>a, <3>1, <3>2 DEF BuildsOnQueued
    <3> QED
      BY <1>2, <3>2, <3>3 DEF Covers
  <2>4. Storing' /\ save'.n \notin blind' =>
            BuildsOnQueued(save.n, save.body)' /\ (save'.n \notin refused' => Covers(save.body)')
    <3>1. SUFFICES ASSUME Storing, save.n \notin blind
                   PROVE  BuildsOnQueued(save.n, save.body)' /\ (save.n \notin refused => Covers(save.body)')
      BY <1>2, <2>2 DEF Storing
    <3>2. BuildsOnQueued(save.n, save.body) /\ (save.n \notin refused => Covers(save.body))
      BY <1>1, <3>1 DEF Builds
    <3>3. save.n \in Forms /\ save.n <= f.n
      BY <1>4, <3>1, EditTypes DEF Kinds, Storing
    <3>4. BuildsOnQueued(save.n, save.body)'
      BY <1>2, <1>7, <2>1, <2>a, <3>2, <3>3 DEF BuildsOnQueued
    <3> QED
      BY <1>2, <3>2, <3>4 DEF Covers
  <2>5. Editing' /\ form'.filled /\ ~Closing' /\ form'.n \notin blind' =>
            BuildsOnQueued(form.n, form.base)' /\ (form'.n \notin refused' => Covers(form.base \cup {form.n})')
    <3>1. SUFFICES ASSUME Editing', ~Closing', form'.n \notin blind'
                   PROVE  BuildsOnQueued(form.n, form.base)' /\ Covers(form.base \cup {form.n})'
      OBVIOUS
    <3>2. f.kind = "edit" /\ f.n \notin blind' /\ ~Closing
      BY <1>2, <1>6, <3>1 DEF Editing, Closing
    <3>3. BuildsOnQueued(f.n, B) /\ Covers(B)
      BY <1>15, <3>2
    <3>4. BuildsOnQueued(form.n, form.base)'
      BY <1>2, <1>6, <1>7, <2>1, <3>3 DEF BuildsOnQueued
    <3>5. Covers(form.base \cup {form.n})'
      BY <1>2, <1>6, <3>3 DEF Covers
    <3> QED
      BY <3>4, <3>5
  <2> QED
    BY <2>3, <2>4, <2>5 DEF Builds
<1> QED
  BY <1>11, <1>12, <1>13, <1>14, <1>16 DEF Edits

\* Save is clicked: the body is the form's edits and its own.
LEMMA ClickEdits ==
    ASSUME SaveTypes, SaveTypes', Kinds, Edits, RefusalsNoted', Click
    PROVE  Edits'
<1>1. Bodies /\ InTurn /\ Unknown /\ RunInTurn /\ RefusalsNoted /\ Builds
  BY DEF Edits
<1>2. /\ UNCHANGED <<form, queue, record, refused, told, owner, flush, list, fetch, opened, kind>>
      /\ form # Nil /\ save = Nil
      /\ blind' = IF form.filled \/ (Known /\ Waiting = {}) THEN blind ELSE blind \cup {form.n}
  BY DEF Click, ui, strip, server
<1>3. /\ form.n \in Forms /\ form.n = opened /\ form.base \subseteq Forms
      /\ form.kind = kind[form.n] /\ Forms \subseteq Nat
  BY <1>1, <1>2, EditTypes DEF InTurn, Kinds
<1>4. /\ save' # Nil /\ save'.n = form.n /\ save'.kind = form.kind
      /\ save'.step = IF owner THEN "store" ELSE "post"
      /\ form.kind = "edit" => save'.body = form.base \cup {form.n}
  <2>1. save' \in Save \cup {Nil}
    BY DEF SaveTypes, SaveTypeOK
  <2>2. form \in Form /\ keyRef \in Keys
    BY <1>2, EditTypes DEF SaveTypes, SaveTypeOK
  <2>3. (IF form.kind = "edit" THEN form.base \cup {form.n} ELSE {}) \subseteq Forms
    BY <1>3
  <2>4. save' \in Save
    BY <2>2, <2>3 DEF Click, Save, Form
  <2> QED
    BY <2>4, NilIsNoValue DEF Click
<1>5. Queued' = Queued /\ Reading' = Reading /\ Editing' = Editing /\ Queued \subseteq Forms
  BY <1>2, EditTypes DEF Queued, Reading, Forms, Editing
<1>6. ~Closing /\ \A n \in Queued : n <= form.n
  BY <1>2, <1>3 DEF Closing, Kinds, Queued
<1>7. \A n \in Queued : n <= form.n /\ (Editing => n # form.n)
  BY <1>1, <1>6 DEF InTurn
<1>8. Bodies'
  <2>1. \A e : IsEdit(e)' <=> IsEdit(e)
    BY <1>2 DEF IsEdit
  <2>2. save'.kind = "edit" => save'.n \in save'.body /\ EditsUpTo(save.n, save.body)'
    <3>1. SUFFICES ASSUME form.kind = "edit"
                   PROVE  save'.n \in save'.body /\ EditsUpTo(save.n, save.body)'
      BY <1>4
    <3>2. EditsUpTo(form.n - 1, form.base) /\ IsEdit(form.n)
      BY <1>1, <1>2, <1>3, <1>6, <3>1 DEF Bodies, Editing, IsEdit, Kinds
    <3>3. \A e \in form.base \cup {form.n} : e <= form.n /\ IsEdit(e)
      <4>1. PICK k \in Nat : k = form.n
        BY <1>3
      <4>2. \A e \in form.base : e \in Nat /\ e <= k - 1 /\ IsEdit(e)
        BY <1>3, <3>2, <4>1 DEF EditsUpTo
      <4>3. \A e \in form.base : e <= k /\ IsEdit(e)
        BY <4>2
      <4> QED
        BY <3>2, <4>1, <4>3
    <3> QED
      BY <1>4, <2>1, <3>1, <3>3 DEF EditsUpTo
  <2> QED
    BY <1>1, <1>2, <1>5, <1>6, <2>1, <2>2 DEF Bodies, EditsUpTo
<1>9. InTurn'
  <2>1. \A e \in record : e <= form.n
    BY <1>1, <1>3 DEF Bodies, EditsUpTo
  <2> QED
    BY <1>1, <1>2, <1>4, <1>5, <1>7, <2>1 DEF InTurn, Unknown, Storing, Editing, Closing
<1>10. Unknown'
  BY <1>1, <1>2, <1>4, <1>5 DEF Unknown, Direct, Editing
<1>11. RunInTurn'
  BY <1>1, <1>2, <1>5 DEF RunInTurn
<1>12. Builds'
  <2>1. Storing' => Editing /\ save'.n = form.n /\ save'.body = form.base \cup {form.n}
    BY <1>2, <1>4 DEF Storing, Editing
  <2>2. Editing /\ form.filled /\ form.n \notin blind =>
          /\ BuildsOnQueued(form.n, form.base)
          /\ form.n \notin refused => Covers(form.base \cup {form.n})
    BY <1>1, <1>2, <1>6 DEF Builds
  <2>3. ~form.filled /\ form.n \notin blind' => Queued = {} /\ record \subseteq form.base
    BY <1>1, <1>2, KnownWaits
  <2>4. blind \subseteq blind' /\ \A n \in Queued : n < form.n => (n \in blind' <=> n \in blind)
    BY <1>2, <1>3, <1>5
  <2>5. Storing' /\ save'.n \notin blind' =>
            BuildsOnQueued(save.n, save.body)' /\ (save'.n \notin refused' => Covers(save.body)')
    <3>1. CASE form.filled
      BY <1>2, <1>5, <2>1, <2>2, <3>1 DEF BuildsOnQueued, Covers
    <3>2. CASE ~form.filled
      BY <1>2, <1>5, <2>1, <2>3, <3>2 DEF BuildsOnQueued, Covers
    <3> QED
      BY <3>1, <3>2
  <2>6. \A n \in Queued' \ blind' :
            BuildsOnQueued(n, queue[n].body)' /\ (n \notin refused' => Covers(queue[n].body)')
    <3>1. SUFFICES ASSUME NEW n \in Queued, n \notin blind
                   PROVE  BuildsOnQueued(n, queue[n].body)' /\ (n \notin refused => Covers(queue[n].body)')
      BY <1>2, <1>5, <2>4
    <3>2. BuildsOnQueued(n, queue[n].body) /\ (n \notin refused => Covers(queue[n].body))
      BY <1>1, <3>1 DEF Builds
    <3>3. \A d \in Queued : d < n => d < form.n
      <4>1. PICK f \in Nat : f = form.n
        BY <1>3
      <4>2. n \in Nat /\ n <= f /\ \A d \in Queued : d \in Nat
        BY <1>3, <1>5, <1>6, <3>1, <4>1
      <4>3. \A d \in Queued : d < n => d < f
        BY <4>2
      <4> QED
        BY <4>1, <4>3
    <3> QED
      BY <1>2, <1>5, <2>4, <3>2, <3>3 DEF BuildsOnQueued, Covers
  <2>7. Editing' /\ form'.filled /\ form'.n \notin blind' =>
            BuildsOnQueued(form.n, form.base)' /\ (form'.n \notin refused' => Covers(form.base \cup {form.n})')
    BY <1>2, <1>5, <2>2 DEF BuildsOnQueued, Covers
  <2> QED
    BY <2>5, <2>6, <2>7 DEF Builds
<1> QED
  BY <1>8, <1>9, <1>10, <1>11, <1>12 DEF Edits

\* The direct request. When it is an edit that the server takes, it was begun blindly,
\* and the outbox has no other.
LEMMA PostEdits ==
    ASSUME SaveTypes, SaveTypes', Kinds, Edits, RefusalsNoted', Post
    PROVE  Edits'
<1>1. Bodies /\ InTurn /\ Unknown /\ RunInTurn /\ Builds
  BY DEF Edits
<1>2. /\ UNCHANGED <<form, queue, told, blind, owner, flush, list, fetch, opened, kind>>
      /\ save # Nil /\ save.step = "post"
  BY DEF Post, ui, strip, server
<1>3. save \in Save /\ save.n \in Forms /\ save.n <= opened
  BY <1>2, EditTypes DEF Kinds
<1>4. PICK step \in {"taken", "lost", "refused"} : save' = [save EXCEPT !.step = step]
  BY DEF Post
<1>5. /\ save' # Nil /\ save'.n = save.n /\ save'.kind = save.kind /\ save'.body = save.body
      /\ save'.step = step
  <2>1. step \in {"post", "taken", "lost", "refused", "store", "announce", "keep", "kept"}
    OBVIOUS
  <2>2. PICK s \in Save : s = save
    BY <1>3
  <2>3. LET t == [s EXCEPT !.step = step]
        IN t \in Save /\ t.n = s.n /\ t.kind = s.kind /\ t.body = s.body /\ t.step = step
    BY ONLY s \in Save, <2>1 DEF Save
  <2> QED
    BY <1>4, <2>2, <2>3, NilIsNoValue
<1>6. Queued' = Queued /\ Reading' = Reading /\ Editing' = Editing /\ Reading \subseteq Forms
  BY <1>2, EditTypes DEF Queued, Reading, Forms, Editing
<1>7. ~Closing /\ ~Storing' /\ (save.kind = "edit" <=> Direct) /\ (Direct' => Direct)
  BY <1>2, <1>5 DEF Closing, Storing, Direct
<1>8. refused \subseteq refused' /\ (record' = record \/ (Direct /\ record' = save.body))
  BY <1>2, <1>7 DEF Post, Take, server
<1>9. Direct => Queued = {} /\ save.n \in blind
  BY <1>1 DEF Unknown
<1>10. \A e : IsEdit(e)' <=> IsEdit(e)
  BY <1>2 DEF IsEdit
<1>11. Direct => \A e \in save.body : e <= save.n /\ e <= opened /\ IsEdit(e)
  <2>1. Direct => EditsUpTo(save.n, save.body) /\ save.body \subseteq Forms
    BY <1>1, EditTypes DEF Direct, Bodies
  <2>2. Forms \subseteq Nat /\ opened \in Nat
    BY EditTypes
  <2>3. ASSUME Direct, NEW e \in save.body PROVE e <= save.n /\ e <= opened /\ IsEdit(e)
    <3>1. e \in Nat /\ save.n \in Nat /\ e <= save.n /\ IsEdit(e)
      BY <1>3, <2>1, <2>2, <2>3 DEF EditsUpTo
    <3> QED
      BY <1>3, <2>2, <3>1
  <2> QED
    BY <2>3
<1>12. Bodies'
  BY <1>1, <1>2, <1>5, <1>6, <1>8, <1>10, <1>11 DEF Bodies, EditsUpTo, Closing
<1>13. InTurn'
  BY <1>1, <1>2, <1>5, <1>6, <1>7, <1>8, <1>11 DEF InTurn
<1>14. Unknown'
  BY <1>1, <1>2, <1>5, <1>6, <1>7 DEF Unknown
<1>15. RunInTurn'
  BY <1>1, <1>2, <1>6, <1>8, <1>9 DEF RunInTurn
<1>16. Builds'
  <2>1. \A n \in Queued' \ blind' :
            BuildsOnQueued(n, queue[n].body)' /\ (n \notin refused' => Covers(queue[n].body)')
    BY <1>1, <1>2, <1>6, <1>8, <1>9 DEF Builds, BuildsOnQueued, Covers
  <2>2. Editing' /\ form'.filled /\ ~Closing' /\ form'.n \notin blind' =>
            BuildsOnQueued(form.n, form.base)' /\ (form'.n \notin refused' => Covers(form.base \cup {form.n})')
    <3>1. SUFFICES ASSUME Editing, form.filled, form.n \notin blind
                   PROVE  /\ BuildsOnQueued(form.n, form.base)'
                          /\ form'.n \notin refused' => Covers(form.base \cup {form.n})'
      BY <1>2, <1>6
    <3>2. ~Direct /\ record' = record
      BY <1>1, <1>2, <1>8, <1>9, <3>1 DEF Unknown
    <3>3. /\ BuildsOnQueued(form.n, form.base)
          /\ form.n \notin refused => Covers(form.base \cup {form.n})
      BY <1>1, <1>7, <3>1 DEF Builds
    <3> QED
      BY <1>2, <1>6, <1>8, <3>2, <3>3 DEF BuildsOnQueued, Covers
  <2> QED
    BY <1>7, <2>1, <2>2 DEF Builds
<1> QED
  BY <1>12, <1>13, <1>14, <1>15, <1>16 DEF Edits

\* Its answer.
LEMMA AnswerEdits ==
    ASSUME SaveTypes, SaveTypes', Kinds, Edits, RefusalsNoted',
           PostConfirmed \/ PostKept \/ PostFailed
    PROVE  Edits'
<1>1. Bodies /\ InTurn /\ Unknown /\ RunInTurn /\ Builds
  BY DEF Edits
<1>2. /\ UNCHANGED <<queue, record, refused, blind, owner, flush, list, opened, kind>>
      /\ save # Nil /\ save.step \in {"taken", "lost", "refused"}
      /\ form' = form \/ form' = Nil
      /\ \A n \in Forms : told'[n] = told[n] \/ n = save.n
      /\ fetch' = fetch \/ fetch' = Asked
  BY DEF PostConfirmed, PostKept, PostFailed, Ends, ui, strip, server, SaveTypes, SaveTypeOK
<1>3. save \in Save /\ save.n \in Forms /\ save.n <= opened /\ save.kind = kind[save.n]
  BY <1>2, EditTypes DEF Kinds
<1>4. \/ save' = Nil /\ (form' = Nil \/ (~Closing /\ form' = form /\ told'[save.n] = "failed"))
      \/ /\ save' # Nil /\ save'.n = save.n /\ save'.kind = "new" /\ save'.step = "keep"
         /\ save.kind = "new" /\ told' = told /\ form' = form
  <2>1. CASE PostConfirmed
    BY <2>1 DEF PostConfirmed, Ends
  <2>2. CASE PostKept
    BY <1>3, <2>2, SaveGoesOn DEF PostKept, ui
  <2>3. CASE PostFailed
    BY <1>3, <2>3 DEF PostFailed, Closing, ui, SaveTypes, SaveTypeOK
  <2> QED
    BY <2>1, <2>2, <2>3
<1>5. Queued' = Queued /\ Reading' = Reading /\ Queued \subseteq Forms
  BY <1>2, EditTypes DEF Queued, Reading, Forms
<1>6. save.kind = "edit" => Queued = {}
  BY <1>1, <1>2 DEF Unknown, Direct
<1>7. ~Storing' /\ ~Direct'
  BY <1>4 DEF Storing, Direct
<1>8. Bodies'
  <2>1. fetch'.list.record \subseteq fetch.list.record
    BY <1>2 DEF Asked, EmptyList
  <2> QED
    BY <1>1, <1>2, <1>4, <1>5, <2>1 DEF Bodies, EditsUpTo, IsEdit, Editing, Closing
<1>9. InTurn'
  BY <1>1, <1>2, <1>4, <1>5, <1>7 DEF InTurn, Editing, Closing
<1>10. Unknown'
  BY <1>1, <1>2, <1>4, <1>5, <1>7 DEF Unknown, Editing
<1>11. RunInTurn'
  BY <1>1, <1>2, <1>5 DEF RunInTurn
<1>12. \A e \in record : e \in Forms /\ kind[e] = "edit"
  BY <1>1, EditTypes DEF Bodies, EditsUpTo, IsEdit
<1>13. Builds'
  <2>1. \A n \in Queued' \ blind' :
            BuildsOnQueued(n, queue[n].body)' /\ (n \notin refused' => Covers(queue[n].body)')
    <3>1. CASE Queued = {}
      BY <1>5, <3>1
    <3>2. CASE Queued # {}
      <4>1. \A e \in record : told'[e] = told[e]
        BY <1>2, <1>3, <1>6, <1>12, <3>2, EditTypes
      <4> QED
        BY <1>1, <1>2, <1>5, <4>1 DEF Builds, BuildsOnQueued, Covers
    <3> QED
      BY <3>1, <3>2
  <2>2. Editing' /\ form'.filled /\ ~Closing' /\ form'.n \notin blind' =>
            BuildsOnQueued(form.n, form.base)' /\ (form'.n \notin refused' => Covers(form.base \cup {form.n})')
    <3>1. SUFFICES ASSUME Editing', form'.filled, ~Closing', form'.n \notin blind'
                   PROVE  /\ BuildsOnQueued(form.n, form.base)'
                          /\ form'.n \notin refused' => Covers(form.base \cup {form.n})'
      OBVIOUS
    <3>2. form' = form /\ ~Closing /\ told'[save.n] = "failed"
      BY <1>4, <3>1 DEF Editing, Closing
    <3>3. /\ BuildsOnQueued(form.n, form.base)
          /\ form.n \notin refused => Covers(form.base \cup {form.n})
      BY <1>1, <1>2, <3>1, <3>2 DEF Builds, Editing
    <3>4. \A e \in record : told'[e] = told[e] \/ told'[e] = "failed"
      BY <1>2, <1>12, <3>2
    <3> QED
      BY <1>2, <1>5, <3>2, <3>3, <3>4 DEF BuildsOnQueued, Covers
  <2> QED
    BY <1>7, <2>1, <2>2 DEF Builds
<1> QED
  BY <1>8, <1>9, <1>10, <1>11, <1>13 DEF Edits

\* The save goes into the outbox, after all that are in it.
LEMMA StoreEdits ==
    ASSUME SaveTypes, SaveTypes', Kinds, Edits, RefusalsNoted', Store
    PROVE  Edits'
<1>1. Bodies /\ InTurn /\ Unknown /\ RunInTurn /\ Builds
  BY DEF Edits
<1>2. /\ UNCHANGED <<form, record, refused, told, blind, owner, flush, list, fetch, opened, kind>>
      /\ save # Nil /\ save.step \in {"store", "keep"}
  BY DEF Store, ui, strip, server
<1>3. PICK m \in Forms : m = save.n
  BY <1>2, EditTypes
<1>4. save \in Save /\ m <= opened /\ save.kind = kind[m] /\ save.kind \in {"new", "edit"}
  BY <1>2, <1>3, EditTypes DEF Kinds
<1>5. /\ save' # Nil /\ save'.n = m /\ save'.kind = save.kind /\ save'.body = save.body
      /\ save'.step = IF save.step = "store" THEN "announce" ELSE "kept"
  <2>1. PICK step \in {"announce", "kept"} :
          save' = [save EXCEPT !.step = step] /\ step = IF save.step = "store" THEN "announce" ELSE "kept"
    BY DEF Store
  <2>2. step \in {"post", "taken", "lost", "refused", "store", "announce", "keep", "kept"}
    OBVIOUS
  <2>3. PICK s \in Save : s = save
    BY <1>4
  <2>4. LET t == [s EXCEPT !.step = step]
        IN t \in Save /\ t.n = s.n /\ t.kind = s.kind /\ t.body = s.body /\ t.step = step
    BY ONLY s \in Save, <2>2 DEF Save
  <2> QED
    BY <1>3, <2>1, <2>3, <2>4, NilIsNoValue
<1>6. PICK item \in Item : item = [kind |-> save.kind, key |-> save.key, body |-> save.body, rejected |-> FALSE]
  BY <1>4 DEF Save, Item
<1>7. /\ queue'[m] = item /\ item # Nil /\ item.kind = save.kind /\ item.body = save.body
      /\ \A n \in Forms \ {m} : queue'[n] = queue[n]
  BY <1>3, <1>6, NilIsNoValue DEF Store, SaveTypes, SaveTypeOK
<1>8. /\ save.kind = "edit" => Storing /\ Queued' = Queued \cup {m}
      /\ save.kind = "new" => Queued' = Queued
      /\ m \notin Queued
  <2>1. save.kind = "edit" => Storing
    BY <1>1, <1>2 DEF Unknown, Storing
  <2>2. m \notin Queued
    <3>1. CASE save.kind = "edit"
      BY <1>1, <1>3, <2>1, <3>1 DEF InTurn
    <3>2. CASE save.kind = "new"
      BY <1>4, <3>2 DEF Queued, Kinds
    <3> QED
      BY <1>4, <3>1, <3>2
  <2>3. \A n \in Forms : n \in Queued' <=> (n \in Queued \/ (n = m /\ save.kind = "edit"))
    BY <1>7, <2>2 DEF Queued, Forms
  <2>4. Queued \subseteq Forms /\ Queued' \subseteq Forms
    BY DEF Queued, Forms
  <2> QED
    BY <1>4, <2>1, <2>2, <2>3, <2>4
<1>9. \A n \in Queued : queue'[n] = queue[n] /\ n \in Forms /\ n <= m /\ n # m /\ n < m
  <2>1. Queued \subseteq Forms /\ Forms \subseteq Nat
    BY EditTypes
  <2>2. \A n \in Queued : n <= m
    BY <1>1, <1>2, <1>3 DEF InTurn
  <2> QED
    BY <1>3, <1>7, <1>8, <2>1, <2>2
<1>10. Reading' = Reading /\ Reading \subseteq Queued
  BY <1>1, <1>2 DEF Reading, Forms, RunInTurn
<1>11. ~Storing' /\ ~Direct' /\ Closing' /\ Closing
  BY <1>2, <1>5 DEF Storing, Direct, Closing
<1>12. \A e : IsEdit(e)' <=> IsEdit(e)
  BY <1>2 DEF IsEdit
<1>13. Bodies'
  <2>1. save.kind = "edit" => m \in save.body /\ EditsUpTo(m, save.body)
    BY <1>1, <1>2, <1>3 DEF Bodies
  <2>2. \A n \in Queued' : n \in queue'[n].body /\ EditsUpTo(n, queue[n].body)'
    <3>1. ASSUME NEW n \in Queued PROVE n \in queue'[n].body /\ EditsUpTo(n, queue[n].body)'
      BY <1>1, <1>9, <1>12, <3>1 DEF Bodies, EditsUpTo
    <3>2. ASSUME save.kind = "edit" PROVE m \in queue'[m].body /\ EditsUpTo(m, queue[m].body)'
      BY <1>7, <1>12, <2>1, <3>2 DEF EditsUpTo
    <3> QED
      BY <1>4, <1>8, <3>1, <3>2
  <2>3. save'.kind = "edit" => save'.n \in save'.body /\ EditsUpTo(save.n, save.body)'
    BY <1>5, <1>12, <2>1 DEF EditsUpTo
  <2> QED
    BY <1>1, <1>2, <1>11, <1>12, <2>2, <2>3 DEF Bodies, EditsUpTo
<1>14. InTurn'
  <2>1. \A n \in Queued' : n <= m
    <3>1. m <= m
      BY <1>3, EditTypes
    <3> QED
      BY <1>4, <1>8, <1>9, <3>1
  <2> QED
    BY <1>1, <1>2, <1>3, <1>5, <1>11, <2>1 DEF InTurn, Editing
<1>15. Unknown'
  <2>1. ~owner => Queued' = {}
    BY <1>1, <1>2, <1>4, <1>8 DEF Unknown, Storing
  <2> QED
    BY <1>1, <1>2, <1>3, <1>5, <1>11, <2>1 DEF Unknown, Editing
<1>16. RunInTurn'
  <2>1. \A n \in Reading' : n \in Queued' /\ queue'[n].body = flush'.items[n].body
    BY <1>1, <1>2, <1>4, <1>8, <1>9, <1>10 DEF RunInTurn
  <2>2. \A n \in Queued' \ (Reading' \cup refused') : \A k \in Reading' : k < n
    BY <1>1, <1>2, <1>4, <1>8, <1>9, <1>10 DEF RunInTurn
  <2>3. \A n \in Queued' \ refused' : \A e \in record' : e <= n
    BY <1>1, <1>2, <1>3, <1>4, <1>8 DEF RunInTurn, InTurn
  <2> QED
    BY <2>1, <2>2, <2>3 DEF RunInTurn
<1>17. Builds'
  <2>1. \A n \in Forms : n <= m => \A d \in Queued' : d < n => d \in Queued
    <3>1. Forms \subseteq Nat
      BY EditTypes
    <3> QED
      BY <1>4, <1>8, <3>1
  <2>2. ASSUME NEW n \in Queued \ blind
        PROVE  BuildsOnQueued(n, queue[n].body)' /\ (n \notin refused' => Covers(queue[n].body)')
    BY <1>1, <1>2, <1>9, <2>1 DEF Builds, BuildsOnQueued, Covers
  <2>3. ASSUME save.kind = "edit", m \notin blind
        PROVE  BuildsOnQueued(m, queue[m].body)' /\ (m \notin refused' => Covers(queue[m].body)')
    <3>1. BuildsOnQueued(m, save.body) /\ (m \notin refused => Covers(save.body))
      BY <1>1, <1>3, <1>8, <2>3 DEF Builds
    <3>2. m <= m
      BY EditTypes
    <3> QED
      BY <1>2, <1>7, <1>9, <2>1, <3>1, <3>2 DEF BuildsOnQueued, Covers
  <2>4. \A n \in Queued' \ blind' :
            BuildsOnQueued(n, queue[n].body)' /\ (n \notin refused' => Covers(queue[n].body)')
    BY <1>2, <1>4, <1>8, <2>2, <2>3
  <2> QED
    BY <1>11, <2>4 DEF Builds
<1> QED
  BY <1>13, <1>14, <1>15, <1>16, <1>17 DEF Edits

\* The user is told: of an edit in the outbox, which the later ones there build on.
LEMMA StoredEdits ==
    ASSUME SaveTypes, SaveTypes', Kinds, Edits, RefusalsNoted', Stored
    PROVE  Edits'
<1>1. Bodies /\ InTurn /\ Unknown /\ RunInTurn /\ Builds
  BY DEF Edits
<1>2. /\ UNCHANGED <<queue, record, refused, blind, owner, list, fetch, opened, kind>>
      /\ save # Nil /\ save.step \in {"announce", "kept"}
      /\ form' = Nil /\ save' = Nil
      /\ \A n \in Forms : told'[n] = told[n] \/ n = save.n
  BY DEF Stored, Ends, strip, server, SaveTypes, SaveTypeOK
<1>3. save.n \in Forms /\ save.kind = kind[save.n] /\ Forms \subseteq Nat
  BY <1>2, EditTypes DEF Kinds
<1>4. Queued' = Queued
  BY <1>2 DEF Queued, Forms
<1>5. Reading' = Reading /\ \A n \in Reading : flush'.items[n] = flush.items[n]
  <2>1. flush' = flush \/ (flush = Nil /\ flush' = NewRun)
    BY RunRequested DEF Stored, SaveTypes
  <2>2. CASE flush' = flush
    BY <2>2 DEF Reading, Forms
  <2>3. CASE flush = Nil /\ flush' = NewRun
    BY <2>3, RunBegins DEF Reading, Forms
  <2> QED
    BY <2>1, <2>2, <2>3
<1>6. ~Editing' /\ ~Direct' /\ ~Storing'
  BY <1>2 DEF Editing, Direct, Storing
<1>7. Bodies'
  BY <1>1, <1>2, <1>4, <1>6 DEF Bodies, EditsUpTo, IsEdit
<1>8. InTurn'
  BY <1>2, <1>6 DEF InTurn
<1>9. Unknown'
  BY <1>1, <1>2, <1>4, <1>6 DEF Unknown
<1>10. RunInTurn'
  BY <1>1, <1>2, <1>4, <1>5 DEF RunInTurn
<1>11. ASSUME NEW n \in Queued, n \notin refused, n \notin blind, NEW e \in record, e \notin queue[n].body
       PROVE  e # save.n
  <2>1. ASSUME e = save.n PROVE FALSE
    <3>1. n <= save.n /\ save.n <= n
      BY <1>1, <1>2, <1>11, <2>1 DEF InTurn, RunInTurn
    <3>2. n = save.n
      <4>1. n \in Nat /\ save.n \in Nat
        BY <1>3, EditTypes
      <4> QED
        BY <3>1, <4>1
    <3>3. n \in queue[n].body
      BY <1>1 DEF Bodies
    <3> QED
      BY <1>11, <2>1, <3>2, <3>3
  <2> QED
    BY <2>1
<1>12. Builds'
  <2>1. ASSUME NEW n \in Queued \ blind
        PROVE  BuildsOnQueued(n, queue[n].body)' /\ (n \notin refused' => Covers(queue[n].body)')
    <3>1. BuildsOnQueued(n, queue[n].body) /\ (n \notin refused => Covers(queue[n].body))
      BY <1>1, <2>1 DEF Builds
    <3>2. record \subseteq Forms
      BY EditTypes
    <3>3. BuildsOnQueued(n, queue[n].body)'
      BY <1>2, <1>4, <3>1 DEF BuildsOnQueued
    <3>4. n \notin refused' => Covers(queue[n].body)'
      BY <1>2, <1>11, <2>1, <3>1, <3>2 DEF Covers
    <3> QED
      BY <3>3, <3>4
  <2> QED
    BY <1>2, <1>4, <1>6, <2>1 DEF Builds
<1> QED
  BY <1>7, <1>8, <1>9, <1>10, <1>12 DEF Edits

\* A run reads the outbox.
LEMMA ReadEdits ==
    ASSUME SaveTypes, SaveTypes', Edits, RefusalsNoted', ReadOutbox
    PROVE  Edits'
<1>1. Bodies /\ InTurn /\ Unknown /\ RunInTurn /\ RefusalsNoted /\ Builds
  BY DEF Edits
<1>2. /\ UNCHANGED <<form, save, queue, record, refused, told, blind, owner, list, fetch, opened, kind>>
      /\ flush # Nil
  BY DEF ReadOutbox, ui, strip, server
<1>3. flush' # Nil /\ \A n \in Forms : flush'.items[n] = IF n \in Pending THEN queue[n] ELSE Nil
  <2>1. [n \in Forms |-> IF n \in Pending THEN queue[n] ELSE Nil] \in [Forms -> Item \cup {Nil}]
    BY DEF SaveTypes, SaveTypeOK
  <2>2. flush \in Run
    BY <1>2 DEF SaveTypes, SaveTypeOK
  <2>3. flush' \in Run /\ flush'.items = [n \in Forms |-> IF n \in Pending THEN queue[n] ELSE Nil]
    BY <2>1, <2>2 DEF ReadOutbox, Run
  <2> QED
    BY <2>3, NilIsNoValue
<1>4. Queued' = Queued
  BY <1>2 DEF Queued, Forms
<1>5. \A n \in Reading' : n \in Queued /\ flush'.items[n] = queue[n]
  BY <1>2, <1>3 DEF Reading, Queued, Forms, Pending
<1>6. \A n \in Queued : n \in Reading' \/ n \in refused
  BY <1>1, <1>2, <1>3 DEF Reading, Queued, Forms, Pending, RefusalsNoted
<1>7. Bodies'
  BY <1>1, <1>2, <1>4 DEF Bodies, EditsUpTo, IsEdit, Editing, Closing
<1>8. InTurn'
  BY <1>1, <1>2, <1>4 DEF InTurn, Storing, Editing, Closing
<1>9. Unknown'
  BY <1>1, <1>2, <1>4 DEF Unknown, Direct, Editing
<1>10. RunInTurn'
  <2>1. \A n \in Queued' \ refused' : \A e \in record' : e <= n
    BY <1>1, <1>2, <1>4 DEF RunInTurn
  <2>2. \A n \in Reading' : n \in Queued' /\ queue'[n].body = flush'.items[n].body
    BY <1>2, <1>4, <1>5
  <2>3. Queued' \ (Reading' \cup refused') = {}
    BY <1>2, <1>4, <1>6
  <2> QED
    BY <2>1, <2>2, <2>3 DEF RunInTurn
<1>11. Builds'
  BY <1>1, <1>2, <1>4 DEF Builds, BuildsOnQueued, Covers, Storing, Editing, Closing
<1> QED
  BY <1>7, <1>8, <1>9, <1>10, <1>11 DEF Edits

\* The edit that a run is at is the oldest that waits, and all later ones that were
\* not begun blindly build on it.
LEMMA EntryIsOldest ==
    ASSUME SaveTypes, Edits, flush # Nil, NEW m \in Forms, m \in Todo, m = Min(Todo),
           flush.items[m].kind = "edit"
    PROVE  /\ m \in Queued /\ flush.items[m].body = queue[m].body
           /\ \A n \in Queued \ refused : m <= n
           /\ m \in queue[m].body /\ EditsUpTo(m, queue[m].body)
<1>1. RunInTurn /\ Bodies
  BY DEF Edits
<1>2. m \in Reading
  BY DEF Reading, Todo
<1>3. \A k \in Reading : m <= k
  <2>1. Reading \subseteq Todo
    BY DEF Reading, Todo
  <2> QED
    BY <2>1, AtEntry DEF SaveTypes
<1>4. ASSUME NEW n \in Queued \ refused PROVE m <= n
  <2>1. m \in Nat /\ n \in Nat
    BY EditTypes
  <2>2. CASE n \in Reading
    BY <1>3, <2>2
  <2>3. CASE n \notin Reading
    BY <1>1, <1>2, <1>4, <2>1, <2>3 DEF RunInTurn
  <2> QED
    BY <2>2, <2>3
<1>5. m \in Queued /\ flush.items[m].body = queue[m].body
  BY <1>1, <1>2 DEF RunInTurn
<1>6. m \in queue[m].body /\ EditsUpTo(m, queue[m].body)
  BY <1>1, <1>5 DEF Bodies
<1> QED
  BY <1>4, <1>5, <1>6

\* What the server takes from an edit in the outbox the later ones have.
LEMMA LaterHaveIt ==
    ASSUME SaveTypes, Edits, NEW m \in Queued, \A n \in Queued \ refused : m <= n
    PROVE  /\ \A n \in Queued \ (blind \cup refused) : queue[m].body \subseteq queue[n].body
           /\ Storing /\ save.n \notin blind => queue[m].body \subseteq save.body
           /\ Editing /\ form.filled /\ ~Closing /\ form.n \notin blind => queue[m].body \subseteq form.base
<1>1. Builds /\ InTurn
  BY DEF Edits
<1>2. m \in Nat /\ Queued \subseteq Nat /\ m <= opened /\ opened \in Nat
  BY EditTypes DEF Edits, Bodies, EditsUpTo, IsEdit
<1>3. ASSUME NEW n \in Queued \ (blind \cup refused) PROVE queue[m].body \subseteq queue[n].body
  <2>1. n = m \/ m < n
    BY <1>2, <1>3
  <2> QED
    BY <1>1, <1>3, <2>1 DEF Builds, BuildsOnQueued
<1>4. ASSUME Storing, save.n \notin blind PROVE queue[m].body \subseteq save.body
  <2>1. save # Nil /\ m <= save.n /\ m # save.n /\ save.n \in Nat
    BY <1>1, <1>4, EditTypes DEF Storing, InTurn
  <2>2. m < save.n
    BY <1>2, <2>1
  <2> QED
    BY <1>1, <1>4, <2>2 DEF Builds, BuildsOnQueued
<1>5. ASSUME Editing, form.filled, ~Closing, form.n \notin blind PROVE queue[m].body \subseteq form.base
  <2>1. form.n = opened /\ m # form.n
    BY <1>1, <1>5 DEF Editing, InTurn
  <2>2. m < form.n
    BY <1>2, <2>1
  <2> QED
    BY <1>1, <1>5, <2>2 DEF Builds, BuildsOnQueued
<1> QED
  BY <1>3, <1>4, <1>5

\* The entry is sent.
LEMMA SendEdits ==
    ASSUME SaveTypes, SaveTypes', Kinds, Edits, RefusalsNoted', refused \subseteq refused', Send
    PROVE  Edits'
<1>1. Bodies /\ InTurn /\ Unknown /\ RunInTurn /\ Builds
  BY DEF Edits
<1>2. /\ UNCHANGED <<form, save, queue, told, blind, owner, list, fetch, opened, kind>>
      /\ flush # Nil /\ Todo # {}
  BY DEF Send, ui, strip, server
<1>3. PICK m \in Forms : m = Min(Todo) /\ m \in Todo
  BY <1>2, AtEntry DEF SaveTypes
<1>4. flush' # Nil /\ flush'.items = flush.items
  <2>1. flush \in Run
    BY <1>2 DEF SaveTypes, SaveTypeOK
  <2>2. PICK step \in {"ok", "end", "refused"} : flush' = [flush EXCEPT !.step = step]
    BY DEF Send
  <2>3. step \in {"read", "next", "ok", "refused", "end"}
    OBVIOUS
  <2> QED
    BY ONLY <2>1, <2>2, <2>3, RunGoesOn
<1>5. Queued' = Queued /\ Reading' = Reading /\ Editing' = Editing
      /\ Storing' = Storing /\ Closing' = Closing /\ Direct' = Direct
  BY <1>2, <1>4 DEF Queued, Reading, Forms, Editing, Storing, Closing, Direct
<1>6. \/ record' = record
      \/ record' = flush.items[m].body /\ flush.items[m].kind = "edit"
  BY <1>3 DEF Send, Take, server
<1>7. CASE record' = record
  <2>1. Bodies'
    BY <1>1, <1>2, <1>5, <1>7 DEF Bodies, EditsUpTo, IsEdit
  <2>2. InTurn'
    BY <1>1, <1>2, <1>5, <1>7 DEF InTurn
  <2>3. Unknown'
    BY <1>1, <1>2, <1>5 DEF Unknown
  <2>4. RunInTurn'
    BY <1>1, <1>2, <1>4, <1>5, <1>7 DEF RunInTurn
  <2>5. Builds'
    BY <1>1, <1>2, <1>5, <1>7 DEF Builds, BuildsOnQueued, Covers
  <2> QED
    BY <2>1, <2>2, <2>3, <2>4, <2>5 DEF Edits
<1>8. CASE record' = flush.items[m].body /\ flush.items[m].kind = "edit"
  <2>1. /\ m \in Queued /\ record' = queue[m].body
        /\ \A n \in Queued \ refused : m <= n
        /\ \A e \in record' : e <= m /\ IsEdit(e)
    BY <1>2, <1>3, <1>8, EntryIsOldest DEF EditsUpTo
  <2>2. m \in Nat /\ opened \in Nat /\ m <= opened /\ record' \subseteq Nat /\ Queued \subseteq Nat
    BY <2>1, EditTypes DEF Kinds, Queued
  <2>3. \A k \in Nat : m <= k => \A e \in record' : e <= k
    BY <2>1, <2>2
  <2>4. Bodies'
    BY <1>1, <1>2, <1>5, <2>1, <2>2, <2>3 DEF Bodies, EditsUpTo, IsEdit
  <2>5. InTurn'
    <3>1. save # Nil => m <= save.n /\ save.n \in Nat
      BY <1>1, <2>1, EditTypes DEF InTurn
    <3> QED
      BY <1>1, <1>2, <1>5, <2>3, <3>1 DEF InTurn
  <2>6. Unknown'
    BY <1>1, <1>2, <1>5 DEF Unknown
  <2>7. RunInTurn'
    <3>1. \A n \in Queued' \ refused' : \A e \in record' : e <= n
      BY <1>5, <2>1, <2>2, <2>3
    <3> QED
      BY <1>1, <1>2, <1>4, <1>5, <3>1 DEF RunInTurn
  <2>8. Builds'
    <3>1. \A n \in Queued' \ blind' :
              BuildsOnQueued(n, queue[n].body)' /\ (n \notin refused' => Covers(queue[n].body)')
      <4>1. ASSUME NEW n \in Queued \ blind
            PROVE  BuildsOnQueued(n, queue[n].body)' /\ (n \notin refused' => Covers(queue[n].body)')
        <5>1. BuildsOnQueued(n, queue[n].body)'
          BY <1>1, <1>2, <1>5, <4>1 DEF Builds, BuildsOnQueued
        <5>2. n \notin refused' => record' \subseteq queue'[n].body
          BY <1>2, <2>1, <4>1, LaterHaveIt
        <5> QED
          BY <5>1, <5>2 DEF Covers
      <4> QED
        BY <1>2, <1>5, <4>1
    <3>2. Storing' /\ save'.n \notin blind' =>
              BuildsOnQueued(save.n, save.body)' /\ (save'.n \notin refused' => Covers(save.body)')
      <4>1. Storing /\ save.n \notin blind => record' \subseteq save.body
        BY <2>1, LaterHaveIt
      <4> QED
        BY <1>1, <1>2, <1>5, <4>1 DEF Builds, BuildsOnQueued, Covers
    <3>3. Editing' /\ form'.filled /\ ~Closing' /\ form'.n \notin blind' =>
              BuildsOnQueued(form.n, form.base)' /\ (form'.n \notin refused' => Covers(form.base \cup {form.n})')
      <4>1. Editing /\ form.filled /\ ~Closing /\ form.n \notin blind => record' \subseteq form.base
        BY <2>1, LaterHaveIt
      <4> QED
        BY <1>1, <1>2, <1>5, <4>1 DEF Builds, BuildsOnQueued, Covers
    <3> QED
      BY <3>1, <3>2, <3>3 DEF Builds
  <2> QED
    BY <2>4, <2>5, <2>6, <2>7, <2>8 DEF Edits
<1> QED
  BY <1>6, <1>7, <1>8

\* What changes no entry but its mark, or takes one out that no run has left to send.
LEMMA QueueEdits ==
    ASSUME SaveTypes, SaveTypes', Edits, RefusalsNoted',
           UNCHANGED <<form, save, record, refused, told, blind, owner, list, fetch, opened, kind>>,
           Queued' \subseteq Queued,
           \A n \in Queued' : queue'[n].body = queue[n].body,
           Reading' \subseteq Queued' \cap Reading,
           \A n \in Reading' : flush'.items[n].body = flush.items[n].body,
           \A n \in Queued' \ (Reading' \cup refused) : \A k \in Reading' : k < n
    PROVE  Edits'
<1>1. Bodies /\ InTurn /\ Unknown /\ RunInTurn /\ Builds
  BY DEF Edits
<1>2. Bodies'
  BY <1>1 DEF Bodies, EditsUpTo, IsEdit, Editing, Closing
<1>3. InTurn'
  BY <1>1 DEF InTurn, Storing, Editing, Closing
<1>4. Unknown'
  BY <1>1 DEF Unknown, Direct, Editing
<1>5. RunInTurn'
  BY <1>1 DEF RunInTurn
<1>6. Builds'
  BY <1>1 DEF Builds, BuildsOnQueued, Covers, Storing, Editing, Closing
<1> QED
  BY <1>2, <1>3, <1>4, <1>5, <1>6 DEF Edits

\* The answer is settled.
LEMMA SettleEdits ==
    ASSUME SaveTypes, SaveTypes', Edits, RefusalsNoted', Settle
    PROVE  Edits'
<1>1. RunInTurn /\ RefusalsNoted /\ SaveTypeOK
  BY DEF Edits, SaveTypes
<1>2. /\ UNCHANGED <<form, save, record, refused, told, blind, owner, list, fetch, opened, kind>>
      /\ flush # Nil /\ flush.step \in {"ok", "refused"}
  BY DEF Settle, ui, strip, server
<1>3. PICK m \in Forms : m = Min(Todo)
  BY <1>2, AtEntry DEF SaveTypes, AnswerIsForOne
<1>4. flush.items \in [Forms -> Item \cup {Nil}] /\ flush.synced \subseteq Forms
  BY <1>1, <1>2 DEF SaveTypeOK, Run
<1>5. /\ flush' # Nil /\ flush'.items[m] = Nil
      /\ \A n \in Forms \ {m} : flush'.items[n] = flush.items[n]
  <2>1. flush' \in Run
    BY <1>3, <1>4 DEF Settle, Run
  <2> QED
    BY <1>3, <1>4, <2>1, NilIsNoValue DEF Settle
<1>6. Reading' = Reading \ {m}
  <2>1. \A n \in Forms : n \in Reading' <=> n \in Reading /\ n # m
    BY <1>2, <1>5 DEF Reading, Forms
  <2>2. Reading \subseteq Forms /\ Reading' \subseteq Forms
    BY DEF Reading, Forms
  <2> QED
    BY <2>1, <2>2
<1>7. \A n \in Forms \ {m} : queue'[n] = queue[n]
  BY <1>1, <1>3 DEF Settle, SaveTypeOK
<1>8. \/ queue'[m] = Nil /\ flush.step = "ok"
      \/ queue'[m] = queue[m] /\ m \in refused
      \/ queue[m] \in Item /\ queue'[m] = [queue[m] EXCEPT !.rejected = TRUE] /\ m \in refused
  BY <1>1, <1>2, <1>3 DEF Settle, SaveTypeOK, RefusalsNoted
<1>9. /\ queue'[m] # Nil => m \in refused /\ queue[m] # Nil
                            /\ queue'[m].kind = queue[m].kind /\ queue'[m].body = queue[m].body
      /\ m \in refused \/ queue'[m] = Nil
      /\ queue'[m] = Nil => flush.step = "ok" \/ queue[m] = Nil
  <2>1. \A i \in Item : LET j == [i EXCEPT !.rejected = TRUE]
                        IN j # Nil /\ j.kind = i.kind /\ j.body = i.body /\ i # Nil
    BY NilIsNoValue DEF Item
  <2> QED
    BY <1>8, <2>1
<1>10. \A n \in Forms : n \in Queued' <=> n \in Queued /\ (n = m => queue'[m] # Nil)
  BY <1>7, <1>9 DEF Queued, Forms
<1>11. Queued' \subseteq Queued /\ Queued \subseteq Forms
  <2>1. Queued' \subseteq Forms /\ Queued \subseteq Forms
    BY DEF Queued, Forms
  <2> QED
    BY <1>10, <2>1
<1>12. \A n \in Queued' : queue'[n].body = queue[n].body
  BY <1>7, <1>9, <1>10, <1>11
<1>13. Reading' \subseteq Queued' \cap Reading
  BY <1>1, <1>6, <1>10, <1>11 DEF RunInTurn
<1>14. \A n \in Queued' \ (Reading' \cup refused) : \A k \in Reading' : k < n
  BY <1>1, <1>6, <1>9, <1>10, <1>11 DEF RunInTurn
<1>15. \A n \in Reading' : flush'.items[n].body = flush.items[n].body
  <2>1. Reading \subseteq Forms
    BY DEF Reading
  <2> QED
    BY <1>5, <1>6, <2>1
<1> QED
  BY <1>2, <1>11, <1>12, <1>13, <1>14, <1>15, QueueEdits

\* A refused entry is tried again.
LEMMA TryAgainEdits ==
    ASSUME SaveTypes, SaveTypes', Edits, RefusalsNoted', NEW m \in Forms, TryAgain(m)
    PROVE  Edits'
<1>1. RunInTurn /\ SaveTypeOK
  BY DEF Edits, SaveTypes
<1>2. UNCHANGED <<form, save, record, refused, told, blind, owner, list, fetch, opened, kind>>
  BY DEF TryAgain, ui, strip, server
<1>3. Reading' = Reading /\ \A n \in Reading : flush'.items[n] = flush.items[n]
  <2>1. flush' = flush \/ (flush = Nil /\ flush' = NewRun)
    BY <1>1, RunRequested DEF TryAgain
  <2>2. CASE flush' = flush
    BY <2>2 DEF Reading, Forms
  <2>3. CASE flush = Nil /\ flush' = NewRun
    BY <2>3, RunBegins DEF Reading, Forms
  <2> QED
    BY <2>1, <2>2, <2>3
<1>4. \A n \in Forms \ {m} : queue'[n] = queue[n]
  BY <1>1 DEF TryAgain, SaveTypeOK
<1>5. /\ queue'[m] # Nil /\ queue[m] # Nil
      /\ queue'[m].kind = queue[m].kind /\ queue'[m].body = queue[m].body
  <2>1. \A i \in Item : LET j == [i EXCEPT !.rejected = FALSE]
                        IN j # Nil /\ j.kind = i.kind /\ j.body = i.body /\ i # Nil
    BY NilIsNoValue DEF Item
  <2>2. queue[m] \in Item /\ queue'[m] = [queue[m] EXCEPT !.rejected = FALSE]
    BY <1>1 DEF TryAgain, SaveTypeOK
  <2> QED
    BY <2>1, <2>2
<1>6. Queued' = Queued /\ Queued \subseteq Forms
  <2>1. \A n \in Forms : n \in Queued' <=> n \in Queued
    BY <1>4, <1>5 DEF Queued, Forms
  <2>2. Queued' \subseteq Forms /\ Queued \subseteq Forms
    BY DEF Queued, Forms
  <2> QED
    BY <2>1, <2>2
<1>7. \A n \in Queued' : queue'[n].body = queue[n].body
  BY <1>4, <1>5, <1>6
<1>8. Reading' \subseteq Queued' \cap Reading
  BY <1>1, <1>3, <1>6 DEF RunInTurn
<1>9. \A n \in Queued' \ (Reading' \cup refused) : \A k \in Reading' : k < n
  BY <1>1, <1>3, <1>6 DEF RunInTurn
<1> QED
  BY <1>2, <1>3, <1>6, <1>7, <1>8, <1>9, QueueEdits

\* No edit is empty, whoever sends it.
BodiesFull ==
    /\ \A n \in Queued : queue[n].body # {}
    /\ flush # Nil => \A n \in Reading : flush.items[n].body # {}
    /\ save # Nil /\ save.kind = "edit" => save.body # {}

LEMMA BodiesStayFull ==
    ASSUME SaveTypes, SaveTypes', BodiesFull, [SaveNext]_pathVars
    PROVE  BodiesFull'
<1>1. SaveTypeOK /\ SaveTypeOK' /\ AnswerIsForOne
  BY DEF SaveTypes
<1> DEFINE QueueFull == \A n \in Forms : queue[n] # Nil /\ queue[n].kind = "edit" => queue[n].body # {}
           RunFull == flush # Nil =>
                \A n \in Forms : flush.items[n] # Nil /\ flush.items[n].kind = "edit" => flush.items[n].body # {}
           SaveFull == save # Nil /\ save.kind = "edit" => save.body # {}
<1>2. QueueFull /\ RunFull /\ SaveFull
  BY DEF BodiesFull, Queued, Reading
<1> SUFFICES QueueFull' /\ RunFull' /\ SaveFull'
  BY DEF BodiesFull, Queued, Reading, Forms
<1> USE DEF ui, strip, server
<1>3. ASSUME queue' = queue PROVE QueueFull'
  BY <1>2, <1>3 DEF Forms
<1>4. ASSUME flush' = flush PROVE RunFull'
  BY <1>2, <1>4 DEF Forms
<1>5. ASSUME flush' = NewRun \/ flush' = Nil PROVE RunFull'
  BY <1>5, RunBegins DEF Forms
<1>6. ASSUME save' = save \/ save' = Nil PROVE SaveFull'
  BY <1>2, <1>6
<1>7. ASSUME RequestFlush PROVE RunFull'
  BY <1>1, <1>4, <1>5, <1>7, RunRequested
<1> HIDE DEF QueueFull, RunFull, SaveFull
<1>8. CASE UNCHANGED pathVars
  BY <1>3, <1>4, <1>6, <1>8 DEF pathVars
<1>9. CASE Post \/ PostKept
  <2>1. save # Nil /\ save \in Save
    BY <1>1, <1>9 DEF Post, PostKept, SaveTypeOK
  <2>2. PICK step \in {"taken", "lost", "refused", "keep"} : save' = [save EXCEPT !.step = step]
    BY <1>9 DEF Post, PostKept
  <2>3. save'.kind = save.kind /\ save'.body = save.body
    BY <2>1, <2>2 DEF Save
  <2>4. SaveFull'
    BY <1>2, <2>1, <2>3 DEF SaveFull
  <2> QED
    BY <1>3, <1>4, <1>9, <2>4 DEF Post, PostKept
<1>10. CASE PostConfirmed \/ PostFailed \/ Stored
  BY <1>3, <1>4, <1>6, <1>7, <1>10 DEF PostConfirmed, PostFailed, Stored, Ends
<1>11. CASE Store
  <2>1. save # Nil /\ save \in Save /\ save.n \in Forms
    BY <1>1, <1>11 DEF Store, SaveTypeOK, Save
  <2>2. save'.kind = save.kind /\ save'.body = save.body
    BY <2>1, <1>11 DEF Store, Save
  <2>3. SaveFull'
    BY <1>2, <2>1, <2>2 DEF SaveFull
  <2>4. QueueFull'
    BY <1>1, <1>2, <1>11, <2>1 DEF Store, QueueFull, SaveFull, SaveTypeOK, Forms
  <2> QED
    BY <1>4, <1>11, <2>3, <2>4 DEF Store
<1>12. CASE ReadOutbox
  <2>1. flush \in Run
    BY <1>1, <1>12 DEF ReadOutbox, SaveTypeOK
  <2>2. flush'.items = [n \in Forms |-> IF n \in Pending THEN queue[n] ELSE Nil]
    BY <1>12, <2>1 DEF ReadOutbox, Run
  <2>3. RunFull'
    BY <1>2, <2>2 DEF RunFull, QueueFull, Forms
  <2> QED
    BY <1>3, <1>6, <1>12, <2>3 DEF ReadOutbox
<1>13. CASE Send
  <2>1. flush \in Run /\ flush # Nil
    BY <1>1, <1>13 DEF Send, SaveTypeOK
  <2>2. PICK step \in {"ok", "end", "refused"} : flush' = [flush EXCEPT !.step = step]
    BY <1>13 DEF Send
  <2>3. flush'.items = flush.items
    BY <2>1, <2>2 DEF Run
  <2>4. RunFull'
    BY <1>2, <2>1, <2>3 DEF RunFull, Forms
  <2> QED
    BY <1>3, <1>6, <1>13, <2>4 DEF Send
<1>14. CASE Settle
  <2>1. PICK m \in Forms : m = Min(Todo)
    BY <1>1, <1>14, AtEntry DEF Settle, AnswerIsForOne
  <2>2. flush.items \in [Forms -> Item \cup {Nil}] /\ flush # Nil
    BY <1>1, <1>14 DEF Settle, SaveTypeOK, Run
  <2>3. \A n \in Forms : flush'.items[n] = Nil \/ flush'.items[n] = flush.items[n]
    BY <1>14, <2>1, <2>2 DEF Settle
  <2>4. RunFull'
    BY <1>2, <2>2, <2>3 DEF RunFull, Forms
  <2>5. \A i \in Item : LET j == [i EXCEPT !.rejected = TRUE] IN j.kind = i.kind /\ j.body = i.body
    BY DEF Item
  <2>6. \A n \in Forms : \/ queue'[n] = Nil \/ queue'[n] = queue[n]
                         \/ queue[n] \in Item /\ queue[n] # Nil /\ queue'[n] = [queue[n] EXCEPT !.rejected = TRUE]
    BY <1>1, <1>14, <2>1 DEF Settle, SaveTypeOK
  <2>7. QueueFull'
    <3>1. ASSUME NEW n \in Forms, queue'[n] # Nil
          PROVE  queue[n] # Nil /\ queue'[n].kind = queue[n].kind /\ queue'[n].body = queue[n].body
      <4>1. CASE queue'[n] = queue[n]
        BY <3>1, <4>1
      <4>2. CASE queue[n] \in Item /\ queue[n] # Nil /\ queue'[n] = [queue[n] EXCEPT !.rejected = TRUE]
        <5>1. PICK i \in Item : i = queue[n]
          BY <4>2
        <5>2. queue'[n] = [i EXCEPT !.rejected = TRUE]
          BY <4>2, <5>1
        <5> QED
          BY <2>5, <4>2, <5>1, <5>2
      <4> QED
        BY <2>6, <3>1, <4>1, <4>2
    <3> QED
      BY <1>2, <3>1 DEF QueueFull, Forms
  <2> QED
    BY <1>6, <1>14, <2>4, <2>7 DEF Settle
<1>15. CASE EndRun
  BY <1>3, <1>5, <1>6, <1>15 DEF EndRun
<1>16. CASE Click
  <2>1. form # Nil /\ form \in Form /\ save' \in Save \cup {Nil}
    BY <1>1, <1>16 DEF Click, SaveTypeOK
  <2>2. save'.kind = form.kind /\ (form.kind = "edit" => form.n \in save'.body)
    BY <1>16 DEF Click
  <2>3. SaveFull'
    BY <2>2 DEF SaveFull
  <2> QED
    BY <1>3, <1>4, <1>16, <2>3 DEF Click
<1>17. CASE HelperSends
  <2>1. QueueFull'
    BY <1>1, <1>2, <1>17 DEF HelperSends, QueueFull, SaveTypeOK, Forms
  <2> QED
    BY <1>4, <1>6, <1>17, <2>1 DEF HelperSends
<1>18. ASSUME NEW m \in Forms, TryAgain(m) PROVE QueueFull' /\ RunFull' /\ SaveFull'
  <2>1. \A i \in Item : LET j == [i EXCEPT !.rejected = FALSE] IN j.kind = i.kind /\ j.body = i.body
    BY DEF Item
  <2>2. \A n \in Forms : \/ queue'[n] = queue[n]
                         \/ queue[n] \in Item /\ queue[n] # Nil /\ queue'[n] = [queue[n] EXCEPT !.rejected = FALSE]
    BY <1>1, <1>18 DEF TryAgain, SaveTypeOK
  <2>3. QueueFull'
    <3>1. ASSUME NEW n \in Forms, queue'[n] # Nil
          PROVE  queue[n] # Nil /\ queue'[n].kind = queue[n].kind /\ queue'[n].body = queue[n].body
      <4>1. CASE queue'[n] = queue[n]
        BY <3>1, <4>1
      <4>2. CASE queue[n] \in Item /\ queue[n] # Nil /\ queue'[n] = [queue[n] EXCEPT !.rejected = FALSE]
        <5>1. PICK i \in Item : i = queue[n]
          BY <4>2
        <5>2. queue'[n] = [i EXCEPT !.rejected = FALSE]
          BY <4>2, <5>1
        <5> QED
          BY <2>1, <4>2, <5>1, <5>2
      <4> QED
        BY <2>2, <3>1, <4>1, <4>2
    <3> QED
      BY <1>2, <3>1 DEF QueueFull, Forms
  <2> QED
    BY <1>6, <1>7, <1>18, <2>3 DEF TryAgain
<1>19. CASE \/ (\E k \in {"new", "edit"} : Open(k)) \/ Fill \/ Close \/ (\E n \in Forms : Forget(n))
            \/ ReadRows \/ AnswerFetch \/ ShowList \/ GoOffline
  BY <1>3, <1>4, <1>6, <1>19 DEF Open, Fill, Close, Forget, ReadRows, AnswerFetch, ShowList, GoOffline
<1>20. CASE Timer \/ KnowOwner \/ GoOnline
  BY <1>3, <1>6, <1>7, <1>20 DEF Timer, KnowOwner, GoOnline
<1> QED
  BY ONLY [SaveNext]_pathVars, <1>8, <1>9, <1>10, <1>11, <1>12, <1>13, <1>14, <1>15, <1>16, <1>17,
          <1>18, <1>19, <1>20
     DEF SaveNext, SaveStep, RunStep

\* While the service worker has sent nothing, every step keeps all of it.
EditsInv == SaveTypes /\ Kinds /\ OneKey /\ RefusalsNoted /\ BodiesFull /\ (byHelper = {} => Edits)

LEMMA HelperIsCounted ==
    ASSUME HelperSends
    PROVE  byHelper' # {}
  BY DEF HelperSends

LEMMA NextEdits == EditsInv /\ [SaveNext]_pathVars => EditsInv'
<1> SUFFICES ASSUME EditsInv, [SaveNext]_pathVars PROVE EditsInv'
  OBVIOUS
<1>1. /\ SaveTypes /\ SaveTypes' /\ Grows /\ Kinds /\ Kinds' /\ OneKey'
      /\ RefusalsNoted /\ RefusalsNoted' /\ refused \subseteq refused' /\ BodiesFull'
  BY SaveNextTypes, EverGrows, NextKeys, RefusalsStayNoted, BodiesStayFull DEF EditsInv
<1> SUFFICES ASSUME byHelper' = {} PROVE Edits'
  BY <1>1 DEF EditsInv
<1>2. Edits /\ ~HelperSends
  BY HelpCounts, HelperIsCounted DEF EditsInv
<1> USE DEF ui, strip, server
<1>3. CASE UNCHANGED pathVars
  BY <1>1, <1>2, <1>3, FrameEdits DEF pathVars
<1>4. CASE SaveStep
  BY <1>1, <1>2, <1>4, PostEdits, AnswerEdits, StoreEdits, StoredEdits DEF SaveStep
<1>5. CASE ReadOutbox \/ Send \/ Settle
  BY <1>1, <1>2, <1>5, ReadEdits, SendEdits, SettleEdits
<1>6. CASE EndRun
  <2>1. /\ UNCHANGED <<opened, kind, form, save, queue, record, refused, told, blind, owner, list>>
        /\ flush' = NewRun \/ flush' = Nil
        /\ fetch' = fetch \/ fetch' = Asked
    BY <1>6 DEF EndRun
  <2>2. fetch'.list.record \subseteq fetch.list.record
    BY <2>1 DEF Asked, EmptyList
  <2> QED
    BY <1>1, <1>2, <2>1, <2>2, FrameEdits
<1>7. CASE (\E k \in {"new", "edit"} : Open(k)) \/ Fill \/ Close \/ Click
  BY <1>1, <1>2, <1>7, OpenEdits, FillEdits, CloseEdits, ClickEdits
<1>8. ASSUME NEW n \in Forms, TryAgain(n) PROVE Edits'
  BY <1>1, <1>2, <1>8, TryAgainEdits
<1>9. CASE Timer \/ KnowOwner \/ GoOnline
  <2>1. flush' = flush \/ flush' = NewRun
    BY <1>1, <1>9, RunRequested DEF Timer, KnowOwner, GoOnline, SaveTypes
  <2>2. /\ UNCHANGED <<opened, kind, form, save, queue, record, refused, told, blind, list, fetch>>
        /\ owner' = owner \/ owner'
    BY <1>9 DEF Timer, KnowOwner, GoOnline
  <2> QED
    BY <1>1, <1>2, <2>1, <2>2, FrameEdits
<1>10. CASE (\E n \in Forms : Forget(n)) \/ ReadRows \/ GoOffline
  BY <1>1, <1>2, <1>10, FrameEdits DEF Forget, ReadRows, GoOffline
<1>11. CASE AnswerFetch
  BY <1>1, <1>2, <1>11, FrameEdits DEF AnswerFetch
<1>12. CASE ShowList
  BY <1>1, <1>2, <1>12, FrameEdits DEF ShowList, NoFetch, EmptyList
<1> QED
  BY ONLY [SaveNext]_pathVars, <1>2, <1>3, <1>4, <1>5, <1>6, <1>7, <1>8, <1>9, <1>10, <1>11, <1>12
     DEF SaveNext, RunStep

LEMMA InitEdits == SaveInit => EditsInv
<1> SUFFICES ASSUME SaveInit PROVE RefusalsNoted /\ BodiesFull /\ Edits
  BY SaveInitTypes, InitKeys DEF EditsInv
<1>1. \A n \in Forms : queue[n] = Nil
  BY DEF SaveInit, Nothing
<1>2. /\ Queued = {} /\ Reading = {} /\ record = {} /\ list.record = {} /\ fetch.list.record = {}
      /\ form = Nil /\ save = Nil /\ flush = Nil
  BY <1>1 DEF SaveInit, Queued, Reading, EmptyList, NoFetch
<1>3. Bodies /\ InTurn /\ Unknown /\ RunInTurn /\ Builds
  BY <1>2 DEF Bodies, EditsUpTo, Editing, InTurn, Storing, Unknown, Direct, RunInTurn, Builds
<1>4. RefusalsNoted
  BY <1>1, <1>2 DEF RefusalsNoted
<1>5. BodiesFull
  BY <1>2 DEF BodiesFull
<1> QED
  BY <1>3, <1>4, <1>5 DEF Edits

\* The greatest of an edit's body is the edit.
LEMMA BodyEndsInItself ==
    ASSUME SaveTypes, NEW m \in Forms, NEW B, B \subseteq Forms, m \in B, \A e \in B : e <= m
    PROVE  Max(B) = m
<1>1. B \subseteq 0..MaxForms /\ MaxForms \in Nat /\ m \in Nat
  BY EditTypes
<1>2. PICK k \in B : k = Max(B) /\ m <= k
  BY <1>1, MaxOfBounded
<1>3. k \in Nat /\ k <= m
  BY <1>1
<1> QED
  BY <1>1, <1>2, <1>3

\* What replaces the record is not empty.
LEMMA ReplacedByFull ==
    ASSUME SaveTypes, BodiesFull, SaveNext, record' # record
    PROVE  record' # {}
<1> USE DEF ui, strip, server
<1>1. CASE Post
  BY <1>1 DEF Post, Take, BodiesFull
<1>2. CASE Send
  <2>1. PICK m \in Forms : m = Min(Todo) /\ m \in Todo
    BY <1>2, AtEntry DEF Send, SaveTypes
  <2>2. record' = flush.items[m].body /\ flush.items[m].kind = "edit" /\ flush # Nil
    BY <1>2, <2>1 DEF Send, Take
  <2>3. m \in Reading
    BY <2>1, <2>2 DEF Reading, Todo
  <2> QED
    BY <2>2, <2>3 DEF BodiesFull
<1>3. CASE HelperSends
  <2>1. PICK m \in Forms : m = Min(Pending) /\ queue[m] # Nil
    BY <1>3, OldestWaits DEF HelperSends, Pending, SaveTypes
  <2>2. m \in Queued /\ record' = queue[m].body
    BY <1>3, <2>1 DEF HelperSends, Take, Queued
  <2> QED
    BY <2>2 DEF BodiesFull
<1>4. CASE \/ (\E k \in {"new", "edit"} : Open(k)) \/ Fill \/ Close \/ Click
           \/ PostConfirmed \/ PostKept \/ PostFailed \/ Store \/ Stored
           \/ ReadOutbox \/ Settle \/ EndRun
           \/ Timer \/ (\E n \in Forms : TryAgain(n) \/ Forget(n))
           \/ ReadRows \/ AnswerFetch \/ ShowList \/ KnowOwner \/ GoOffline \/ GoOnline
  BY <1>4
     DEF Open, Fill, Close, Click, PostConfirmed, PostKept, PostFailed, Store, Stored,
         ReadOutbox, Settle, EndRun, Timer, TryAgain, Forget, ReadRows, AnswerFetch, ShowList,
         KnowOwner, GoOffline, GoOnline
<1> QED
  BY <1>1, <1>2, <1>3, <1>4 DEF SaveNext, SaveStep, RunStep

\* What a step does to the record: an edit that was begun blindly replaces it, or the
\* oldest of the outbox does.
LEMMA WhatReplaces ==
    ASSUME EditsInv, byHelper = {}, SaveNext, record' # record
    PROVE  \E m \in Forms :
             /\ m \in record' /\ record' \subseteq Forms /\ \A e \in record' : e <= m
             /\ m \in blind \/ (m \in Queued /\ record' = queue[m].body)
<1>1. SaveTypes /\ Kinds /\ Edits /\ Bodies /\ Unknown
  BY DEF EditsInv, Edits
<1> USE DEF ui, strip, server
<1>2. CASE Post
  <2>1. save # Nil /\ save.kind = "edit" /\ record' = save.body /\ Direct
    BY <1>2 DEF Post, Take, Direct
  <2>2. save.n \in Forms /\ save.n \in blind /\ save.n \in save.body /\ EditsUpTo(save.n, save.body)
        /\ save.body \subseteq Forms
    BY <1>1, <2>1, EditTypes DEF Bodies, Unknown
  <2> QED
    BY <2>1, <2>2 DEF EditsUpTo
<1>3. CASE Send
  <2>1. PICK m \in Forms : m = Min(Todo) /\ m \in Todo
    BY <1>1, <1>3, AtEntry DEF Send, SaveTypes
  <2>2. record' = flush.items[m].body /\ flush.items[m].kind = "edit" /\ flush # Nil
    BY <1>3, <2>1 DEF Send, Take
  <2>3. m \in Queued /\ record' = queue[m].body /\ m \in queue[m].body /\ EditsUpTo(m, queue[m].body)
    BY <1>1, <2>1, <2>2, EntryIsOldest
  <2> QED
    BY <1>1, <2>3, EditTypes DEF EditsUpTo
<1>4. CASE HelperSends
  <2>1. PICK m \in Forms : m = Min(Pending) /\ queue[m] # Nil
    BY <1>1, <1>4, OldestWaits DEF HelperSends, Pending, SaveTypes
  <2>2. m \in Queued /\ record' = queue[m].body
    BY <1>4, <2>1 DEF HelperSends, Take, Queued
  <2> QED
    BY <1>1, <2>2, EditTypes DEF Bodies, EditsUpTo
<1>5. CASE \/ (\E k \in {"new", "edit"} : Open(k)) \/ Fill \/ Close \/ Click
           \/ PostConfirmed \/ PostKept \/ PostFailed \/ Store \/ Stored
           \/ ReadOutbox \/ Settle \/ EndRun
           \/ Timer \/ (\E n \in Forms : TryAgain(n) \/ Forget(n))
           \/ ReadRows \/ AnswerFetch \/ ShowList \/ KnowOwner \/ GoOffline \/ GoOnline
  BY <1>5
     DEF Open, Fill, Close, Click, PostConfirmed, PostKept, PostFailed, Store, Stored,
         ReadOutbox, Settle, EndRun, Timer, TryAgain, Forget, ReadRows, AnswerFetch, ShowList,
         KnowOwner, GoOffline, GoOnline
<1> QED
  BY <1>2, <1>3, <1>4, <1>5 DEF SaveNext, SaveStep, RunStep

\* pendingTransactions.ts:133, for any number of forms, faults and retries: an edit
\* the user was told of is not overwritten by a later one, but for the cases the
\* property names.
THEOREM EditsAreKept == SaveSpec => EditsBuildOnEdits
<1> DEFINE Kept == \A e \in (record \ record') \ refused :
                      told[e] \in {"syncing", "saved"} =>
                          /\ record' # {}
                          /\ \/ Max(record') \in blind \cup refused
                             \/ byHelper # {}
<1>1. EditsInv /\ [SaveNext]_pathVars => [Kept]_pathVars
  <2>1. SUFFICES ASSUME EditsInv, SaveNext,
                        NEW e \in record, e \notin record', e \notin refused,
                        told[e] \in {"syncing", "saved"}
                 PROVE  record' # {} /\ (Max(record') \in blind \cup refused \/ byHelper # {})
    OBVIOUS
  <2>2. CASE byHelper = {}
    <3>1. PICK m \in Forms :
             /\ m \in record' /\ record' \subseteq Forms /\ \A d \in record' : d <= m
             /\ m \in blind \/ (m \in Queued /\ record' = queue[m].body)
      BY <2>1, <2>2, WhatReplaces
    <3>2. Max(record') = m
      BY <2>1, <3>1, BodyEndsInItself DEF EditsInv
    <3>3. m \in blind \cup refused
      <4>1. ASSUME m \notin blind \cup refused PROVE FALSE
        <5>1. m \in Queued \ blind /\ record' = queue[m].body /\ m \notin refused
          BY <3>1, <4>1
        <5>2. Covers(queue[m].body)
          BY <2>1, <2>2, <5>1 DEF EditsInv, Edits, Builds
        <5> QED
          BY <2>1, <5>1, <5>2 DEF Covers
      <4> QED
        BY <4>1
    <3> QED
      BY <3>1, <3>2, <3>3
  <2>3. CASE byHelper # {}
    BY <2>1, <2>3, ReplacedByFull DEF EditsInv
  <2> QED
    BY <2>2, <2>3
<1>2. SaveInit => EditsInv
  BY InitEdits
<1>3. EditsInv /\ [SaveNext]_pathVars => EditsInv'
  BY NextEdits
<1> QED
  BY <1>1, <1>2, <1>3, PTL DEF SaveSpec, EditsBuildOnEdits

=============================================================================
