------------------------------- MODULE Finance -------------------------------
(***************************************************************************)
(* The finance records of one user and the handlers that read more than    *)
(* one collection of them: categories and wallets                          *)
(* (backend/src/routes/reference.routes.ts), transactions and budgets      *)
(* (controllers/), the figures of the Home screen                          *)
(* (controllers/dashboard.controller.ts) and the paged activity feed       *)
(* (lib/ledger.ts, routes/activity.routes.ts,                              *)
(* frontend/src/components/activity/ActivityFeed.tsx).                     *)
(*                                                                         *)
(* One read or write of one collection is one step, which is what          *)
(* RecordStore promises of the record service. A handler that needs        *)
(* several collections takes several steps, and other requests run in      *)
(* between.                                                                *)
(***************************************************************************)
EXTENDS Naturals, FiniteSets, Sequences, FiniteSetsExt

CONSTANTS
    Categories, Wallets, \* ids of reference records; a wallet is an account or a payment method
    Subs,                \* ids of subcategories
    Entries,             \* ids of financial records, numbered in the order of their text
    Days,                \* the months a record may belong to, each with one time of day
    Amount,              \* what each record is worth
    Drafts,              \* the records a client may ask for
    Requests,            \* handlers of one kind under way at once
    PageSize,            \* PAGE
    Filters,             \* the types the feed may be asked for; {} is all of them
    Initial,             \* the categories and wallets of a new workspace
    Mixes,               \* what goes on in a behaviour is one of these
    Start, End,          \* cursors before the first and after the last page
    Absent

References == Categories \cup Wallets

\* LedgerType, in the order of its text. Bills, investments and goals are
\* rows of the feed as budgets are and name no reference record.
Rank == [budget |-> 1, expense |-> 2, income |-> 3]
Types == DOMAIN Rank
Collection == [income |-> "transactions", expense |-> "transactions", budget |-> "budgets"]
Collections == {Collection[t] : t \in Types}

Mix == [does : SUBSET {"create", "remove", "add", "home", "feed"}, entries : SUBSET Entries, requests : SUBSET Requests]

Entry == [type : Types, category : Categories \cup {Absent}, wallet : Wallets \cup {Absent}, at : Days]

ASSUME FinanceAssumption ==
    /\ Entries \subseteq Nat /\ IsFiniteSet(Entries)
    /\ Days \subseteq Nat /\ Amount \in [Entries -> Nat]
    /\ Drafts \subseteq Entry /\ \A d \in Drafts : d.type = "budget" => d.wallet = Absent
    /\ Categories \cap Wallets = {} /\ PageSize \in Nat \ {0}
    /\ Initial \subseteq References /\ Filters \subseteq SUBSET Types
    /\ Mixes \subseteq Mix

VARIABLES
    refs,     \* the categories and wallets there are
    subs,     \* the subcategories a category lists
    entries,  \* the financial records
    removal,  \* DELETE /categories/:id, /accounts/:id, /payment-methods/:id under way
    addition, \* POST /categories/:id/subcategories under way
    homeCall, \* GET /dashboard/home under way
    feed,     \* the activity page
    mix,      \* what goes on in this behaviour
    \* what happened, for the properties
    made,     \* ids given out so far
    promised, \* subcategories confirmed to the client
    raced     \* those of them another addition to the same category overlapped

records == <<refs, subs, entries, made>>
calls == <<removal, addition, homeCall>>
vars == <<refs, subs, entries, removal, addition, homeCall, feed, mix, made, promised, raced>>

\* fresh: records written after their collection was read.
Removal == [of : References, unread : SUBSET Collections, linked : BOOLEAN, fresh : SUBSET Entries]
Addition == [of : Categories, sub : Subs, base : SUBSET Subs]
HomeCall == [unread : SUBSET {"transactions", "categories"}, tx : SUBSET [id : Entries, entry : Entry],
             cats : SUBSET Categories]

\* A row of the feed; a cursor names the row a page ended with.
Row == [at : Days, type : Types, id : Entries]

\* moved: records whose row came, went or changed since the first page was asked for.
Feed == [types : SUBSET Types, cursor : Row \cup {Start, End}, pages : Seq(SUBSET Row),
         loading : BOOLEAN, unread : SUBSET Collections, got : SUBSET Row, moved : SUBSET Entries]

ASSUME AbsentAssumption ==
    /\ Absent \notin Entry \cup Removal \cup Addition \cup HomeCall \cup Categories \cup Wallets
    /\ Start # End /\ {Start, End} \cap Row = {}

RecordsTypeOK ==
    /\ refs \subseteq References
    /\ subs \in [Categories -> SUBSET Subs]
    /\ entries \in [Entries -> Drafts \cup {Absent}]
    /\ removal \in [Requests -> Removal \cup {Absent}]
    /\ addition \in [Requests -> Addition \cup {Absent}]
    /\ homeCall \in HomeCall \cup {Absent}
    /\ mix \in Mixes
    /\ promised \subseteq Categories \X Subs
    /\ raced \subseteq Categories \X Subs

FinTypeOK == RecordsTypeOK /\ feed \in Feed

FinInit ==
    /\ refs = Initial /\ subs = [c \in Categories |-> {}]
    /\ entries = [i \in Entries |-> Absent]
    /\ removal = [r \in Requests |-> Absent] /\ addition = [r \in Requests |-> Absent]
    /\ homeCall = Absent
    /\ feed = [types |-> {}, cursor |-> End, pages |-> <<>>, loading |-> FALSE, unread |-> {},
               got |-> {}, moved |-> Entries]
    /\ mix \in Mixes
    /\ made = Initial /\ promised = {} /\ raced = {}

--------------------------------------------------------------------------------
(* The records. Nothing checks that the category or wallet a record names   *)
(* exists: a save may have waited in the outbox since its form was open.    *)

Names(e, x) == e.category = x \/ e.wallet = x
In(col) == {i \in Entries : entries[i] # Absent /\ Collection[entries[i].type] = col}
RowOf(i, e) == [at |-> e.at, type |-> e.type, id |-> i]

\* What a write of record i means to the handlers that have read its collection.
Written(i, col) ==
    removal' = [r \in Requests |->
        IF removal[r] = Absent \/ col \in removal[r].unread THEN removal[r]
        ELSE [removal[r] EXCEPT !.fresh = removal[r].fresh \cup {i}]]

Moves(I) == feed' = [feed EXCEPT !.moved = @ \cup I]

CreateReference(x) ==
    /\ "create" \in mix.does /\ x \in References \ made
    /\ refs' = refs \cup {x} /\ made' = made \cup {x}
    /\ UNCHANGED <<subs, entries, removal, addition, homeCall, feed, mix, promised, raced>>

CreateEntry(i, d) ==
    /\ i \in mix.entries \ made
    /\ {d.category, d.wallet} \subseteq made \cup {Absent}
    /\ entries' = [entries EXCEPT ![i] = d] /\ made' = made \cup {i}
    /\ Written(i, Collection[d.type]) /\ Moves({i})
    /\ UNCHANGED <<refs, subs, addition, homeCall, mix, promised, raced>>

\* A budget keeps the time it was created at, whatever is edited.
UpdateEntry(i, d) ==
    /\ entries[i] # Absent /\ entries[i] # d
    /\ Collection[d.type] = Collection[entries[i].type]
    /\ {d.category, d.wallet} \subseteq made \cup {Absent}
    /\ Collection[d.type] # "transactions" => d.at = entries[i].at
    /\ entries' = [entries EXCEPT ![i] = d]
    /\ Written(i, Collection[d.type])
    /\ Moves(IF RowOf(i, d) = RowOf(i, entries[i]) THEN {} ELSE {i})
    /\ UNCHANGED <<refs, subs, addition, homeCall, mix, made, promised, raced>>

\* One record, or a bulk deletion in one collection.
DeleteEntries(I, col) ==
    /\ I # {} /\ I \subseteq In(col)
    /\ entries' = [i \in Entries |-> IF i \in I THEN Absent ELSE entries[i]]
    /\ Moves(I)
    /\ UNCHANGED <<refs, subs, calls, mix, made, promised, raced>>

--------------------------------------------------------------------------------
(* Removing a category or a wallet: look, then delete.                      *)

\* (mutant) a category is looked for in the transactions only
GuardedByTransactions(x) == {"transactions"}

GuardedBy(x) == IF x \in Categories THEN {"transactions", "budgets"} ELSE {"transactions"}

StartRemoval(r, x) ==
    /\ "remove" \in mix.does
    /\ r \in mix.requests /\ removal[r] = Absent /\ x \in refs
    /\ removal' = [removal EXCEPT ![r] = [of |-> x, unread |-> GuardedBy(x), linked |-> FALSE, fresh |-> {}]]
    /\ UNCHANGED <<records, addition, homeCall, feed, mix, promised, raced>>

CheckUse(r, col) ==
    /\ removal[r] # Absent /\ col \in removal[r].unread
    /\ removal' = [removal EXCEPT ![r] = [removal[r] EXCEPT
           !.unread = removal[r].unread \ {col},
           !.linked = removal[r].linked \/ \E i \in In(col) : Names(entries[i], removal[r].of)]]
    /\ UNCHANGED <<records, addition, homeCall, feed, mix, promised, raced>>

FinishRemoval(r) ==
    /\ removal[r] # Absent /\ removal[r].unread = {}
    /\ refs' = IF removal[r].linked THEN refs ELSE refs \ {removal[r].of}
    /\ removal' = [removal EXCEPT ![r] = Absent]
    /\ UNCHANGED <<subs, entries, made, addition, homeCall, feed, mix, promised, raced>>

--------------------------------------------------------------------------------
(* Adding a subcategory: read the category, write back its list and one     *)
(* more. An update of a category that is gone is refused.                   *)

\* (mutant) the list written back holds the new subcategory only
StartWithOne(r, c, s) ==
    /\ "add" \in mix.does
    /\ r \in mix.requests /\ addition[r] = Absent /\ c \in refs \cap Categories /\ s \in Subs \ made
    /\ addition' = [addition EXCEPT ![r] = [of |-> c, sub |-> s, base |-> {}]]
    /\ made' = made \cup {s}
    /\ UNCHANGED <<refs, subs, entries, removal, homeCall, feed, mix, promised, raced>>

StartAddition(r, c, s) ==
    /\ "add" \in mix.does
    /\ r \in mix.requests /\ addition[r] = Absent /\ c \in refs \cap Categories /\ s \in Subs \ made
    /\ addition' = [addition EXCEPT ![r] = [of |-> c, sub |-> s, base |-> subs[c]]]
    /\ made' = made \cup {s}
    /\ UNCHANGED <<refs, subs, entries, removal, homeCall, feed, mix, promised, raced>>

Overlapped(r) == \E q \in Requests \ {r} : addition[q] # Absent /\ addition[q].of = addition[r].of

FinishAddition(r) ==
    /\ addition[r] # Absent
    /\ LET c == addition[r].of
           s == addition[r].sub
           found == c \in refs
       IN /\ subs' = IF found THEN [subs EXCEPT ![c] = addition[r].base \cup {s}] ELSE subs
          /\ promised' = IF found THEN promised \cup {<<c, s>>} ELSE promised
          /\ raced' = IF found /\ Overlapped(r) THEN raced \cup {<<c, s>>} ELSE raced
    /\ addition' = [addition EXCEPT ![r] = Absent]
    /\ UNCHANGED <<refs, entries, made, removal, homeCall, feed, mix>>

--------------------------------------------------------------------------------
(* Home: transactions and categories are read side by side.                 *)

StartHome ==
    /\ "home" \in mix.does
    /\ homeCall = Absent
    /\ homeCall' = [unread |-> {"transactions", "categories"}, tx |-> {}, cats |-> {}]
    /\ UNCHANGED <<records, removal, addition, feed, mix, promised, raced>>

ReadForHome(col) ==
    /\ homeCall # Absent /\ col \in homeCall.unread
    /\ homeCall' = IF col = "categories"
           THEN [homeCall EXCEPT !.unread = @ \ {col}, !.cats = refs \cap Categories]
           ELSE [homeCall EXCEPT !.unread = @ \ {col}, !.tx = {[id |-> i, entry |-> entries[i]] : i \in In(col)}]
    /\ UNCHANGED <<records, removal, addition, feed, mix, promised, raced>>

AnswerHome ==
    /\ homeCall # Absent /\ homeCall.unread = {}
    /\ homeCall' = Absent
    /\ UNCHANGED <<records, removal, addition, feed, mix, promised, raced>>

\* sumAmount, computeBreakdown and computeTrend on what was read.
Total(tx) == SumFunction([t \in tx |-> Amount[t.id]])
OfType(tx, type) == {t \in tx : t.entry.type = type}
\* (mutant) expenses whose category is gone are left out
BreakdownOfKnown(tx, cats) ==
    [c \in {t.entry.category : t \in OfType(tx, "expense")} \cap cats |->
        [category |-> c, total |-> Total({t \in OfType(tx, "expense") : t.entry.category = c})]]
Breakdown(tx, cats) ==
    [c \in {t.entry.category : t \in OfType(tx, "expense")} |->
        [category |-> IF c \in cats THEN c ELSE "Unknown",
         total |-> Total({t \in OfType(tx, "expense") : t.entry.category = c})]]
Trend(tx) ==
    [m \in {t.entry.at : t \in tx} |->
        [type \in {"income", "expense"} |-> Total({t \in OfType(tx, type) : t.entry.at = m})]]

--------------------------------------------------------------------------------
(* The feed, a page at a time. The cursor names the last row of the page    *)
(* before; a page starts after that row or, when it is gone, at the first   *)
(* row that would have followed it.                                         *)

Newer(a, b) ==
    \/ a.at > b.at
    \/ a.at = b.at /\ Rank[a.type] > Rank[b.type]
    \/ a.at = b.at /\ a.type = b.type /\ a.id > b.id

\* (mutant) without the cursor's row the page starts at the top
AfterOrTop(rows, cursor) == IF cursor \notin rows THEN rows ELSE {x \in rows : Newer(cursor, x)}

After(rows, cursor) == IF cursor = Start THEN rows ELSE {x \in rows : Newer(cursor, x)}

FirstRows(rows) == {x \in rows : Cardinality({y \in rows : Newer(y, x)}) < PageSize}

NextCursor(rows, page) ==
    IF rows = page THEN End ELSE CHOOSE x \in page : \A y \in page : y = x \/ Newer(y, x)

OpenFeed(types) ==
    /\ "feed" \in mix.does
    /\ ~feed.loading
    /\ feed' = [types |-> types, cursor |-> Start, pages |-> <<>>, loading |-> TRUE,
                unread |-> Collections, got |-> {}, moved |-> {}]
    /\ UNCHANGED <<records, calls, mix, promised, raced>>

LoadMore ==
    /\ ~feed.loading /\ feed.cursor # End
    /\ feed' = [feed EXCEPT !.loading = TRUE, !.unread = Collections, !.got = {}]
    /\ UNCHANGED <<records, calls, mix, promised, raced>>

ReadForFeed(col) ==
    /\ col \in feed.unread
    /\ feed' = [feed EXCEPT !.unread = @ \ {col}, !.got = @ \cup {RowOf(i, entries[i]) : i \in In(col)}]
    /\ UNCHANGED <<records, calls, mix, promised, raced>>

ShowPage ==
    /\ feed.loading /\ feed.unread = {}
    /\ LET wanted == {x \in feed.got : feed.types # {} => x.type \in feed.types}
           rest == After(wanted, feed.cursor)
           page == FirstRows(rest)
       IN feed' = [feed EXCEPT !.pages = Append(@, page), !.cursor = NextCursor(rest, page),
                               !.loading = FALSE, !.got = {}]
    /\ UNCHANGED <<records, calls, mix, promised, raced>>

--------------------------------------------------------------------------------
FinNext ==
    \/ \E x \in References : CreateReference(x)
    \/ \E i \in Entries, d \in Drafts : CreateEntry(i, d) \/ UpdateEntry(i, d)
    \/ \E col \in Collections : \E I \in SUBSET In(col) : DeleteEntries(I, col)
    \/ \E r \in Requests, x \in References : StartRemoval(r, x)
    \/ \E r \in Requests, col \in Collections : CheckUse(r, col)
    \/ \E r \in Requests : FinishRemoval(r)
    \/ \E r \in Requests, c \in Categories, s \in Subs : StartAddition(r, c, s)
    \/ \E r \in Requests : FinishAddition(r)
    \/ StartHome \/ (\E col \in {"transactions", "categories"} : ReadForHome(col)) \/ AnswerHome
    \/ \E types \in Filters : OpenFeed(types)
    \/ LoadMore \/ (\E col \in Collections : ReadForFeed(col)) \/ ShowPage

FinSpec == FinInit /\ [][FinNext]_vars

--------------------------------------------------------------------------------
(* A category or wallet that history still points at is not removed: every  *)
(* record that names it when it goes was written after the removal had      *)
(* looked at the record's collection (reference.routes.ts 51: "History must *)
(* keep its meaning").                                                      *)
RemovedUnused ==
    [][\A x \in refs \ refs' :
          \E r \in Requests : /\ removal[r] # Absent /\ removal[r].of = x
                              /\ \A i \in Entries : entries[i] # Absent /\ Names(entries[i], x)
                                                    => i \in removal[r].fresh]_vars

(* A confirmed subcategory stays in its category, unless another addition   *)
(* to the category was under way when it was written: that one writes back  *)
(* the list it had read.                                                    *)
SubcategoriesKept == \A p \in promised \ raced : p[2] \in subs[p[1]]

(* "A number can only ever be computed one way": whatever was written       *)
(* between the reads of one Home answer, and whatever categories are gone,  *)
(* its breakdown and its trend add up to its totals.                        *)
HomeAddsUp ==
    homeCall # Absent /\ homeCall.unread = {} =>
        LET tx == homeCall.tx
            parts == Breakdown(tx, homeCall.cats)
            months == Trend(tx)
        IN /\ SumFunction([c \in DOMAIN parts |-> parts[c].total]) = Total(OfType(tx, "expense"))
           /\ \A type \in {"income", "expense"} :
                  SumFunction([m \in DOMAIN months |-> months[m][type]]) = Total(OfType(tx, type))

(* The pages of the feed run from newest to oldest without a gap: a record  *)
(* that stayed as it was since the first page was asked for is on exactly   *)
(* one page once the feed has passed it, whatever other records came, went  *)
(* or changed, the one the cursor names included.                           *)
FeedShowsEachOnce ==
    /\ \A m, n \in DOMAIN feed.pages : m < n => \A x \in feed.pages[m], y \in feed.pages[n] : Newer(x, y)
    /\ \A i \in Entries \ feed.moved :
           LET x == RowOf(i, entries[i])
           IN entries[i] # Absent /\ (feed.types # {} => x.type \in feed.types)
              /\ feed.cursor # Start /\ (feed.cursor = End \/ ~Newer(feed.cursor, x))
              => \E n \in DOMAIN feed.pages : x \in feed.pages[n]
=============================================================================
