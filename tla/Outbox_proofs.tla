--------------------------- MODULE Outbox_proofs ---------------------------
(***************************************************************************)
(* For any accounts, pages, service workers, failures and bounds: the      *)
(* types, and that an entry leaves the store only when the API took it or  *)
(* the user discarded it. For a browser with one page: entries keep their  *)
(* account, are set aside only for cause, and discarded ones are not sent. *)
(* And where runs exclude each other and their account cannot change under *)
(* them, that entries of an account are applied in the order they were     *)
(* queued: a run holds the least of what it has to send, and nothing the   *)
(* API took comes after it.                                                *)
(***************************************************************************)
EXTENDS Outbox, FiniteSetTheorems, NaturalsInduction, WellFoundedInduction, TLAPS

-----------------------------------------------------------------------------
(* The entry a run is at *)

LEMMA MinOfNats ==
    ASSUME NEW S, S \subseteq Nat, S # {}
    PROVE  Min(S) \in S /\ \A k \in S : Min(S) <= k
<1>1. PICK m \in S : \A k \in S : <<k, m>> \notin OpToRel(<, Nat)
  BY WFMin, NatLessThanWellFounded
<1>2. \A k \in S : ~(k < m)
  BY <1>1, Zenon DEF OpToRel
<1>3. \A k \in S : m <= k
  BY <1>2
<1> QED
  BY <1>3 DEF Min

LEMMA CurrentIsTodo ==
    ASSUME NEW w, Todo(w) # {}
    PROVE  Current(w) \in Todo(w) /\ Current(w) \in Entries
<1>1. Todo(w) \subseteq Nat
  BY OutboxAssumption DEF Todo, Entries
<1> QED
  BY <1>1, MinOfNats DEF Current, Todo

-----------------------------------------------------------------------------
(* Types *)

LEMMA SendableTyped ==
    ASSUME TypeOK, NEW w \in Workers, NEW o
    PROVE  [i \in Entries |-> IF i \in Sendable(w, o) THEN store[i] ELSE None]
             \in [Entries -> Entry \cup {None}]
  BY DEF TypeOK

LEMMA MineTyped ==
    ASSUME TypeOK, NEW w \in Workers
    PROVE  Mine(w) \in Uids \cup {None}
  BY DEF TypeOK, Mine

\* A worker past its loop's head has an entry at hand.
Busy == \A w \in Workers : pc[w] \in {"adopting", "sent", "answered"} => Todo(w) # {}

LEMMA AtHand ==
    ASSUME TypeOK, NEW w \in Workers, Todo(w) # {}
    PROVE  Current(w) \in Entries /\ items[w][Current(w)] \in Entry
<1>1. Current(w) \in Todo(w) /\ Current(w) \in Entries
  BY CurrentIsTodo
<1>2. items[w][Current(w)] # None
  BY <1>1 DEF Todo
<1> QED
  BY <1>1, <1>2 DEF TypeOK

\* The two ways a worker's own state changes at the end of a request.
LEMMA RestTyped ==
    ASSUME TypeOK, NEW w \in Workers, Rest(w)
    PROVE  /\ pc' \in [Workers -> {"idle", "run", "adopting", "sent", "answered"}]
           /\ me' \in [Workers -> Uids \cup {None}]
           /\ items' \in [Workers -> [Entries -> Entry \cup {None}]]
           /\ as' \in [Workers -> Users \cup {None}]
           /\ reply' \in [Workers -> Replies \cup {None}]
<1>1. NoEntries \in [Entries -> Entry \cup {None}]
  BY DEF NoEntries
<1> QED
  BY <1>1 DEF TypeOK, Rest

LEMMA ContinueTyped ==
    ASSUME TypeOK, NEW w \in Workers, NEW i \in Entries, Continue(w, i)
    PROVE  /\ pc' \in [Workers -> {"idle", "run", "adopting", "sent", "answered"}]
           /\ me' \in [Workers -> Uids \cup {None}]
           /\ items' \in [Workers -> [Entries -> Entry \cup {None}]]
           /\ as' \in [Workers -> Users \cup {None}]
           /\ reply' \in [Workers -> Replies \cup {None}]
<1>1. [items[w] EXCEPT ![i] = None] \in [Entries -> Entry \cup {None}]
  BY DEF TypeOK
<1> QED
  BY <1>1 DEF TypeOK, Continue

LEMMA PatchTyped ==
    ASSUME TypeOK, NEW i \in Entries, NEW n \in 0..MaxAttempts,
           NEW s \in {"pending", "rejected"}, Patch(i, n, s)
    PROVE  store' \in [Entries -> Entry \cup {None}]
<1>1. CASE store[i] = None
  BY <1>1 DEF TypeOK, Patch
<1>2. CASE store[i] # None
  <2>1. store[i] \in Entry
    BY <1>2 DEF TypeOK
  <2>2. [store[i] EXCEPT !.attempts = n, !.status = s] \in Entry
    BY <2>1 DEF Entry
  <2> QED
    BY <1>2, <2>2 DEF TypeOK, Patch
<1> QED
  BY <1>1, <1>2

LEMMA HandleTyped ==
    ASSUME TypeOK, Busy, NEW w \in Workers, Handle(w)
    PROVE  TypeOK'
<1> DEFINE i == Current(w)
<1>1. i \in Entries /\ items[w][i] \in Entry
  BY AtHand DEF Busy, Handle
<1>2. store' \in [Entries -> Entry \cup {None}] /\ setAside' \in SUBSET Entries
  <2>1. CASE Confirmed(w, i)
    BY <1>1, <2>1 DEF Confirmed, TypeOK
  <2>2. CASE Refused(w, i)
    <3> DEFINE n == IF store[i] = None THEN 0 ELSE store[i].attempts
    <3>1. n \in 0..MaxAttempts
      BY <1>1, OutboxAssumption DEF TypeOK, Entry
    <3>2. Patch(i, n, "rejected") /\ setAside' = setAside \cup {i}
      BY <2>2 DEF Refused, Reject
    <3> HIDE DEF n
    <3> QED
      BY <1>1, <3>1, <3>2, PatchTyped DEF TypeOK
  <2>3. CASE CountAttempt(w, i)
    <3> DEFINE n == items[w][i].attempts + 1
    <3>1. n \in Nat
      BY <1>1, OutboxAssumption DEF Entry
    <3>2. CASE n >= MaxAttempts
      <4>1. Patch(i, MaxAttempts, "rejected") /\ setAside' = setAside \cup {i}
        BY <2>3, <3>1, <3>2, OutboxAssumption DEF CountAttempt, Reject
      <4>2. MaxAttempts \in 0..MaxAttempts
        BY OutboxAssumption
      <4> QED
        BY <1>1, <4>1, <4>2, PatchTyped DEF TypeOK
    <3>3. CASE n < MaxAttempts
      <4> DEFINE s == IF store[i] = None THEN "pending" ELSE store[i].status
      <4>1. Patch(i, n, s) /\ setAside' = setAside
        BY <2>3, <3>1, <3>3, OutboxAssumption DEF CountAttempt
      <4>2. s \in {"pending", "rejected"}
        BY <1>1 DEF TypeOK, Entry
      <4>3. n \in 0..MaxAttempts
        BY <3>1, <3>3, OutboxAssumption
      <4> HIDE DEF n, s
      <4> QED
        BY <1>1, <4>1, <4>2, <4>3, PatchTyped DEF TypeOK
    <3> QED
      BY <3>1, <3>2, <3>3, OutboxAssumption
  <2>4. CASE GiveUpForNow(w)
    BY <2>4 DEF GiveUpForNow, TypeOK
  <2> QED
    BY <2>1, <2>2, <2>3, <2>4 DEF Handle
<1>3. Rest(w) \/ Continue(w, i)
  BY DEF Handle, Confirmed, Refused, CountAttempt, GiveUpForNow
<1>4. UNCHANGED <<browser, queued, session, worker, lapses, retries, by, applied, last, faults, refused, discarded>>
  BY DEF Handle
<1> HIDE DEF i
<1>5. /\ pc' \in [Workers -> {"idle", "run", "adopting", "sent", "answered"}]
      /\ me' \in [Workers -> Uids \cup {None}]
      /\ items' \in [Workers -> [Entries -> Entry \cup {None}]]
      /\ as' \in [Workers -> Users \cup {None}]
      /\ reply' \in [Workers -> Replies \cup {None}]
  BY <1>1, <1>3, RestTyped, ContinueTyped
<1> QED
  BY <1>2, <1>4, <1>5 DEF TypeOK, session, worker

LEMMA ServeTyped ==
    ASSUME TypeOK, Busy, NEW w \in Workers, Serve(w)
    PROVE  TypeOK'
<1> DEFINE i == Current(w)
<1>1. i \in Entries
  BY AtHand DEF Busy, Serve
<1>2. PICK a \in {"ok", "auth"} \cup (Faults \cap {"retry", "reject", "net"}) :
        /\ (a = "auth") <=> (as[w] = None \/ as[w] # cookie)
        /\ Answered(w, a)
        /\ \/ a \in {"ok", "retry", "net"} /\ Take(i, as[w])
           \/ a # "ok" /\ UNCHANGED <<applied, last>>
        /\ faults' = IF a = "retry" /\ faults[i] < MaxAttempts
                     THEN [faults EXCEPT ![i] = faults[i] + 1] ELSE faults
        /\ refused' = IF a = "reject" THEN refused \cup {i} ELSE refused
  BY DEF Serve
<1> HIDE DEF i
<1>3. applied' \in SUBSET (Entries \X Users) /\ last' \in [Users -> 0..MaxEntries]
  <2>1. CASE a \in {"ok", "retry", "net"} /\ Take(i, as[w])
    <3>1. as[w] \in Users
      BY <1>2, <2>1 DEF TypeOK
    <3>2. i \in 0..MaxEntries
      BY <1>1, OutboxAssumption DEF Entries
    <3>3. applied' = applied \cup {<<i, as[w]>>} /\ last' = [last EXCEPT ![as[w]] = i]
      BY <2>1 DEF Take
    <3>4. <<i, as[w]>> \in Entries \X Users
      BY <1>1, <3>1
    <3> QED
      BY <3>2, <3>3, <3>4 DEF TypeOK
  <2>2. CASE UNCHANGED <<applied, last>>
    BY <2>2 DEF TypeOK
  <2> QED
    BY <1>2, <2>1, <2>2
<1>4. faults' \in [Entries -> 0..MaxAttempts] /\ refused' \in SUBSET Entries
  <2>1. faults[i] \in 0..MaxAttempts
    BY <1>1 DEF TypeOK
  <2>2. CASE faults[i] < MaxAttempts
    <3>1. faults[i] + 1 \in 0..MaxAttempts
      BY <2>1, <2>2, OutboxAssumption
    <3> QED
      BY <1>1, <1>2, <3>1 DEF TypeOK
  <2>3. CASE ~(faults[i] < MaxAttempts)
    BY <1>1, <1>2, <2>3 DEF TypeOK
  <2> QED
    BY <2>2, <2>3
<1>5. /\ pc' \in [Workers -> {"idle", "run", "adopting", "sent", "answered"}]
      /\ me' \in [Workers -> Uids \cup {None}]
      /\ items' \in [Workers -> [Entries -> Entry \cup {None}]]
      /\ as' \in [Workers -> Users \cup {None}]
      /\ reply' \in [Workers -> Replies \cup {None}]
  BY <1>2 DEF Answered, TypeOK, Replies
<1>6. UNCHANGED <<browser, store, queued, session, worker, lapses, retries, by, setAside, discarded>>
  BY DEF Serve
<1> QED
  BY <1>3, <1>4, <1>5, <1>6 DEF TypeOK, session, worker

LEMMA FlushTyped ==
    ASSUME TypeOK, Busy, NEW w \in Workers, Flush(w)
    PROVE  TypeOK'
<1>1. CASE Start(w)
  <2> DEFINE f == [i \in Entries |-> IF i \in Sendable(w, Mine(w)) THEN store[i] ELSE None]
  <2>1. f \in [Entries -> Entry \cup {None}] /\ Mine(w) \in Uids \cup {None}
    BY SendableTyped, MineTyped
  <2>2. /\ pc' = [pc EXCEPT ![w] = "run"]
        /\ me' = [me EXCEPT ![w] = Mine(w)]
        /\ items' = [items EXCEPT ![w] = f]
        /\ syncTag' \in BOOLEAN
        /\ UNCHANGED <<browser, store, queued, session, origin, as, reply, lapses, retries, history>>
    BY <1>1 DEF Start
  <2> HIDE DEF f
  <2> QED
    BY <2>1, <2>2 DEF TypeOK, session, history
<1>2. CASE Finish(w)
  <2>1. Rest(w) /\ UNCHANGED <<browser, store, queued, session, worker, lapses, retries, history>>
    BY <1>2 DEF Finish
  <2> QED
    BY <2>1, RestTyped DEF TypeOK, session, worker, history
<1>3. CASE Adopt(w)
  <2> DEFINE i == Current(w)
  <2>1. i \in Entries
    BY <1>3, AtHand DEF Adopt, Ready
  <2>2. store' = IF store[i] = None THEN store ELSE [store EXCEPT ![i] = [store[i] EXCEPT !.owner = me[w]]]
    BY <1>3 DEF Adopt
  <2> HIDE DEF i
  <2>3. store' \in [Entries -> Entry \cup {None}]
    <3>1. CASE store[i] = None
      BY <2>2, <3>1 DEF TypeOK
    <3>2. CASE store[i] # None
      <4>1. store[i] \in Entry /\ me[w] \in Uids \cup {None}
        BY <2>1, <3>2 DEF TypeOK
      <4>2. [store[i] EXCEPT !.owner = me[w]] \in Entry
        BY <4>1 DEF Entry
      <4> QED
        BY <2>1, <2>2, <3>2, <4>2 DEF TypeOK
    <3> QED
      BY <3>1, <3>2
  <2> QED
    BY <1>3, <2>3 DEF Adopt, TypeOK, session, worker, history
<1>4. CASE Send(w)
  BY <1>4 DEF Send, TypeOK, session, worker, history
<1>5. CASE Serve(w)
  BY <1>5, ServeTyped
<1>6. CASE WrongOrigin(w)
  BY <1>6 DEF WrongOrigin, Answered, Replies, TypeOK, session, worker, history
<1>7. CASE Unreachable(w)
  BY <1>7 DEF Unreachable, Answered, Replies, TypeOK, session, worker, history
<1>8. CASE Handle(w)
  BY <1>8, HandleTyped
<1> QED
  BY <1>1, <1>2, <1>3, <1>4, <1>5, <1>6, <1>7, <1>8 DEF Flush

LEMMA EnqueueTyped ==
    ASSUME TypeOK, NEW t \in Tabs, Enqueue(t)
    PROVE  TypeOK'
<1> DEFINE r == [owner |-> tabOwner[t], attempts |-> 0, status |-> "pending"]
<1>1. queued + 1 \in Entries /\ queued' \in 0..MaxEntries
  BY OutboxAssumption DEF Enqueue, Entries, TypeOK
<1>2. r \in Entry
  BY OutboxAssumption DEF TypeOK, Entry
<1>3. store' = [store EXCEPT ![queued + 1] = r]
  BY DEF Enqueue
<1> HIDE DEF r
<1>4. store' \in [Entries -> Entry \cup {None}]
  BY <1>1, <1>2, <1>3 DEF TypeOK
<1>5. tabOwner[t] # None => tabOwner[t][1] \in Users
  BY DEF TypeOK, Uids
<1>6. by' \in [Entries -> Users \cup {None}]
  BY <1>1, <1>5 DEF Enqueue, TypeOK
<1> QED
  BY <1>1, <1>4, <1>6 DEF Enqueue, TypeOK, session, run

LEMMA RenameTyped ==
    ASSUME TypeOK, NEW t \in Tabs, Rename(t)
    PROVE  TypeOK'
<1>1. cookie \in Users /\ gen[cookie] + 1 \in 0..MaxRenames
  BY OutboxAssumption DEF Rename, TypeOK
<1>2. gen' = [gen EXCEPT ![cookie] = gen[cookie] + 1]
  BY DEF Rename
<1>3. gen' \in [Users -> 0..MaxRenames] /\ gen'[cookie] \in 0..MaxRenames
  BY <1>1, <1>2 DEF TypeOK
<1>4. <<cookie, gen'[cookie]>> \in Uids
  BY <1>1, <1>3 DEF Uids
<1> QED
  BY <1>3, <1>4 DEF Rename, TypeOK, worker, run, history

LEMMA TryAgainTyped ==
    ASSUME TypeOK, NEW i \in Entries, TryAgain(i)
    PROVE  TypeOK'
<1> DEFINE r == [store[i] EXCEPT !.status = "pending", !.attempts = 0]
<1>0. store[i] # None
  BY DEF TryAgain, Offered
<1>1. store[i] \in Entry
  BY <1>0 DEF TypeOK
<1>2. 0 \in 0..MaxAttempts
  BY OutboxAssumption
<1>7. r \in Entry
  BY <1>1, <1>2 DEF Entry
<1>3. store' = [store EXCEPT ![i] = r]
  BY DEF TryAgain
<1> HIDE DEF r
<1>4. store' \in [Entries -> Entry \cup {None}]
  BY <1>3, <1>7 DEF TypeOK
<1>5. retries' \in 0..MaxRetries
  BY OutboxAssumption DEF TryAgain, TypeOK
<1>6. faults' \in [Entries -> 0..MaxAttempts]
  BY OutboxAssumption DEF TryAgain, TypeOK
<1> QED
  BY <1>4, <1>5, <1>6 DEF TryAgain, TypeOK, session, worker, run

LEMMA TypeStep ==
    ASSUME TypeOK, Busy, [Next]_vars
    PROVE  TypeOK'
<1>1. ASSUME NEW w \in Workers, Flush(w) PROVE TypeOK'
  BY <1>1, FlushTyped
<1>2. ASSUME NEW w \in Workers, Kill(w) PROVE TypeOK'
  <2>1. Rest(w) /\ lapses' \in 0..MaxLapses
    BY <1>2, OutboxAssumption DEF Kill, TypeOK
  <2>2. /\ tabOwner' \in [Tabs -> Uids \cup {None}]
        /\ origin' \in BOOLEAN /\ syncTag' \in BOOLEAN
    BY <1>2 DEF Kill, TypeOK
  <2>3. UNCHANGED <<browser, store, queued, cookie, gen, cacheOwner, retries, history>>
    BY <1>2 DEF Kill
  <2> QED
    BY <2>1, <2>2, <2>3, RestTyped DEF TypeOK, history
<1>3. ASSUME NEW t \in Tabs, KnowUser(t) PROVE TypeOK'
  <2>1. Uid(cookie) \in Uids
    BY <1>3 DEF KnowUser, Uid, Uids, TypeOK
  <2> QED
    BY <1>3, <2>1 DEF KnowUser, TypeOK, run, history
<1>4. ASSUME NEW t \in Tabs, SignOut(t) PROVE TypeOK'
  <2>1. lapses' \in 0..MaxLapses
    BY <1>4, OutboxAssumption DEF SignOut, TypeOK
  <2> QED
    BY <1>4, <2>1 DEF SignOut, TypeOK, worker, run, history
<1>5. ASSUME NEW t \in Tabs, Rename(t) PROVE TypeOK'
  BY <1>5, RenameTyped
<1>6. ASSUME NEW t \in Tabs, Enqueue(t) PROVE TypeOK'
  BY <1>6, EnqueueTyped
<1>7. ASSUME NEW u \in Users, SignIn(u) PROVE TypeOK'
  BY <1>7 DEF SignIn, TypeOK, worker, run, history
<1>8. ASSUME NEW i \in Entries, TryAgain(i) PROVE TypeOK'
  BY <1>8, TryAgainTyped
<1>9. ASSUME NEW i \in Entries, Discard(i) PROVE TypeOK'
  BY <1>9 DEF Discard, TypeOK, session, worker, run
<1>10. CASE Expire
  <2>1. lapses' \in 0..MaxLapses
    BY <1>10, OutboxAssumption DEF Expire, TypeOK
  <2> QED
    BY <1>10, <2>1 DEF Expire, TypeOK, worker, run, history
<1>11. CASE ForcedOut
  BY <1>11 DEF ForcedOut, TypeOK, worker, run, history
<1>12. CASE UNCHANGED vars
  BY <1>12 DEF vars, session, worker, run, history, TypeOK
<1> QED
  BY <1>1, <1>2, <1>3, <1>4, <1>5, <1>6, <1>7, <1>8, <1>9, <1>10, <1>11, <1>12 DEF Next

-----------------------------------------------------------------------------
(* What a worker is doing *)

\* A worker past its loop's head has an entry at hand, and a confirmed one was
\* taken by the API.
HandAt(w) ==
    /\ pc[w] \in {"adopting", "sent", "answered"} => Todo(w) # {}
    /\ pc[w] = "answered" /\ reply[w] = "ok" => \E u \in Users : <<Current(w), u>> \in applied

HandInv == \A w \in Workers : HandAt(w)

LEMMA HandIsBusy ==
    ASSUME HandInv
    PROVE  Busy
  BY DEF HandInv, HandAt, Busy

LEMMA HandFrame ==
    ASSUME NEW w, HandAt(w), pc'[w] = pc[w], items'[w] = items[w], reply'[w] = reply[w],
           applied \subseteq applied'
    PROVE  HandAt(w)'
<1>1. Todo(w)' = Todo(w)
  BY DEF Todo
<1>2. Current(w)' = Current(w)
  BY <1>1 DEF Current
<1> QED
  BY <1>1, <1>2 DEF HandAt

\* A worker's step leaves the others where they are.
LEMMA HandOthers ==
    ASSUME TypeOK, HandInv, NEW w \in Workers, HandAt(w)', applied \subseteq applied',
           \A v \in Workers \ {w} : pc'[v] = pc[v] /\ items'[v] = items[v] /\ reply'[v] = reply[v]
    PROVE  HandInv'
<1>1. ASSUME NEW v \in Workers PROVE HandAt(v)'
  BY <1>1, HandFrame DEF HandInv
<1> QED
  BY <1>1 DEF HandInv, Workers

LEMMA RestHand ==
    ASSUME TypeOK, HandInv, NEW w \in Workers, Rest(w), applied' = applied
    PROVE  HandInv'
<1>1. pc'[w] = "idle"
  BY DEF TypeOK, Rest
<1>2. HandAt(w)'
  BY <1>1 DEF HandAt
<1>3. \A v \in Workers \ {w} : pc'[v] = pc[v] /\ items'[v] = items[v] /\ reply'[v] = reply[v]
  BY DEF TypeOK, Rest
<1> QED
  BY <1>2, <1>3, HandOthers

LEMMA FlushHand ==
    ASSUME TypeOK, HandInv, NEW w \in Workers, Flush(w)
    PROVE  HandInv'
<1>1. CASE Start(w)
  <2>1. pc'[w] = "run" /\ applied' = applied
    BY <1>1 DEF Start, TypeOK, history
  <2>2. HandAt(w)'
    BY <2>1 DEF HandAt
  <2>3. \A v \in Workers \ {w} : pc'[v] = pc[v] /\ items'[v] = items[v] /\ reply'[v] = reply[v]
    BY <1>1 DEF Start, TypeOK
  <2> QED
    BY <2>1, <2>2, <2>3, HandOthers
<1>2. CASE Finish(w)
  <2>1. Rest(w) /\ applied' = applied
    BY <1>2 DEF Finish, history
  <2> QED
    BY <2>1, RestHand
<1>3. CASE Adopt(w) \/ Send(w)
  <2>1. /\ pc'[w] \in {"adopting", "sent"} /\ items' = items /\ reply' = reply /\ applied' = applied
        /\ \A v \in Workers \ {w} : pc'[v] = pc[v]
    BY <1>3 DEF Adopt, Send, TypeOK, history
  <2>2. Todo(w) # {}
    BY <1>3 DEF Adopt, Send, Ready, HandInv, HandAt
  <2>3. HandAt(w)'
    BY <2>1, <2>2 DEF HandAt, Todo
  <2> QED
    BY <2>1, <2>3, HandOthers
<1>4. CASE Serve(w)
  <2>1. PICK a \in {"ok", "auth"} \cup (Faults \cap {"retry", "reject", "net"}) :
          /\ (a = "auth") <=> (as[w] = None \/ as[w] # cookie)
          /\ Answered(w, a)
          /\ \/ a \in {"ok", "retry", "net"} /\ Take(Current(w), as[w])
             \/ a # "ok" /\ UNCHANGED <<applied, last>>
    BY <1>4 DEF Serve
  <2>2. Todo(w) # {}
    BY <1>4 DEF Serve, HandInv, HandAt
  <2>3. /\ pc'[w] = "answered" /\ reply'[w] = a /\ items' = items
        /\ \A v \in Workers \ {w} : pc'[v] = pc[v] /\ reply'[v] = reply[v]
    BY <2>1 DEF Answered, TypeOK
  <2>4. Todo(w)' = Todo(w)
    BY <2>3 DEF Todo
  <2>5. Current(w)' = Current(w)
    BY <2>4 DEF Current
  <2>6. applied \subseteq applied'
    BY <2>1 DEF Take
  <2>7. a = "ok" => as[w] \in Users /\ <<Current(w), as[w]>> \in applied'
    BY <2>1 DEF Take, TypeOK
  <2>8. HandAt(w)'
    BY <2>2, <2>3, <2>4, <2>5, <2>7 DEF HandAt
  <2> QED
    BY <2>3, <2>6, <2>8, HandOthers
<1>5. CASE WrongOrigin(w) \/ Unreachable(w)
  <2>1. /\ pc'[w] = "answered" /\ reply'[w] # "ok" /\ items' = items /\ applied' = applied
        /\ \A v \in Workers \ {w} : pc'[v] = pc[v] /\ reply'[v] = reply[v]
    BY <1>5 DEF WrongOrigin, Unreachable, Answered, TypeOK, history
  <2>2. Todo(w) # {}
    BY <1>5 DEF WrongOrigin, Unreachable, HandInv, HandAt
  <2>3. HandAt(w)'
    BY <2>1, <2>2 DEF HandAt, Todo
  <2> QED
    BY <2>1, <2>3, HandOthers
<1>6. CASE Handle(w)
  <2>1. applied' = applied
    BY <1>6 DEF Handle
  <2>2. Rest(w) \/ Continue(w, Current(w))
    BY <1>6 DEF Handle, Confirmed, Refused, CountAttempt, GiveUpForNow
  <2>3. CASE Continue(w, Current(w))
    <3>1. /\ pc'[w] = "run"
          /\ \A v \in Workers \ {w} : pc'[v] = pc[v] /\ items'[v] = items[v] /\ reply'[v] = reply[v]
      BY <2>3 DEF Continue, TypeOK
    <3>2. HandAt(w)'
      BY <3>1 DEF HandAt
    <3> QED
      BY <2>1, <3>1, <3>2, HandOthers
  <2> QED
    BY <2>1, <2>2, <2>3, RestHand
<1> QED
  BY <1>1, <1>2, <1>3, <1>4, <1>5, <1>6 DEF Flush

LEMMA HandStep ==
    ASSUME TypeOK, HandInv, [Next]_vars
    PROVE  HandInv'
<1>1. ASSUME NEW w \in Workers, Flush(w) PROVE HandInv'
  BY <1>1, FlushHand
<1>2. ASSUME NEW w \in Workers, Kill(w) PROVE HandInv'
  <2>1. Rest(w) /\ applied' = applied
    BY <1>2 DEF Kill, history
  <2> QED
    BY <2>1, RestHand
<1>3. ASSUME UNCHANGED <<pc, items, reply, applied>> PROVE HandInv'
  <2>1. ASSUME NEW w \in Workers PROVE HandAt(w)'
    BY <1>3, <2>1, HandFrame DEF HandInv
  <2> QED
    BY <2>1 DEF HandInv, Workers
<1>4. ASSUME NEW t \in Tabs, KnowUser(t) \/ SignOut(t) \/ Rename(t) \/ Enqueue(t) PROVE HandInv'
  BY <1>3, <1>4 DEF KnowUser, SignOut, Rename, Enqueue, run, history
<1>5. ASSUME NEW u \in Users, SignIn(u) PROVE HandInv'
  BY <1>3, <1>5 DEF SignIn, run, history
<1>6. ASSUME NEW i \in Entries, TryAgain(i) \/ Discard(i) PROVE HandInv'
  BY <1>3, <1>6 DEF TryAgain, Discard, run
<1>7. CASE Expire \/ ForcedOut \/ UNCHANGED vars
  BY <1>3, <1>7 DEF Expire, ForcedOut, vars, run, history
<1> QED
  BY <1>1, <1>2, <1>4, <1>5, <1>6, <1>7 DEF Next

LEMMA InitTyped == Init => TypeOK /\ HandInv
<1> SUFFICES ASSUME Init PROVE TypeOK /\ HandInv
  OBVIOUS
<1>1. TypeOK
  <2>1. /\ queued \in 0..MaxEntries /\ lapses \in 0..MaxLapses /\ retries \in 0..MaxRetries
        /\ gen \in [Users -> 0..MaxRenames] /\ last \in [Users -> 0..MaxEntries]
        /\ faults \in [Entries -> 0..MaxAttempts]
    BY OutboxAssumption DEF Init
  <2>2. /\ store \in [Entries -> Entry \cup {None}]
        /\ items \in [Workers -> [Entries -> Entry \cup {None}]]
    BY DEF Init, NoEntries
  <2> QED
    BY <2>1, <2>2 DEF Init, TypeOK
<1>2. HandInv
  BY DEF Init, HandInv, HandAt
<1> QED
  BY <1>1, <1>2

\* Every variable of the outbox keeps its type, for any accounts, pages, service
\* workers, failures and bounds; and every worker between its loop's head and the
\* handling of an answer holds the entry that answer is about (flushOfflineQueue,
\* flushQueue).
THEOREM TypeCorrect == Spec => [](TypeOK /\ HandInv)
<1>1. TypeOK /\ HandInv /\ [Next]_vars => (TypeOK /\ HandInv)'
  BY HandIsBusy, TypeStep, HandStep
<1> QED
  BY InitTyped, <1>1, PTL DEF Spec

-----------------------------------------------------------------------------
(* An entry leaves the store only if it was taken or discarded *)

Gone(i)  == store[i] = None
Excused(i) == i \in discarded \/ \E u \in Users : <<i, u>> \in applied

Kept == \A i \in 1..queued : Gone(i) => Excused(i)

LEMMA KeptFrame ==
    ASSUME TypeOK, Kept, queued' = queued, applied \subseteq applied', discarded \subseteq discarded',
           \A i \in Entries : Gone(i)' => Gone(i) \/ Excused(i)'
    PROVE  Kept'
<1> SUFFICES ASSUME NEW i \in 1..queued, Gone(i)' PROVE Excused(i)'
  BY DEF Kept
<1>1. i \in Entries
  BY OutboxAssumption DEF Entries, TypeOK
<1>2. Excused(i) => Excused(i)'
  BY DEF Excused
<1> QED
  BY <1>1, <1>2 DEF Kept

LEMMA PatchKeeps ==
    ASSUME TypeOK, NEW i \in Entries, NEW n \in 0..MaxAttempts, NEW s \in {"pending", "rejected"},
           Patch(i, n, s)
    PROVE  \A j \in Entries : Gone(j)' => Gone(j)
<1>1. CASE store[i] = None
  BY <1>1 DEF Patch, Gone
<1>2. CASE store[i] # None
  <2>1. store[i] \in Entry
    BY <1>2 DEF TypeOK
  <2>2. [store[i] EXCEPT !.attempts = n, !.status = s] \in Entry
    BY <2>1 DEF Entry
  <2>3. [store[i] EXCEPT !.attempts = n, !.status = s] # None
    BY <2>2, NoneAssumption
  <2> QED
    BY <1>2, <2>3 DEF TypeOK, Patch, Gone
<1> QED
  BY <1>1, <1>2

LEMMA HandleKeeps ==
    ASSUME TypeOK, HandInv, Kept, NEW w \in Workers, Handle(w)
    PROVE  Kept'
<1>1. PICK i \in Entries : i = Current(w) /\ items[w][i] \in Entry
  BY AtHand, HandIsBusy DEF Busy, Handle
<1>2. UNCHANGED <<queued, applied, discarded>>
  BY DEF Handle
<1>3. CASE Confirmed(w, i)
  <2>1. \E u \in Users : <<i, u>> \in applied
    BY <1>1, <1>3 DEF Confirmed, Handle, HandInv, HandAt
  <2>2. Excused(i)'
    BY <1>2, <2>1 DEF Excused
  <2>3. store' = [store EXCEPT ![i] = None]
    BY <1>3 DEF Confirmed
  <2>4. \A j \in Entries : Gone(j)' => Gone(j) \/ Excused(j)'
    BY <1>1, <2>2, <2>3 DEF TypeOK, Gone
  <2> QED
    BY <1>2, <2>4, KeptFrame
<1>4. ASSUME NEW n \in 0..MaxAttempts, NEW s \in {"pending", "rejected"}, Patch(i, n, s)
      PROVE  Kept'
  BY <1>1, <1>2, <1>4, PatchKeeps, KeptFrame
<1>5. CASE Refused(w, i)
  <2> DEFINE n == IF store[i] = None THEN 0 ELSE store[i].attempts
  <2>1. n \in 0..MaxAttempts
    BY <1>1, OutboxAssumption DEF TypeOK, Entry
  <2>2. Patch(i, n, "rejected")
    BY <1>5 DEF Refused, Reject
  <2> HIDE DEF n
  <2> QED
    BY <1>4, <2>1, <2>2
<1>6. CASE CountAttempt(w, i)
  <2> DEFINE n == items[w][i].attempts + 1
             s == IF store[i] = None THEN "pending" ELSE store[i].status
  <2>1. n \in Nat /\ s \in {"pending", "rejected"}
    BY <1>1, OutboxAssumption DEF TypeOK, Entry
  <2>2. \/ n >= MaxAttempts /\ Patch(i, MaxAttempts, "rejected")
        \/ n < MaxAttempts /\ Patch(i, n, s)
    BY <1>6 DEF CountAttempt, Reject
  <2>3. MaxAttempts \in 0..MaxAttempts /\ (n < MaxAttempts => n \in 0..MaxAttempts)
    BY <2>1, OutboxAssumption
  <2> HIDE DEF n, s
  <2> QED
    BY <1>4, <2>1, <2>2, <2>3
<1>7. CASE GiveUpForNow(w)
  BY <1>2, <1>7, KeptFrame DEF GiveUpForNow, Gone
<1> QED
  BY <1>1, <1>3, <1>5, <1>6, <1>7 DEF Handle

LEMMA AdoptKeeps ==
    ASSUME TypeOK, HandInv, Kept, NEW w \in Workers, Adopt(w)
    PROVE  Kept'
<1> DEFINE i == Current(w)
<1>1. i \in Entries
  BY AtHand DEF Adopt, Ready
<1>2. store' = IF store[i] = None THEN store ELSE [store EXCEPT ![i] = [store[i] EXCEPT !.owner = me[w]]]
  BY DEF Adopt
<1>3. UNCHANGED <<queued, applied, discarded>>
  BY DEF Adopt, history
<1> HIDE DEF i
<1>4. \A j \in Entries : Gone(j)' => Gone(j)
  <2>1. CASE store[i] = None
    BY <1>2, <2>1 DEF Gone
  <2>2. CASE store[i] # None
    <3>1. store[i] \in Entry /\ me[w] \in Uids \cup {None}
      BY <1>1, <2>2 DEF TypeOK
    <3>2. [store[i] EXCEPT !.owner = me[w]] \in Entry
      BY <3>1 DEF Entry
    <3>3. [store[i] EXCEPT !.owner = me[w]] # None
      BY <3>2, NoneAssumption
    <3> QED
      BY <1>2, <2>2, <3>3 DEF TypeOK, Gone
  <2> QED
    BY <2>1, <2>2
<1> QED
  BY <1>3, <1>4, KeptFrame

LEMMA EnqueueKeeps ==
    ASSUME TypeOK, Kept, NEW t \in Tabs, Enqueue(t)
    PROVE  Kept'
<1> DEFINE r == [owner |-> tabOwner[t], attempts |-> 0, status |-> "pending"]
<1>1. r \in Entry
  BY OutboxAssumption DEF TypeOK, Entry
<1>2. r # None
  BY <1>1, NoneAssumption
<1>3. /\ store' = [store EXCEPT ![queued + 1] = r] /\ queued' = queued + 1
      /\ UNCHANGED <<applied, discarded>>
  BY DEF Enqueue
<1> HIDE DEF r
<1>4. ASSUME NEW j \in 1..queued', Gone(j)' PROVE Excused(j)'
  <2>1. j \in Entries /\ (j \in 1..queued \/ j = queued + 1)
    BY <1>3, OutboxAssumption DEF Enqueue, Entries, TypeOK
  <2>2. j # queued + 1
    BY <1>2, <1>3, <1>4, <2>1 DEF Gone, TypeOK
  <2>3. Gone(j) /\ j \in 1..queued
    BY <1>3, <1>4, <2>1, <2>2 DEF Gone, TypeOK
  <2> QED
    BY <1>3, <2>3 DEF Kept, Excused
<1> QED
  BY <1>4 DEF Kept

LEMMA KeptStep ==
    ASSUME TypeOK, HandInv, Kept, [Next]_vars
    PROVE  Kept'
<1>1. ASSUME UNCHANGED <<store, queued, discarded>>, applied \subseteq applied' PROVE Kept'
  BY <1>1, KeptFrame DEF Gone
<1>2. ASSUME NEW w \in Workers, Flush(w) PROVE Kept'
  <2>1. CASE Start(w) \/ Finish(w) \/ Send(w) \/ WrongOrigin(w) \/ Unreachable(w)
    BY <1>1, <2>1 DEF Start, Finish, Send, WrongOrigin, Unreachable, history
  <2>2. CASE Serve(w)
    BY <1>1, <2>2 DEF Serve, Take
  <2> QED
    BY <1>2, <2>1, <2>2, AdoptKeeps, HandleKeeps DEF Flush
<1>3. ASSUME NEW w \in Workers, Kill(w) PROVE Kept'
  BY <1>1, <1>3 DEF Kill, history
<1>4. ASSUME NEW t \in Tabs, KnowUser(t) \/ SignOut(t) \/ Rename(t) PROVE Kept'
  BY <1>1, <1>4 DEF KnowUser, SignOut, Rename, history
<1>5. ASSUME NEW u \in Users, SignIn(u) PROVE Kept'
  BY <1>1, <1>5 DEF SignIn, history
<1>6. ASSUME NEW i \in Entries, TryAgain(i) PROVE Kept'
  <2> DEFINE r == [store[i] EXCEPT !.status = "pending", !.attempts = 0]
  <2>1. store[i] # None
    BY <1>6 DEF TryAgain, Offered
  <2>2. store[i] \in Entry /\ 0 \in 0..MaxAttempts
    BY <2>1, OutboxAssumption DEF TypeOK
  <2>3. r \in Entry
    BY <2>2 DEF Entry
  <2>4. r # None
    BY <2>3, NoneAssumption
  <2>5. store' = [store EXCEPT ![i] = r] /\ UNCHANGED <<queued, applied, discarded>>
    BY <1>6 DEF TryAgain
  <2> HIDE DEF r
  <2>6. \A j \in Entries : Gone(j)' => Gone(j)
    BY <2>4, <2>5 DEF TypeOK, Gone
  <2> QED
    BY <2>5, <2>6, KeptFrame
<1>7. ASSUME NEW i \in Entries, Discard(i) PROVE Kept'
  <2>1. /\ store' = [store EXCEPT ![i] = None] /\ discarded' = discarded \cup {i}
        /\ UNCHANGED <<queued, applied>>
    BY <1>7 DEF Discard
  <2>2. \A j \in Entries : Gone(j)' => Gone(j) \/ Excused(j)'
    BY <2>1 DEF TypeOK, Gone, Excused
  <2> QED
    BY <2>1, <2>2, KeptFrame
<1>8. CASE Expire \/ ForcedOut \/ UNCHANGED vars
  BY <1>1, <1>8 DEF Expire, ForcedOut, vars, history
<1> QED
  BY <1>2, <1>3, <1>4, <1>5, <1>6, <1>7, <1>8, EnqueueKeeps DEF Next

\* offlineSync.ts:41: whatever pages, service workers, crashes and failures do, an
\* entry that is gone from IndexedDB was discarded by the user or taken by the API.
THEOREM DeletedOnlyIfTaken == Spec => []Kept
<1>1. Init => Kept
  BY DEF Init, Kept
<1>2. TypeOK /\ HandInv /\ Kept /\ [Next]_vars => Kept'
  BY KeptStep
<1> QED
  BY <1>1, <1>2, TypeCorrect, PTL DEF Spec

-----------------------------------------------------------------------------
(* One page, or one account *)

\* Entry i is the work of the account with this uid, or of nobody yet.
MadeBy(i, uid) == by[i] = None \/ (uid # None /\ by[i] = uid[1])

\* The cookie a page sends is its own account's, or none.
CookieIsMine == \A t \in Tabs : tabOwner[t] # None => cookie = None \/ cookie = tabOwner[t][1]

\* What is stored carries its maker's uid; nothing is known of later entries.
StoreTagged == \A i \in Entries : store[i] # None => MadeBy(i, store[i].owner)
NothingBeyond ==
    \A i \in Entries : i > queued =>
        /\ by[i] = None /\ store[i] = None
        /\ \A t \in Tabs : items[t][i] = None
        /\ \A u \in Users : <<i, u>> \notin applied

\* A run holds entries of the account it was started for.
RunIsMine ==
    \A t \in Tabs :
        /\ pc[t] # "idle" => me[t] # None
        /\ \A i \in Entries : items[t][i] # None =>
              MadeBy(i, me[t]) /\ (items[t][i].owner = None => by[i] = None)

\* An entry being adopted has no maker, one being sent is its sender's.
HandIsMine ==
    \A t \in Tabs :
        /\ pc[t] = "adopting" => by[Current(t)] = None
        /\ pc[t] = "sent" => as[t] = None \/ by[Current(t)] \in {as[t], None}

OwnInv == CookieIsMine /\ StoreTagged /\ NothingBeyond /\ RunIsMine /\ HandIsMine /\ OnlyOwnAccount

OnePage == ServiceWorkers = {} /\ \E t : Tabs = {t}

LEMMA HandUnmoved ==
    ASSUME HandInv, HandIsMine, NothingBeyond, TypeOK, ServiceWorkers = {},
           UNCHANGED <<pc, items, as>>,
           \A i \in Entries : i <= queued => by'[i] = by[i]
    PROVE  HandIsMine'
<1> SUFFICES ASSUME NEW t \in Tabs
             PROVE  /\ pc'[t] = "adopting" => by'[Current(t)'] = None
                    /\ pc'[t] = "sent" => as'[t] = None \/ by'[Current(t)'] \in {as'[t], None}
  BY DEF HandIsMine
<1>1. CASE pc[t] \in {"adopting", "sent"}
  <2>1. PICK i : i = Current(t)
    OBVIOUS
  <2>2. Current(t)' = i
    BY <2>1 DEF Current, Todo
  <2>3. Todo(t) # {}
    BY <1>1 DEF HandInv, HandAt, Workers
  <2>4. i \in Entries /\ items[t][i] # None
    BY <2>1, <2>3, CurrentIsTodo DEF Todo
  <2>5. i <= queued
    BY <2>4, OutboxAssumption DEF NothingBeyond, Entries, TypeOK
  <2>6. by'[i] = by[i]
    BY <2>4, <2>5
  <2> QED
    BY <2>1, <2>2, <2>6 DEF HandIsMine
<1>2. CASE pc[t] \notin {"adopting", "sent"}
  BY <1>2
<1> QED
  BY <1>1, <1>2

\* Steps of the user and the session, which leave the queue alone.
LEMMA SessionOwn ==
    ASSUME TypeOK, HandInv, OwnInv, ServiceWorkers = {}, CookieIsMine',
           UNCHANGED <<store, queued, pc, me, items, as, by, applied>>
    PROVE  OwnInv'
<1>1. HandIsMine'
  BY HandUnmoved DEF OwnInv
<1>2. StoreTagged'
  BY DEF OwnInv, StoreTagged, MadeBy
<1>3. NothingBeyond'
  BY DEF OwnInv, NothingBeyond
<1>4. RunIsMine'
  BY DEF OwnInv, RunIsMine, MadeBy
<1> QED
  BY <1>1, <1>2, <1>3, <1>4 DEF OwnInv, OnlyOwnAccount

\* Steps that change at most how the store tags what it holds.
LEMMA StoreOwn ==
    ASSUME TypeOK, HandInv, OwnInv, ServiceWorkers = {},
           UNCHANGED <<cookie, tabOwner, queued, pc, me, items, as, by, applied>>,
           \A i \in Entries : store'[i] # None =>
               store[i] # None /\ MadeBy(i, store'[i].owner)
    PROVE  OwnInv'
<1>1. HandIsMine'
  BY HandUnmoved DEF OwnInv
<1>2. StoreTagged'
  BY DEF StoreTagged, MadeBy
<1>3. NothingBeyond'
  BY DEF OwnInv, NothingBeyond
<1>4. RunIsMine'
  BY DEF OwnInv, RunIsMine, MadeBy
<1>5. CookieIsMine'
  BY DEF OwnInv, CookieIsMine
<1> QED
  BY <1>1, <1>2, <1>3, <1>4, <1>5 DEF OwnInv, OnlyOwnAccount

LEMMA EnqueueOwn ==
    ASSUME TypeOK, HandInv, OwnInv, ServiceWorkers = {}, NEW t \in Tabs, Enqueue(t)
    PROVE  OwnInv'
<1> DEFINE o == tabOwner[t]
           r == [owner |-> o, attempts |-> 0, status |-> "pending"]
<1>1. PICK n \in Entries : n = queued + 1 /\ queued' = n
  BY OutboxAssumption DEF Enqueue, Entries, TypeOK
<1>2. /\ store' = [store EXCEPT ![n] = r]
      /\ by' = [by EXCEPT ![n] = IF o = None THEN None ELSE o[1]]
      /\ UNCHANGED <<cookie, tabOwner, pc, me, items, as, applied>>
  BY <1>1 DEF Enqueue, session, run
<1>3. n > queued /\ \A i \in Entries : (i <= queued \/ i # n) => by'[i] = by[i]
  BY <1>1, <1>2, OutboxAssumption DEF TypeOK, Entries
<1>4. \A i \in Entries : i # n => by'[i] = by[i] /\ store'[i] = store[i]
  BY <1>2 DEF TypeOK
<1>5. MadeBy(n, o)' /\ store'[n] = r /\ r.owner = o
  BY <1>2 DEF MadeBy, TypeOK
<1> HIDE DEF r, o
<1>6. HandIsMine'
  BY <1>2, <1>3, HandUnmoved DEF OwnInv
<1>7. StoreTagged'
  <2> SUFFICES ASSUME NEW i \in Entries, store'[i] # None PROVE MadeBy(i, store[i].owner)'
    BY DEF StoreTagged
  <2>1. CASE i = n
    BY <1>2, <1>5, <2>1 DEF MadeBy, o
  <2>2. CASE i # n
    BY <1>4, <2>2 DEF OwnInv, StoreTagged, MadeBy
  <2> QED
    BY <2>1, <2>2
<1>8. NothingBeyond'
  <2> SUFFICES ASSUME NEW i \in Entries, i > n
               PROVE  /\ by'[i] = None /\ store'[i] = None
                      /\ \A s \in Tabs : items[s][i] = None
                      /\ \A u \in Users : <<i, u>> \notin applied
    BY <1>1, <1>2 DEF NothingBeyond
  <2>1. i # n /\ i > queued
    BY <1>1, OutboxAssumption DEF Entries, TypeOK
  <2> QED
    BY <1>4, <2>1 DEF OwnInv, NothingBeyond
<1>9. \A s \in Tabs : items[s][n] = None
  BY <1>3 DEF OwnInv, NothingBeyond
<1>10. RunIsMine'
  <2> SUFFICES ASSUME NEW s \in Tabs
               PROVE  /\ pc[s] # "idle" => me[s] # None
                      /\ \A i \in Entries : items[s][i] # None =>
                           /\ by'[i] = None \/ (me[s] # None /\ by'[i] = me[s][1])
                           /\ items[s][i].owner = None => by'[i] = None
    BY <1>2 DEF RunIsMine, MadeBy
  <2> QED
    BY <1>4, <1>9 DEF OwnInv, RunIsMine, MadeBy
<1>11. OnlyOwnAccount'
  <2> SUFFICES ASSUME NEW i \in Entries, NEW u \in Users, <<i, u>> \in applied
               PROVE  by'[i] \in {u, None}
    BY <1>2 DEF OnlyOwnAccount
  <2>1. i # n
    BY <1>3 DEF OwnInv, NothingBeyond
  <2> QED
    BY <1>4, <2>1 DEF OwnInv, OnlyOwnAccount
<1>12. CookieIsMine'
  BY <1>2 DEF OwnInv, CookieIsMine
<1> QED
  BY <1>6, <1>7, <1>8, <1>10, <1>11, <1>12 DEF OwnInv

LEMMA RestOwn ==
    ASSUME TypeOK, OwnInv, CookieIsMine', OnePage, NEW w \in Workers, Rest(w),
           UNCHANGED <<queued, by, applied>>,
           \A i \in Entries : store'[i] # None => store[i] # None /\ store'[i].owner = store[i].owner
    PROVE  OwnInv'
<1>1. Tabs = {w}
  BY DEF OnePage, Workers
<1>2. pc'[w] = "idle" /\ items'[w] = NoEntries
  BY <1>1 DEF Rest, TypeOK, Workers
<1>3. \A i \in Entries : items'[w][i] = None
  BY <1>2 DEF NoEntries
<1>4. StoreTagged'
  BY DEF OwnInv, StoreTagged, MadeBy
<1>5. NothingBeyond'
  BY <1>1, <1>3 DEF OwnInv, NothingBeyond
<1>6. RunIsMine'
  BY <1>1, <1>2, <1>3 DEF RunIsMine
<1>7. HandIsMine'
  BY <1>1, <1>2 DEF HandIsMine
<1> QED
  BY <1>4, <1>5, <1>6, <1>7 DEF OwnInv, OnlyOwnAccount

LEMMA StartOwn ==
    ASSUME TypeOK, OwnInv, OnePage, NEW w \in Workers, Start(w)
    PROVE  OwnInv'
<1>1. Tabs = {w}
  BY DEF OnePage, Workers
<1> DEFINE o == tabOwner[w]
           f == [i \in Entries |-> IF i \in Sendable(w, o) THEN store[i] ELSE None]
<1>2. Mine(w) = o
  BY <1>1 DEF Mine
<1>3. /\ o # None /\ pc' = [pc EXCEPT ![w] = "run"] /\ me' = [me EXCEPT ![w] = o]
      /\ items' = [items EXCEPT ![w] = f]
      /\ UNCHANGED <<store, queued, cookie, tabOwner, as, by, applied>>
  BY <1>2 DEF Start, session, history
<1>4. pc'[w] = "run" /\ me'[w] = o /\ items'[w] = f
  BY <1>3 DEF TypeOK
<1>5. ASSUME NEW i \in Entries, f[i] # None
      PROVE  store[i] # None /\ f[i] = store[i] /\ (store[i].owner = o \/ store[i].owner = None)
  BY <1>5 DEF Sendable
<1> HIDE DEF f
<1>6. ASSUME NEW i \in Entries, f[i] # None
      PROVE  MadeBy(i, o) /\ (f[i].owner = None => by[i] = None)
  BY <1>5, <1>6 DEF OwnInv, StoreTagged, MadeBy
<1>7. RunIsMine'
  BY <1>1, <1>3, <1>4, <1>6 DEF RunIsMine, MadeBy
<1>8. NothingBeyond'
  BY <1>1, <1>3, <1>4, <1>5 DEF OwnInv, NothingBeyond
<1>9. HandIsMine'
  BY <1>1, <1>4 DEF HandIsMine
<1>10. CookieIsMine' /\ StoreTagged' /\ OnlyOwnAccount'
  BY <1>3 DEF OwnInv, CookieIsMine, StoreTagged, MadeBy, OnlyOwnAccount
<1> QED
  BY <1>7, <1>8, <1>9, <1>10 DEF OwnInv

LEMMA AdoptOwn ==
    ASSUME TypeOK, HandInv, OwnInv, OnePage, NEW w \in Workers, Adopt(w)
    PROVE  OwnInv'
<1>1. Tabs = {w}
  BY DEF OnePage, Workers
<1>2. PICK i \in Entries : i = Current(w) /\ items[w][i] # None
  BY AtHand, CurrentIsTodo DEF Adopt, Ready, Todo
<1>3. /\ items[w][i].owner = None
      /\ store' = IF store[i] = None THEN store ELSE [store EXCEPT ![i] = [store[i] EXCEPT !.owner = me[w]]]
      /\ pc' = [pc EXCEPT ![w] = "adopting"]
      /\ UNCHANGED <<queued, cookie, tabOwner, me, items, as, by, applied>>
  BY <1>2 DEF Adopt, session, history
<1>4. by[i] = None
  BY <1>1, <1>2, <1>3 DEF OwnInv, RunIsMine
<1>5. pc'[w] = "adopting" /\ Current(w)' = i
  BY <1>2, <1>3 DEF TypeOK, Current, Todo
<1>6. HandIsMine'
  BY <1>1, <1>3, <1>4, <1>5 DEF HandIsMine
<1>7. \A j \in Entries : /\ store[j] = None => store'[j] = None
                         /\ j # i => store'[j] = store[j]
  BY <1>3 DEF TypeOK
<1>8. StoreTagged'
  BY <1>3, <1>4, <1>7 DEF OwnInv, StoreTagged, MadeBy
<1>9. NothingBeyond'
  BY <1>3, <1>7 DEF OwnInv, NothingBeyond
<1>10. pc[w] # "idle"
  BY DEF Adopt, Ready
<1>11. RunIsMine'
  BY <1>1, <1>3, <1>10 DEF OwnInv, RunIsMine, MadeBy
<1>12. CookieIsMine' /\ OnlyOwnAccount'
  BY <1>3 DEF OwnInv, CookieIsMine, OnlyOwnAccount
<1> QED
  BY <1>6, <1>8, <1>9, <1>11, <1>12 DEF OwnInv

\* The request leaves with the cookie of the account the run is for, unless the
\* entry had no maker.
LEMMA SendOwn ==
    ASSUME TypeOK, HandInv, OwnInv, OnePage, NEW w \in Workers, Send(w)
    PROVE  OwnInv'
<1>1. Tabs = {w}
  BY DEF OnePage, Workers
<1>2. pc[w] # "idle" /\ Todo(w) # {}
  BY DEF Send, Ready, HandInv, HandAt
<1>3. PICK i \in Entries : i = Current(w) /\ items[w][i] # None
  BY <1>2, AtHand, CurrentIsTodo DEF Todo
<1>4. /\ pc' = [pc EXCEPT ![w] = "sent"] /\ as' = [as EXCEPT ![w] = cookie]
      /\ UNCHANGED <<store, queued, cookie, tabOwner, me, items, by, applied>>
  BY DEF Send, session, history
<1>5. pc'[w] = "sent" /\ as'[w] = cookie /\ Current(w)' = i
  BY <1>3, <1>4 DEF TypeOK, Current, Todo
<1>6. cookie = None \/ by[i] \in {cookie, None}
  <2>1. CASE pc[w] = "adopting"
    BY <1>1, <1>3, <2>1 DEF OwnInv, HandIsMine
  <2>2. CASE Ready(w)
    <3>1. tabOwner[w] = me[w] /\ me[w] # None
      BY <1>1, <1>2, <2>2 DEF Ready, OwnInv, RunIsMine
    <3>2. MadeBy(i, me[w])
      BY <1>1, <1>3 DEF OwnInv, RunIsMine
    <3> QED
      BY <1>1, <3>1, <3>2 DEF OwnInv, CookieIsMine, MadeBy
  <2> QED
    BY <2>1, <2>2 DEF Send
<1>7. HandIsMine'
  BY <1>1, <1>4, <1>5, <1>6 DEF HandIsMine
<1>8. RunIsMine'
  BY <1>1, <1>2, <1>4 DEF OwnInv, RunIsMine, MadeBy
<1>9. CookieIsMine' /\ StoreTagged' /\ NothingBeyond' /\ OnlyOwnAccount'
  BY <1>4 DEF OwnInv, CookieIsMine, StoreTagged, NothingBeyond, MadeBy, OnlyOwnAccount
<1> QED
  BY <1>7, <1>8, <1>9 DEF OwnInv

LEMMA AnsweredOwn ==
    ASSUME TypeOK, HandInv, OwnInv, OnePage, NEW w \in Workers, NEW a, pc[w] = "sent", Answered(w, a),
           UNCHANGED <<store, queued, cookie, tabOwner, by>>,
           \/ applied' = applied
           \/ as[w] # None /\ applied' = applied \cup {<<Current(w), as[w]>>}
    PROVE  OwnInv'
<1>1. Tabs = {w}
  BY DEF OnePage, Workers
<1>2. PICK i \in Entries : i = Current(w) /\ items[w][i] # None
  BY AtHand, CurrentIsTodo DEF HandInv, HandAt, Todo
<1>3. pc'[w] = "answered" /\ me' = me /\ items' = items
  BY DEF Answered, TypeOK
<1>4. as[w] = None \/ by[i] \in {as[w], None}
  BY <1>1, <1>2 DEF OwnInv, HandIsMine
<1>5. ASSUME NEW j \in Entries, NEW u \in Users, <<j, u>> \in applied'
      PROVE  <<j, u>> \in applied \/ (j = i /\ u = as[w] /\ u # None)
  <2>1. CASE applied' = applied
    BY <1>5, <2>1
  <2>2. CASE as[w] # None /\ applied' = applied \cup {<<i, as[w]>>}
    <3>1. <<j, u>> \in applied \/ <<j, u>> = <<i, as[w]>>
      BY <1>5, <2>2
    <3> QED
      BY <2>2, <3>1
  <2> QED
    BY <1>2, <2>1, <2>2
<1>6. OnlyOwnAccount'
  <2> SUFFICES ASSUME NEW j \in Entries, NEW u \in Users, <<j, u>> \in applied'
               PROVE  by[j] \in {u, None}
    BY DEF OnlyOwnAccount
  <2> QED
    BY <1>4, <1>5 DEF OwnInv, OnlyOwnAccount
<1>10. NothingBeyond'
  <2> SUFFICES ASSUME NEW j \in Entries, j > queued
               PROVE  /\ by[j] = None /\ store[j] = None
                      /\ \A t \in Tabs : items[t][j] = None
                      /\ \A u \in Users : <<j, u>> \notin applied'
    BY <1>3 DEF NothingBeyond
  <2>1. j # i
    BY <1>1, <1>2 DEF OwnInv, NothingBeyond
  <2> QED
    BY <1>5, <2>1 DEF OwnInv, NothingBeyond
<1>7. HandIsMine'
  BY <1>1, <1>3 DEF HandIsMine
<1>8. RunIsMine'
  BY <1>1, <1>3 DEF OwnInv, RunIsMine, MadeBy
<1>9. CookieIsMine' /\ StoreTagged'
  BY DEF OwnInv, CookieIsMine, StoreTagged, MadeBy
<1> QED
  BY <1>6, <1>7, <1>8, <1>9, <1>10 DEF OwnInv

LEMMA HandleOwn ==
    ASSUME TypeOK, HandInv, OwnInv, OnePage, NEW w \in Workers, Handle(w)
    PROVE  OwnInv'
<1>1. Tabs = {w}
  BY DEF OnePage, Workers
<1>2. PICK i \in Entries : i = Current(w)
  BY AtHand DEF Handle, HandInv, HandAt
<1>3. UNCHANGED <<queued, cookie, tabOwner, by, applied>>
  BY DEF Handle, session
<1>4. ASSUME NEW n, NEW s, Patch(i, n, s)
      PROVE  \A j \in Entries : store'[j] # None => store[j] # None /\ store'[j].owner = store[j].owner
  <2>1. CASE store[i] = None
    BY <1>4, <2>1 DEF Patch
  <2>2. CASE store[i] # None
    <3>1. store[i] \in Entry
      BY <2>2 DEF TypeOK
    <3>2. [store[i] EXCEPT !.attempts = n, !.status = s].owner = store[i].owner
      BY <3>1 DEF Entry
    <3> QED
      BY <1>4, <2>2, <3>2 DEF Patch, TypeOK
  <2> QED
    BY <2>1, <2>2
<1>5. \A j \in Entries : store'[j] # None => store[j] # None /\ store'[j].owner = store[j].owner
  <2>1. CASE Confirmed(w, i)
    BY <2>1 DEF Confirmed, TypeOK
  <2>2. CASE Refused(w, i)
    BY <1>4, <2>2 DEF Refused, Reject
  <2>3. CASE CountAttempt(w, i)
    BY <1>4, <2>3 DEF CountAttempt, Reject
  <2>4. CASE GiveUpForNow(w)
    BY <2>4 DEF GiveUpForNow
  <2> QED
    BY <1>2, <2>1, <2>2, <2>3, <2>4 DEF Handle
<1>6. CookieIsMine'
  BY <1>3 DEF OwnInv, CookieIsMine
<1>7. Rest(w) \/ Continue(w, i)
  BY <1>2 DEF Handle, Confirmed, Refused, CountAttempt, GiveUpForNow
<1>8. CASE Continue(w, i)
  <2>1. /\ pc'[w] = "run" /\ me' = me
        /\ \A j \in Entries : items'[w][j] # None => items'[w][j] = items[w][j]
    BY <1>8 DEF Continue, TypeOK
  <2>2. pc[w] # "idle"
    BY DEF Handle
  <2>3. RunIsMine'
    BY <1>1, <1>3, <2>1, <2>2 DEF OwnInv, RunIsMine, MadeBy
  <2>4. HandIsMine'
    BY <1>1, <2>1 DEF HandIsMine
  <2>5. StoreTagged'
    BY <1>3, <1>5 DEF OwnInv, StoreTagged, MadeBy
  <2>6. NothingBeyond'
    BY <1>1, <1>3, <1>5, <2>1 DEF OwnInv, NothingBeyond
  <2> QED
    BY <1>3, <1>6, <2>3, <2>4, <2>5, <2>6 DEF OwnInv, OnlyOwnAccount
<1> QED
  BY <1>3, <1>5, <1>6, <1>7, <1>8, RestOwn

LEMMA OwnStep ==
    ASSUME TypeOK, HandInv, OwnInv, OnePage, [Next]_vars
    PROVE  OwnInv'
<1>0. ServiceWorkers = {} /\ Workers = Tabs
  BY DEF OnePage, Workers
<1>1. ASSUME NEW w \in Workers, Flush(w) PROVE OwnInv'
  <2>1. CASE Finish(w)
    <3>1. Rest(w) /\ UNCHANGED <<store, queued, cookie, tabOwner, by, applied>>
      BY <2>1 DEF Finish, session, history
    <3>2. CookieIsMine'
      BY <3>1 DEF OwnInv, CookieIsMine
    <3> QED
      BY <3>1, <3>2, RestOwn
  <2>2. CASE Serve(w)
    <3>1. PICK a : /\ Answered(w, a)
                   /\ (a = "auth") <=> (as[w] = None \/ as[w] # cookie)
                   /\ \/ a \in {"ok", "retry", "net"} /\ Take(Current(w), as[w])
                      \/ UNCHANGED <<applied, last>>
      BY <2>2 DEF Serve
    <3>2. \/ applied' = applied
          \/ as[w] # None /\ applied' = applied \cup {<<Current(w), as[w]>>}
      BY <3>1 DEF Take
    <3>3. pc[w] = "sent" /\ UNCHANGED <<store, queued, cookie, tabOwner, by>>
      BY <2>2 DEF Serve, session
    <3> QED
      BY <3>1, <3>2, <3>3, AnsweredOwn
  <2>3. CASE WrongOrigin(w) \/ Unreachable(w)
    <3>1. PICK a : Answered(w, a)
      BY <2>3 DEF WrongOrigin, Unreachable
    <3>2. pc[w] = "sent" /\ UNCHANGED <<store, queued, cookie, tabOwner, by, applied>>
      BY <2>3 DEF WrongOrigin, Unreachable, session, history
    <3> QED
      BY <3>1, <3>2, AnsweredOwn
  <2> QED
    BY <1>1, <2>1, <2>2, <2>3, StartOwn, AdoptOwn, SendOwn, HandleOwn DEF Flush
<1>2. ASSUME NEW w \in Workers, Kill(w) PROVE OwnInv'
  <2>1. /\ Rest(w) /\ tabOwner' = [t \in Tabs |-> IF t = w THEN None ELSE tabOwner[t]]
        /\ UNCHANGED <<store, queued, cookie, by, applied>>
    BY <1>2 DEF Kill, history
  <2>2. CookieIsMine'
    BY <2>1 DEF OwnInv, CookieIsMine
  <2> QED
    BY <2>1, <2>2, RestOwn
<1>3. ASSUME NEW t \in Tabs, KnowUser(t) \/ SignOut(t) \/ Rename(t) PROVE OwnInv'
  <2>1. UNCHANGED <<store, queued, pc, me, items, as, by, applied>>
    BY <1>3 DEF KnowUser, SignOut, Rename, run, history
  <2>2. CookieIsMine'
    BY <1>3 DEF KnowUser, SignOut, Rename, Uid, OwnInv, CookieIsMine, TypeOK
  <2> QED
    BY <1>0, <2>1, <2>2, SessionOwn
<1>4. ASSUME NEW u \in Users, SignIn(u) PROVE OwnInv'
  <2>1. UNCHANGED <<store, queued, tabOwner, pc, me, items, as, by, applied>>
    BY <1>4 DEF SignIn, run, history
  <2>2. browser.tabs \subseteq Tabs
    BY OutboxAssumption DEF TypeOK
  <2>3. \A t \in Tabs : tabOwner[t] = None
    BY <1>4, <2>2 DEF SignIn, OnePage
  <2>4. CookieIsMine'
    BY <2>1, <2>3 DEF CookieIsMine
  <2> QED
    BY <1>0, <2>1, <2>4, SessionOwn
<1>5. ASSUME NEW t \in Tabs, Enqueue(t) PROVE OwnInv'
  BY <1>0, <1>5, EnqueueOwn
<1>6. ASSUME NEW i \in Entries, TryAgain(i) \/ Discard(i) PROVE OwnInv'
  <2>1. UNCHANGED <<cookie, tabOwner, queued, pc, me, items, as, by, applied>>
    BY <1>6 DEF TryAgain, Discard, session, run
  <2>2. store[i] # None
    BY <1>6 DEF TryAgain, Discard, Offered
  <2>3. store[i] \in Entry
    BY <2>2 DEF TypeOK
  <2>4. [store[i] EXCEPT !.status = "pending", !.attempts = 0].owner = store[i].owner
    BY <2>3 DEF Entry
  <2>5. \A j \in Entries : store'[j] # None => store[j] # None /\ store'[j].owner = store[j].owner
    BY <1>6, <2>2, <2>4 DEF TryAgain, Discard, TypeOK
  <2>6. \A j \in Entries : store'[j] # None => store[j] # None /\ MadeBy(j, store'[j].owner)
    BY <2>5 DEF OwnInv, StoreTagged
  <2> QED
    BY <1>0, <2>1, <2>6, StoreOwn
<1>7. CASE Expire \/ ForcedOut \/ UNCHANGED vars
  <2>1. UNCHANGED <<store, queued, pc, me, items, as, by, applied>>
    BY <1>7 DEF Expire, ForcedOut, vars, run, history
  <2>2. CookieIsMine'
    BY <1>7 DEF Expire, ForcedOut, vars, session, OwnInv, CookieIsMine
  <2> QED
    BY <1>0, <2>1, <2>2, SessionOwn
<1> QED
  BY <1>1, <1>2, <1>3, <1>4, <1>5, <1>6, <1>7 DEF Next

\* offlineQueue.ts:26: in a browser with one page and no service worker an entry is
\* only ever sent under the account that made it, for any accounts that sign in one
\* after the other, whatever expires, fails, is renamed or is closed during a run.
THEOREM OnePageKeepsAccounts ==
    ASSUME OnePage
    PROVE  Spec => []OnlyOwnAccount
<1>1. Init => OwnInv
  BY DEF Init, OwnInv, CookieIsMine, StoreTagged, NothingBeyond, RunIsMine, HandIsMine,
         OnlyOwnAccount, NoEntries, Workers
<1>2. TypeOK /\ HandInv /\ OwnInv /\ [Next]_vars => OwnInv'
  BY OwnStep
<1>3. OwnInv => OnlyOwnAccount
  BY DEF OwnInv
<1> QED
  BY <1>1, <1>2, <1>3, TypeCorrect, PTL DEF Spec

LEMMA KeptIsNothingLost ==
    ASSUME TypeOK, Kept, OnlyOwnAccount
    PROVE  NothingLost
<1> SUFFICES ASSUME NEW i \in 1..queued, store[i] = None, i \notin discarded
             PROVE  \E u \in Users : <<i, u>> \in applied /\ by[i] \in {u, None}
  BY DEF NothingLost
<1>1. PICK u \in Users : <<i, u>> \in applied
  BY DEF Kept, Gone, Excused
<1>2. i \in Entries
  BY OutboxAssumption DEF TypeOK, Entries
<1> QED
  BY <1>1, <1>2 DEF OnlyOwnAccount

\* offlineSync.ts:41 "Nothing is ever deleted except after the server confirmed it":
\* an entry is stored until its own account's request took it or the user discarded
\* it, in a browser with one page, or where one account signs in on any number of
\* pages beside a service worker.
THEOREM NothingIsLost ==
    ASSUME OnePage \/ \E u : Users = {u}
    PROVE  Spec => []NothingLost
<1>1. (\E u : Users = {u}) /\ TypeOK => OnlyOwnAccount
  BY DEF TypeOK, OnlyOwnAccount
<1>2. CASE OnePage
  <2>1. Spec => []OnlyOwnAccount
    BY <1>2, OnePageKeepsAccounts
  <2>2. TypeOK /\ Kept /\ OnlyOwnAccount => NothingLost
    BY KeptIsNothingLost
  <2> QED
    BY <2>1, <2>2, TypeCorrect, DeletedOnlyIfTaken, PTL
<1>3. CASE \E u : Users = {u}
  <2>1. TypeOK /\ Kept => NothingLost
    BY <1>1, <1>3, KeptIsNothingLost
  <2> QED
    BY <2>1, TypeCorrect, DeletedOnlyIfTaken, PTL
<1> QED
  BY <1>2, <1>3

-----------------------------------------------------------------------------
(* One page: no entry is set aside without a cause or sent after its discard *)

\* What a run still holds is pending, as the run read it; so nothing the banner
\* offers, and nothing discarded, is in a run's hands.
SnapIsTrue ==
    \A t \in Tabs, i \in Entries : items[t][i] # None =>
        store[i] # None /\ store[i].status = "pending" /\ store[i].attempts = items[t][i].attempts

\* The counter never runs ahead of the failures.
Counted ==
    \A i \in Entries : store[i] # None =>
        /\ store[i].attempts <= faults[i]
        /\ store[i].status = "rejected" => i \in refused \/ faults[i] >= MaxAttempts

AnswerIsTrue ==
    \A t \in Tabs : pc[t] = "answered" =>
        /\ reply[t] = "reject" => Current(t) \in refused
        /\ reply[t] = "retry" => \/ faults[Current(t)] >= items[t][Current(t)].attempts + 1
                                 \/ faults[Current(t)] >= MaxAttempts

DiscardedIsGone == \A i \in discarded : store[i] = None /\ i \in 1..queued

CauseInv == SnapIsTrue /\ Counted /\ AnswerIsTrue /\ DiscardedIsGone

LEMMA OfferedIsRejected ==
    ASSUME TypeOK, OnePage, NEW i \in Offered
    PROVE  store[i] # None /\ store[i].status = "rejected"
<1>1. PICK t : Tabs = {t}
  BY DEF OnePage
<1>2. browser.tabs \subseteq Tabs
  BY OutboxAssumption DEF TypeOK
<1>3. browser.tabs = {} \/ browser.tabs = {t}
  BY <1>1, <1>2
<1>4. Cardinality(browser.tabs) \in {0, 1}
  BY <1>3, FS_EmptySet, FS_Singleton
<1> QED
  BY <1>4 DEF Offered

\* Steps after which the runs, the store and the counters are as before.
LEMMA CauseFrame ==
    ASSUME TypeOK, HandInv, CauseInv, OnePage,
           UNCHANGED <<store, queued, pc, items, reply, faults, refused, discarded>>
    PROVE  CauseInv'
<1>1. \A t \in Tabs : Current(t)' = Current(t)
  BY DEF Current, Todo
<1>2. AnswerIsTrue'
  BY <1>1 DEF CauseInv, AnswerIsTrue
<1> QED
  BY <1>2 DEF CauseInv, SnapIsTrue, Counted, DiscardedIsGone

\* Steps that end the only run.
LEMMA RestCause ==
    ASSUME TypeOK, OnePage, NEW w \in Workers, Rest(w), Counted', DiscardedIsGone'
    PROVE  CauseInv'
<1>1. Tabs = {w}
  BY DEF OnePage, Workers
<1>2. pc'[w] = "idle" /\ items'[w] = NoEntries
  BY <1>1 DEF Rest, TypeOK, Workers
<1>3. \A i \in Entries : items'[w][i] = None
  BY <1>2 DEF NoEntries
<1> QED
  BY <1>1, <1>2, <1>3 DEF CauseInv, SnapIsTrue, AnswerIsTrue

\* Steps of a run before its request is answered.
LEMMA RunCause ==
    ASSUME TypeOK, CauseInv, OnePage, NEW w \in Workers, pc'[w] # "answered", SnapIsTrue',
           UNCHANGED <<queued, faults, refused, discarded>>,
           \A i \in Entries : store'[i] # None =>
               /\ store[i] # None
               /\ store'[i].attempts = store[i].attempts /\ store'[i].status = store[i].status
    PROVE  CauseInv'
<1>1. Tabs = {w}
  BY DEF OnePage, Workers
<1>2. AnswerIsTrue'
  BY <1>1 DEF AnswerIsTrue
<1>3. Counted'
  BY DEF CauseInv, Counted
<1>4. \A i \in discarded : i \in Entries
  BY DEF TypeOK
<1>5. DiscardedIsGone'
  BY <1>4 DEF CauseInv, DiscardedIsGone
<1> QED
  BY <1>2, <1>3, <1>5 DEF CauseInv

LEMMA StartCause ==
    ASSUME TypeOK, CauseInv, OnePage, NEW w \in Workers, Start(w)
    PROVE  CauseInv'
<1>1. Tabs = {w}
  BY DEF OnePage, Workers
<1> DEFINE f == [i \in Entries |-> IF i \in Sendable(w, Mine(w)) THEN store[i] ELSE None]
<1>2. /\ pc' = [pc EXCEPT ![w] = "run"] /\ items' = [items EXCEPT ![w] = f]
      /\ UNCHANGED <<store, queued, faults, refused, discarded>>
  BY DEF Start, history
<1>3. pc'[w] = "run" /\ items'[w] = f
  BY <1>2 DEF TypeOK
<1>4. ASSUME NEW i \in Entries, f[i] # None
      PROVE  store[i] # None /\ store[i].status = "pending" /\ f[i] = store[i]
  BY <1>4 DEF Sendable
<1> HIDE DEF f
<1>5. SnapIsTrue'
  BY <1>1, <1>2, <1>3, <1>4 DEF SnapIsTrue
<1> QED
  BY <1>2, <1>3, <1>5, RunCause

LEMMA AdoptCause ==
    ASSUME TypeOK, HandInv, CauseInv, OnePage, NEW w \in Workers, Adopt(w)
    PROVE  CauseInv'
<1>1. PICK i \in Entries : i = Current(w)
  BY AtHand DEF Adopt, Ready
<1>2. /\ store' = IF store[i] = None THEN store ELSE [store EXCEPT ![i] = [store[i] EXCEPT !.owner = me[w]]]
      /\ pc' = [pc EXCEPT ![w] = "adopting"]
      /\ UNCHANGED <<queued, items, faults, refused, discarded>>
  BY <1>1 DEF Adopt, history
<1>3. pc'[w] = "adopting"
  BY <1>2 DEF TypeOK
<1>4. \A j \in Entries :
          /\ store[j] # None => store'[j] # None
          /\ store'[j] # None => /\ store[j] # None
                                 /\ store'[j].attempts = store[j].attempts
                                 /\ store'[j].status = store[j].status
  <2>1. CASE store[i] = None
    BY <1>2, <2>1
  <2>2. CASE store[i] # None
    <3> DEFINE r == [store[i] EXCEPT !.owner = me[w]]
    <3>1. store[i] \in Entry /\ me[w] \in Uids \cup {None}
      BY <2>2 DEF TypeOK
    <3>2. r \in Entry /\ r.attempts = store[i].attempts /\ r.status = store[i].status
      BY <3>1 DEF Entry
    <3>3. store' = [store EXCEPT ![i] = r]
      BY <1>2, <2>2
    <3>4. r # None
      BY <3>2, NoneAssumption
    <3> HIDE DEF r
    <3> QED
      BY <2>2, <3>2, <3>3, <3>4 DEF TypeOK
  <2> QED
    BY <2>1, <2>2
<1>5. SnapIsTrue'
  BY <1>2, <1>4 DEF CauseInv, SnapIsTrue
<1> QED
  BY <1>2, <1>3, <1>4, <1>5, RunCause

LEMMA ServeCause ==
    ASSUME TypeOK, HandInv, CauseInv, OnePage, NEW w \in Workers, Serve(w)
    PROVE  CauseInv'
<1>1. Tabs = {w}
  BY DEF OnePage, Workers
<1>2. PICK i \in Entries : i = Current(w) /\ items[w][i] # None
  BY AtHand, CurrentIsTodo DEF Serve, HandInv, HandAt, Todo
<1>3. PICK a : /\ Answered(w, a)
               /\ faults' = IF a = "retry" /\ faults[i] < MaxAttempts
                            THEN [faults EXCEPT ![i] = faults[i] + 1] ELSE faults
               /\ refused' = IF a = "reject" THEN refused \cup {i} ELSE refused
  BY <1>2 DEF Serve
<1>4. UNCHANGED <<store, queued, discarded>>
  BY DEF Serve
<1>5. pc'[w] = "answered" /\ reply'[w] = a /\ items' = items
  BY <1>1, <1>3 DEF Answered, TypeOK, Workers
<1>6. Current(w)' = i
  BY <1>2, <1>5 DEF Current, Todo
<1>7. \A j \in Entries : faults[j] \in Nat /\ (store[j] # None => store[j].attempts \in Nat)
  BY OutboxAssumption DEF TypeOK, Entry
<1>8. (\A j \in Entries : faults'[j] >= faults[j]) /\ refused \subseteq refused'
  BY <1>3, <1>7 DEF TypeOK
<1>9. SnapIsTrue' /\ DiscardedIsGone'
  BY <1>4, <1>5 DEF CauseInv, SnapIsTrue, DiscardedIsGone
<1>10. \A j \in Entries : faults'[j] \in Nat
  BY <1>3, <1>7 DEF TypeOK
<1>11. Counted'
  BY <1>4, <1>7, <1>8, <1>10, OutboxAssumption DEF CauseInv, Counted
<1>12. a = "retry" => faults'[i] >= items[w][i].attempts + 1 \/ faults'[i] >= MaxAttempts
  <2>1. store[i].attempts <= faults[i] /\ store[i].attempts = items[w][i].attempts
    BY <1>1, <1>2 DEF CauseInv, SnapIsTrue, Counted
  <2>2. store[i].attempts \in Nat
    BY <1>1, <1>2, <1>7 DEF CauseInv, SnapIsTrue
  <2> QED
    BY <1>3, <1>7, <2>1, <2>2, OutboxAssumption DEF TypeOK
<1>13. AnswerIsTrue'
  BY <1>1, <1>3, <1>5, <1>6, <1>12 DEF AnswerIsTrue
<1> QED
  BY <1>9, <1>11, <1>13 DEF CauseInv

LEMMA NoAnswerCause ==
    ASSUME TypeOK, CauseInv, OnePage, NEW w \in Workers, Unreachable(w)
    PROVE  CauseInv'
<1>1. Tabs = {w}
  BY DEF OnePage, Workers
<1>2. /\ reply'[w] = "net" /\ items' = items
      /\ UNCHANGED <<store, queued, faults, refused, discarded>>
  BY DEF Unreachable, Answered, TypeOK, history
<1>3. AnswerIsTrue'
  BY <1>1, <1>2 DEF AnswerIsTrue
<1> QED
  BY <1>2, <1>3 DEF CauseInv, SnapIsTrue, Counted, DiscardedIsGone

\* An entry patched with n attempts, as its counter or the API's refusal justify.
LEMMA PatchCause ==
    ASSUME TypeOK, CauseInv, NEW i \in Entries, store[i] # None,
           NEW n \in Nat, NEW s \in {"pending", "rejected"}, Patch(i, n, s),
           n <= faults[i], s = "rejected" => i \in refused \/ faults[i] >= MaxAttempts,
           UNCHANGED <<queued, faults, refused, discarded>>
    PROVE  Counted' /\ DiscardedIsGone'
<1> DEFINE r == [store[i] EXCEPT !.attempts = n, !.status = s]
<1>1. store[i] \in Entry
  BY DEF TypeOK
<1>2. r.attempts = n /\ r.status = s
  BY <1>1 DEF Entry
<1>3. store' = [store EXCEPT ![i] = r]
  BY DEF Patch
<1>4. i \notin discarded
  BY DEF CauseInv, DiscardedIsGone
<1> HIDE DEF r
<1>5. store'[i] = r /\ \A j \in Entries \ {i} : store'[j] = store[j]
  BY <1>3 DEF TypeOK
<1>6. Counted'
  BY <1>2, <1>5 DEF CauseInv, Counted
<1>7. DiscardedIsGone'
  BY <1>4, <1>5 DEF CauseInv, DiscardedIsGone, TypeOK
<1> QED
  BY <1>6, <1>7

LEMMA HandleCause ==
    ASSUME TypeOK, HandInv, CauseInv, OnePage, NEW w \in Workers, Handle(w)
    PROVE  CauseInv'
<1>1. Tabs = {w} /\ w \in Tabs /\ w \notin ServiceWorkers
  BY DEF OnePage, Workers
<1>2. PICK i \in Entries : i = Current(w) /\ items[w][i] # None /\ items[w][i] \in Entry
  BY AtHand, CurrentIsTodo DEF Handle, HandInv, HandAt, Todo
<1>3. /\ pc[w] = "answered"
      /\ UNCHANGED <<queued, faults, refused, discarded>>
  BY DEF Handle
<1>4. store[i] # None /\ store[i].attempts = items[w][i].attempts
  BY <1>1, <1>2 DEF CauseInv, SnapIsTrue
<1>5. /\ faults[i] \in Nat /\ items[w][i].attempts \in Nat
      /\ items[w][i].attempts <= faults[i]
      /\ MaxAttempts \in Nat
  BY <1>2, <1>4, OutboxAssumption DEF CauseInv, Counted, TypeOK, Entry
<1>6. /\ reply[w] = "reject" => i \in refused
      /\ reply[w] = "retry" => faults[i] >= items[w][i].attempts + 1 \/ faults[i] >= MaxAttempts
  BY <1>1, <1>2, <1>3 DEF CauseInv, AnswerIsTrue
<1>7. Counted' /\ DiscardedIsGone' /\ \A j \in Entries \ {i} : store'[j] = store[j]
  <2>1. CASE Confirmed(w, i)
    <3>1. store' = [store EXCEPT ![i] = None]
      BY <2>1 DEF Confirmed
    <3>2. store'[i] = None /\ \A j \in Entries \ {i} : store'[j] = store[j]
      BY <3>1 DEF TypeOK
    <3> QED
      BY <1>3, <3>2 DEF CauseInv, Counted, DiscardedIsGone, TypeOK
  <2>2. CASE Refused(w, i)
    <3>1. Patch(i, items[w][i].attempts, "rejected") /\ reply[w] = "reject"
      BY <1>4, <2>2 DEF Refused, Reject
    <3> QED
      BY <1>3, <1>4, <1>5, <1>6, <3>1, PatchCause DEF Patch, TypeOK
  <2>3. CASE CountAttempt(w, i)
    <3>1. reply[w] = "retry"
      BY <1>1, <2>3 DEF CountAttempt, Counts
    <3> DEFINE n == items[w][i].attempts + 1
    <3>2. \/ n >= MaxAttempts /\ Patch(i, MaxAttempts, "rejected")
          \/ n < MaxAttempts /\ Patch(i, n, store[i].status)
      BY <1>4, <2>3 DEF CountAttempt, Reject
    <3>3. CASE n >= MaxAttempts /\ Patch(i, MaxAttempts, "rejected")
      <4>1. faults[i] >= MaxAttempts
        BY <1>5, <1>6, <3>1, <3>3
      <4> QED
        BY <1>3, <1>4, <1>5, <3>3, <4>1, PatchCause DEF Patch, TypeOK
    <3>4. CASE n < MaxAttempts /\ Patch(i, n, store[i].status)
      <4>1. store[i].status = "pending"
        BY <1>1, <1>2 DEF CauseInv, SnapIsTrue
      <4>2. n \in Nat /\ n <= faults[i]
        BY <1>5, <1>6, <3>1, <3>4
      <4> HIDE DEF n
      <4> QED
        BY <1>3, <1>4, <3>4, <4>1, <4>2, PatchCause DEF Patch, TypeOK
    <3> QED
      BY <3>2, <3>3, <3>4
  <2>4. CASE GiveUpForNow(w)
    BY <1>3, <2>4 DEF GiveUpForNow, CauseInv, Counted, DiscardedIsGone
  <2> QED
    BY <1>2, <2>1, <2>2, <2>3, <2>4 DEF Handle
<1>8. Rest(w) \/ Continue(w, i)
  BY <1>2 DEF Handle, Confirmed, Refused, CountAttempt, GiveUpForNow
<1>9. CASE Continue(w, i)
  <2>1. /\ pc'[w] = "run" /\ items'[w][i] = None
        /\ \A j \in Entries \ {i} : items'[w][j] = items[w][j]
    BY <1>2, <1>9 DEF Continue, TypeOK
  <2>2. SnapIsTrue'
    BY <1>1, <1>7, <2>1 DEF CauseInv, SnapIsTrue
  <2>3. AnswerIsTrue'
    BY <1>1, <2>1 DEF AnswerIsTrue
  <2> QED
    BY <1>7, <2>2, <2>3 DEF CauseInv
<1> QED
  BY <1>7, <1>8, <1>9, RestCause

LEMMA EnqueueCause ==
    ASSUME TypeOK, HandInv, OwnInv, CauseInv, OnePage, NEW t \in Tabs, Enqueue(t)
    PROVE  CauseInv'
<1> DEFINE r == [owner |-> tabOwner[t], attempts |-> 0, status |-> "pending"]
<1>1. PICK n \in Entries : n = queued + 1 /\ queued' = n
  BY OutboxAssumption DEF Enqueue, Entries, TypeOK
<1>2. store' = [store EXCEPT ![n] = r] /\ UNCHANGED <<pc, items, reply, faults, refused, discarded>>
  BY <1>1 DEF Enqueue, run
<1>3. store[n] = None
  BY <1>1, OutboxAssumption DEF OwnInv, NothingBeyond, TypeOK
<1>4. r.attempts = 0 /\ r.status = "pending"
  OBVIOUS
<1> HIDE DEF r
<1>5. store'[n] = r /\ \A j \in Entries \ {n} : store'[j] = store[j]
  BY <1>2 DEF TypeOK
<1>6. SnapIsTrue'
  BY <1>2, <1>3, <1>5 DEF CauseInv, SnapIsTrue
<1>7. \A j \in Entries : faults[j] \in Nat
  BY OutboxAssumption DEF TypeOK
<1>8. Counted'
  BY <1>2, <1>4, <1>5, <1>7 DEF CauseInv, Counted
<1>9. AnswerIsTrue'
  <2>1. Current(t)' = Current(t) /\ Tabs = {t}
    BY <1>2 DEF Current, Todo, OnePage
  <2> QED
    BY <1>2, <2>1 DEF CauseInv, AnswerIsTrue
<1>10. DiscardedIsGone'
  <2> SUFFICES ASSUME NEW i \in discarded PROVE store'[i] = None /\ i \in 1..n
    BY <1>1, <1>2 DEF DiscardedIsGone
  <2>1. store[i] = None /\ i \in 1..queued /\ i \in Entries
    BY DEF CauseInv, DiscardedIsGone, TypeOK
  <2>2. i # n /\ i \in 1..n
    BY <1>1, <2>1, OutboxAssumption DEF TypeOK
  <2> QED
    BY <1>5, <2>1, <2>2
<1> QED
  BY <1>6, <1>8, <1>9, <1>10 DEF CauseInv

\* What the user does to a rejected entry, which no run holds.
LEMMA BannerCause ==
    ASSUME TypeOK, HandInv, OwnInv, CauseInv, OnePage, NEW i \in Entries, TryAgain(i) \/ Discard(i)
    PROVE  CauseInv'
<1>1. store[i] # None /\ store[i].status = "rejected" /\ store[i] \in Entry
  BY OfferedIsRejected DEF TryAgain, Discard, TypeOK
<1>2. \A t \in Tabs : items[t][i] = None
  BY <1>1 DEF CauseInv, SnapIsTrue
<1>3. UNCHANGED <<queued, pc, items, reply>>
  BY DEF TryAgain, Discard, run
<1>4. ASSUME NEW t \in Tabs, pc[t] = "answered"
      PROVE  Current(t)' = Current(t) /\ Current(t) \in Entries \ {i}
  <2>1. Todo(t) # {}
    BY <1>4 DEF HandInv, HandAt, Workers
  <2>2. Current(t) \in Entries /\ items[t][Current(t)] # None
    BY <2>1, CurrentIsTodo DEF Todo
  <2> QED
    BY <1>2, <1>3, <2>2 DEF Current, Todo
<1>5. i \in 1..queued
  <2>1. ~(i > queued)
    BY <1>1 DEF OwnInv, NothingBeyond
  <2> QED
    BY <2>1, OutboxAssumption DEF Entries, TypeOK
<1>6. \A j \in Entries \ {i} : store'[j] = store[j] /\ faults'[j] = faults[j] /\ (j \in refused' <=> j \in refused)
  BY DEF TryAgain, Discard, TypeOK
<1>7. SnapIsTrue'
  BY <1>2, <1>3, <1>6 DEF CauseInv, SnapIsTrue
<1>8. AnswerIsTrue'
  BY <1>3, <1>4, <1>6 DEF CauseInv, AnswerIsTrue
<1>9. CASE TryAgain(i)
  <2> DEFINE r == [store[i] EXCEPT !.status = "pending", !.attempts = 0]
  <2>1. r.attempts = 0 /\ r.status = "pending"
    BY <1>1 DEF Entry
  <2>2. store'[i] = r /\ faults'[i] = 0 /\ discarded' = discarded
    BY <1>9 DEF TryAgain, TypeOK
  <2> HIDE DEF r
  <2>3. Counted'
    BY <1>6, <2>1, <2>2 DEF CauseInv, Counted
  <2>4. i \notin discarded
    BY <1>1 DEF CauseInv, DiscardedIsGone
  <2>5. DiscardedIsGone'
    BY <1>3, <1>6, <2>2, <2>4 DEF CauseInv, DiscardedIsGone, TypeOK
  <2> QED
    BY <1>7, <1>8, <2>3, <2>5 DEF CauseInv
<1>10. CASE Discard(i)
  <2>1. store'[i] = None /\ discarded' = discarded \cup {i}
    BY <1>10 DEF Discard, TypeOK
  <2>2. Counted'
    BY <1>6, <2>1 DEF CauseInv, Counted
  <2>3. DiscardedIsGone'
    BY <1>3, <1>5, <1>6, <2>1 DEF CauseInv, DiscardedIsGone, TypeOK
  <2> QED
    BY <1>7, <1>8, <2>2, <2>3 DEF CauseInv
<1> QED
  BY <1>9, <1>10

LEMMA CauseStep ==
    ASSUME TypeOK, HandInv, OwnInv, CauseInv, OnePage, [Next]_vars
    PROVE  CauseInv'
<1>1. ASSUME NEW w \in Workers, Flush(w) PROVE CauseInv'
  <2>1. CASE Finish(w)
    <3>1. Rest(w) /\ UNCHANGED <<store, queued, faults, refused, discarded>>
      BY <2>1 DEF Finish, history
    <3>2. Counted' /\ DiscardedIsGone'
      BY <3>1 DEF CauseInv, Counted, DiscardedIsGone
    <3> QED
      BY <3>1, <3>2, RestCause
  <2>2. CASE Send(w)
    <3>1. /\ pc' = [pc EXCEPT ![w] = "sent"]
          /\ UNCHANGED <<store, queued, items, faults, refused, discarded>>
      BY <2>2 DEF Send, history
    <3>2. pc'[w] # "answered" /\ SnapIsTrue'
      BY <3>1 DEF CauseInv, SnapIsTrue, TypeOK
    <3> QED
      BY <3>1, <3>2, RunCause
  <2>3. ~WrongOrigin(w)
    BY DEF WrongOrigin, OnePage
  <2> QED
    BY <1>1, <2>1, <2>2, <2>3, StartCause, AdoptCause, ServeCause, NoAnswerCause, HandleCause DEF Flush
<1>2. ASSUME NEW w \in Workers, Kill(w) PROVE CauseInv'
  <2>1. Rest(w) /\ UNCHANGED <<store, queued, faults, refused, discarded>>
    BY <1>2 DEF Kill, history
  <2>2. Counted' /\ DiscardedIsGone'
    BY <2>1 DEF CauseInv, Counted, DiscardedIsGone
  <2> QED
    BY <2>1, <2>2, RestCause
<1>3. ASSUME NEW t \in Tabs, KnowUser(t) \/ SignOut(t) \/ Rename(t) PROVE CauseInv'
  BY <1>3, CauseFrame DEF KnowUser, SignOut, Rename, run, history
<1>4. ASSUME NEW u \in Users, SignIn(u) PROVE CauseInv'
  BY <1>4, CauseFrame DEF SignIn, run, history
<1>5. CASE Expire \/ ForcedOut \/ UNCHANGED vars
  BY <1>5, CauseFrame DEF Expire, ForcedOut, vars, run, history
<1> QED
  BY <1>1, <1>2, <1>3, <1>4, <1>5, EnqueueCause, BannerCause DEF Next

\* The three invariants of a browser with one page, together.
LEMMA OnePageInv ==
    ASSUME OnePage
    PROVE  Spec => [](TypeOK /\ HandInv /\ OwnInv /\ CauseInv)
<1>1. Init => OwnInv /\ CauseInv
  BY DEF Init, OwnInv, CookieIsMine, StoreTagged, NothingBeyond, RunIsMine, HandIsMine,
         OnlyOwnAccount, NoEntries, Workers,
         CauseInv, SnapIsTrue, Counted, AnswerIsTrue, DiscardedIsGone
<1>2. TypeOK /\ HandInv /\ OwnInv /\ CauseInv /\ [Next]_vars => OwnInv' /\ CauseInv'
  BY OwnStep, CauseStep
<1> QED
  BY <1>1, <1>2, TypeCorrect, PTL DEF Spec

\* offlineQueue.ts:30: with one page, only a refusal or MAX_ATTEMPTS failures since
\* the last "Try again" set an entry aside; being offline or signed out costs none.
THEOREM NoneRejectedWithoutCause ==
    ASSUME OnePage
    PROVE  Spec => []RejectedForCause
<1>1. TypeOK /\ CauseInv => RejectedForCause
  BY OutboxAssumption DEF TypeOK, CauseInv, Counted, RejectedForCause, Entries
<1> QED
  BY <1>1, OnePageInv, PTL

\* offlineSync.ts:105: with one page, an entry the user discarded never reaches the
\* API afterwards.
THEOREM DiscardsAreFinal ==
    ASSUME OnePage
    PROVE  Spec => DiscardIsFinal
<1> DEFINE A == \A i \in discarded, u \in Users : <<i, u>> \in applied' => <<i, u>> \in applied
<1>1. ASSUME TypeOK, HandInv, CauseInv, Next
      PROVE  A
  <2>1. ASSUME NEW w \in Workers, Serve(w) PROVE A
    <3>1. Tabs = {w}
      BY DEF OnePage, Workers
    <3>2. PICK c \in Entries : c = Current(w) /\ items[w][c] # None
      BY <1>1, <2>1, AtHand, CurrentIsTodo DEF Serve, HandInv, HandAt, Todo
    <3>3. c \notin discarded
      BY <1>1, <3>1, <3>2 DEF CauseInv, SnapIsTrue, DiscardedIsGone
    <3>4. applied' = applied \/ applied' = applied \cup {<<c, as[w]>>}
      BY <2>1, <3>2 DEF Serve, Take
    <3>5. ASSUME NEW i \in discarded, NEW u \in Users, <<i, u>> \in applied'
          PROVE  <<i, u>> \in applied
      <4>1. <<i, u>> # <<c, as[w]>>
        BY <3>3
      <4> QED
        BY <3>4, <3>5, <4>1
    <3> QED
      BY <3>5
  <2>2. CASE applied' = applied
    BY <2>2
  <2>3. applied' = applied \/ \E w \in Workers : Serve(w)
    BY <1>1 DEF Next, Flush, Start, Finish, Adopt, Send, WrongOrigin, Unreachable, Handle, Kill,
                KnowUser, SignOut, Rename, Enqueue, SignIn, TryAgain, Discard, Expire, ForcedOut, history
  <2> QED
    BY <2>1, <2>2, <2>3
<1>2. TypeOK /\ HandInv /\ CauseInv /\ [Next]_vars => [A]_vars
  BY <1>1
<1> QED
  BY <1>2, OnePageInv, PTL DEF Spec, DiscardIsFinal
-----------------------------------------------------------------------------
(* Order: one account on any pages that take turns, or one page whose        *)
(* account is known whenever an entry is queued                             *)

OneAccount ==
    /\ \E u : Users = {u}
    /\ MaxRenames = 0
    /\ \A b \in Browsers : b.workers = {} => b.locks \/ \E t : b.tabs = {t}

Orderly == OneAccount \/ (OnePage /\ ~Orphans)

\* What a run for account u would send, but for what was set aside once.
Waiting == {i \in Entries : store[i] # None /\ store[i].status = "pending" /\ i \notin setAside}
For(u) == {i \in Waiting : store[i].owner = None \/ store[i].owner = Uid(u)}

\* A page knows its account by its present uid; no entry bears a later one.
UidsCurrent ==
    /\ \A t \in Tabs : tabOwner[t] # None => tabOwner[t] = <<tabOwner[t][1], gen[tabOwner[t][1]]>>
    /\ \A i \in Entries : store[i] # None /\ store[i].owner # None => store[i].owner[2] <= gen[store[i].owner[1]]

\* Nothing is known of entries that are not queued yet.
QueuedOnly ==
    /\ \A i \in Entries : i > queued => store[i] = None /\ \A w \in Workers : items[w][i] = None
    /\ \A u \in Users : last[u] <= queued

EachHasOwner ==
    ~Orphans => \A i \in Entries : /\ store[i] # None => store[i].owner # None
                                   /\ \A w \in Workers : items[w][i] # None => items[w][i].owner # None

RunsAlone ==
    /\ \A w \in Workers : pc[w] # "idle" => w \in browser.tabs /\ me[w] # None
    /\ \A v, w \in Workers : pc[v] # "idle" /\ pc[w] # "idle" => v = w

\* What waits for an account is behind what it had taken last ...
NoneBehind == \A u \in Users : \A j \in For(u) : last[u] <= j

\* ... and so is what a run holds; what the run does not hold comes after it.
RunOrder(w) ==
    pc[w] # "idle" =>
        /\ \A j \in For(me[w][1]) : j \in Todo(w) \/ \A i \in Todo(w) : i < j
        /\ \A j \in Todo(w) : j \in setAside \/ last[me[w][1]] <= j
        /\ pc[w] = "adopting" => Orphans
        /\ pc[w] = "sent" => as[w] = None \/ as[w] = me[w][1]

RunsOrder == \A w \in Workers : RunOrder(w)

OrderInv == UidsCurrent /\ QueuedOnly /\ EachHasOwner /\ RunsAlone /\ NoneBehind /\ RunsOrder

LEMMA CurrentIsFirst ==
    ASSUME NEW w, NEW i \in Todo(w)
    PROVE  Current(w) <= i
<1>1. Todo(w) \subseteq Nat
  BY OutboxAssumption DEF Todo, Entries
<1> QED
  BY <1>1, MinOfNats DEF Current, Todo

LEMMA UserOfUid ==
    ASSUME TypeOK
    PROVE  /\ \A u \in Users : Uid(u) \in Uids /\ Uid(u)[1] = u /\ Uid(u)[2] = gen[u] /\ Uid(u) # None
           /\ \A uid \in Uids : uid[1] \in Users /\ uid[2] \in 0..MaxRenames
           /\ \A u \in Users : gen[u] \in Nat
  BY NoneAssumption, OutboxAssumption DEF TypeOK, Uids, Uid

\* What leaves an account's entries, or comes after all that were queued, breaks no order.
NothingSooner == \A u \in Users : \A j \in For(u)' : j \in For(u) \/ j > queued

LEMMA StillNoneBehind ==
    ASSUME TypeOK, OrderInv, NothingSooner, last' = last
    PROVE  NoneBehind'
<1> SUFFICES ASSUME NEW u \in Users, NEW j \in For(u)' PROVE last[u] <= j
  BY DEF NoneBehind
<1>1. j \in Entries /\ j \in Nat /\ queued \in Nat /\ last[u] \in Nat
  BY OutboxAssumption DEF For, Waiting, Entries, TypeOK
<1>2. CASE j \in For(u)
  BY <1>2 DEF OrderInv, NoneBehind
<1>3. CASE j > queued
  BY <1>1, <1>3 DEF OrderInv, QueuedOnly
<1> QED
  BY <1>2, <1>3 DEF NothingSooner

\* A run that does not move keeps its order.
LEMMA StillInOrder ==
    ASSUME TypeOK, OrderInv, NothingSooner, last' = last, setAside \subseteq setAside', NEW w \in Workers,
           pc'[w] = pc[w], me'[w] = me[w], items'[w] = items[w], as'[w] = as[w]
    PROVE  RunOrder(w)'
<1> SUFFICES ASSUME pc[w] # "idle"
             PROVE  /\ \A j \in For(me[w][1])' : j \in Todo(w) \/ \A i \in Todo(w) : i < j
                    /\ \A j \in Todo(w) : j \in setAside' \/ last[me[w][1]] <= j
                    /\ pc[w] = "adopting" => Orphans
                    /\ pc[w] = "sent" => as[w] = None \/ as[w] = me[w][1]
  BY DEF RunOrder, Todo, For, Uid
<1>1. RunOrder(w) /\ me[w] # None
  BY DEF OrderInv, RunsOrder, RunsAlone
<1>2. PICK u \in Users : u = me[w][1]
  BY <1>1, UserOfUid DEF TypeOK
<1>3. ASSUME NEW j \in For(u)' PROVE j \in Todo(w) \/ \A i \in Todo(w) : i < j
  <2>1. CASE j \in For(u)
    BY <1>1, <1>2, <2>1 DEF RunOrder
  <2>2. CASE j > queued
    <3>1. \A i \in Todo(w) : i \in Entries /\ ~(i > queued)
      BY DEF OrderInv, QueuedOnly, Todo
    <3>2. j \in Nat /\ queued \in Nat /\ \A i \in Entries : i \in Nat
      BY OutboxAssumption DEF For, Waiting, Entries, TypeOK
    <3> QED
      BY <2>2, <3>1, <3>2
  <2> QED
    BY <2>1, <2>2 DEF NothingSooner
<1> QED
  BY <1>1, <1>2, <1>3 DEF RunOrder

\* Steps of the session and of the user on the queue: no run moves.
LEMMA OutsideOrder ==
    ASSUME TypeOK, OrderInv, NothingSooner, UidsCurrent', QueuedOnly', EachHasOwner',
           UNCHANGED <<browser, run, last, setAside>>
    PROVE  OrderInv'
<1>1. RunsAlone'
  BY DEF run, OrderInv, RunsAlone
<1>2. RunsOrder'
  <2>1. ASSUME NEW w \in Workers PROVE RunOrder(w)'
    BY StillInOrder DEF run
  <2> QED
    BY <2>1 DEF RunsOrder, Workers
<1> QED
  BY <1>1, <1>2, StillNoneBehind DEF OrderInv

LEMMA SessionOrder ==
    ASSUME TypeOK, OrderInv, Orderly, UNCHANGED <<browser, store, queued, run, gen, last, setAside>>,
           \A t \in Tabs : tabOwner'[t] \in {tabOwner[t], None} \/ \E u \in Users : tabOwner'[t] = Uid(u)
    PROVE  OrderInv'
<1>1. NothingSooner
  BY DEF NothingSooner, For, Waiting, Uid
<1>2. QueuedOnly' /\ EachHasOwner'
  BY DEF run, OrderInv, QueuedOnly, EachHasOwner
<1>3. UidsCurrent'
  <2>1. ASSUME NEW t \in Tabs, tabOwner'[t] # None
        PROVE  tabOwner'[t] = <<tabOwner'[t][1], gen[tabOwner'[t][1]]>>
    <3>1. CASE tabOwner'[t] = tabOwner[t]
      BY <2>1, <3>1 DEF OrderInv, UidsCurrent
    <3>2. CASE \E u \in Users : tabOwner'[t] = Uid(u)
      BY <3>2 DEF Uid
    <3> QED
      BY <2>1, <3>1, <3>2
  <2> QED
    BY <2>1 DEF OrderInv, UidsCurrent
<1> QED
  BY <1>1, <1>2, <1>3, OutsideOrder

\* A change of uid: nothing in the queue bears the new one.
LEMMA RenameOrder ==
    ASSUME TypeOK, OrderInv, Orderly, NEW t \in Tabs, Rename(t)
    PROVE  OrderInv'
<1>1. PICK u \in Users : u = cookie
  BY DEF Rename, TypeOK
<1>2. /\ gen[u] < MaxRenames
      /\ gen' = [gen EXCEPT ![u] = gen[u] + 1]
      /\ tabOwner' = [tabOwner EXCEPT ![t] = <<u, gen'[u]>>]
      /\ UNCHANGED <<browser, store, queued, run, last, setAside>>
  BY <1>1 DEF Rename, history
<1>3. MaxRenames # 0 /\ gen[u] \in Nat
  BY <1>2, UserOfUid, OutboxAssumption
<1>4. Tabs = {t}
  BY <1>3 DEF Orderly, OneAccount, OnePage
<1>5. gen'[u] = gen[u] + 1 /\ \A v \in Users \ {u} : gen'[v] = gen[v]
  BY <1>2 DEF TypeOK
<1>6. NothingSooner
  <2> SUFFICES ASSUME NEW v \in Users, NEW j \in For(v)' PROVE j \in For(v)
    BY DEF NothingSooner
  <2>1. j \in Waiting /\ j \in Entries /\ store[j] \in Entry /\ (store[j].owner = None \/ store[j].owner = <<v, gen'[v]>>)
    BY <1>2 DEF For, Waiting, Uid, TypeOK
  <2>2. CASE v = u
    <3>1. store[j].owner # <<u, gen'[u]>>
      <4>1. SUFFICES ASSUME store[j].owner = <<u, gen[u] + 1>> PROVE FALSE
        BY <1>5
      <4>2. store[j].owner # None
        <5>1. store[j].owner \in Uids \cup {None} /\ gen[u] + 1 \in 0..MaxRenames
          BY <1>2, <1>3, <2>1, OutboxAssumption DEF Entry
        <5> QED
          BY <4>1, <5>1, NoneAssumption DEF Uids
      <4>3. store[j].owner[2] <= gen[store[j].owner[1]]
        BY <2>1, <4>2 DEF Waiting, OrderInv, UidsCurrent
      <4>4. gen[u] + 1 <= gen[u]
        BY <4>1, <4>3
      <4> QED
        BY <1>3, <4>4
    <3> QED
      BY <2>1, <2>2, <3>1 DEF For
  <2>3. CASE v # u
    BY <1>5, <2>1, <2>3 DEF For, Uid
  <2> QED
    BY <2>2, <2>3
<1>7. QueuedOnly' /\ EachHasOwner'
  BY <1>2 DEF run, OrderInv, QueuedOnly, EachHasOwner
<1>8. UidsCurrent'
  <2>1. tabOwner'[t] = <<u, gen'[u]>>
    BY <1>2 DEF TypeOK
  <2>2. \A s \in Tabs : tabOwner'[s] = <<tabOwner'[s][1], gen'[tabOwner'[s][1]]>>
    BY <1>4, <2>1
  <2>3. ASSUME NEW i \in Entries, store[i] # None, store[i].owner # None
        PROVE  store[i].owner[2] <= gen'[store[i].owner[1]]
    <3>1. store[i].owner \in Uids
      BY <2>3 DEF TypeOK, Entry
    <3>2. PICK v \in Users : v = store[i].owner[1]
      BY <3>1, UserOfUid
    <3>3. store[i].owner[2] <= gen[v] /\ store[i].owner[2] \in Nat
      BY <2>3, <3>1, <3>2, UserOfUid, OutboxAssumption DEF OrderInv, UidsCurrent
    <3>4. gen[v] \in Nat /\ gen[v] <= gen'[v]
      BY <1>5, UserOfUid
    <3> QED
      BY <3>2, <3>3, <3>4, <1>5
  <2> QED
    BY <1>2, <2>2, <2>3 DEF UidsCurrent
<1> QED
  BY <1>2, <1>6, <1>7, <1>8, OutsideOrder

\* A new entry comes after all others.
LEMMA EnqueueOrder ==
    ASSUME TypeOK, OrderInv, NEW t \in Tabs, Enqueue(t)
    PROVE  OrderInv'
<1> DEFINE r == [owner |-> tabOwner[t], attempts |-> 0, status |-> "pending"]
<1>1. PICK n \in Entries : n = queued + 1 /\ queued' = n
  BY OutboxAssumption DEF Enqueue, Entries, TypeOK
<1>2. /\ store' = [store EXCEPT ![n] = r] /\ (tabOwner[t] # None \/ Orphans)
      /\ UNCHANGED <<browser, session, run, last, setAside>>
  BY <1>1 DEF Enqueue, run
<1>3. r.owner = tabOwner[t]
  OBVIOUS
<1> HIDE DEF r
<1>4. store'[n] = r /\ \A j \in Entries \ {n} : store'[j] = store[j]
  BY <1>2 DEF TypeOK
<1>5. queued \in Nat /\ n > queued /\ n \in Nat /\ Entries \subseteq Nat
  BY <1>1, OutboxAssumption DEF TypeOK, Entries
<1>6. NothingSooner
  BY <1>2, <1>4, <1>5 DEF NothingSooner, For, Waiting, Uid, session
<1>7. QueuedOnly'
  <2>1. ASSUME NEW i \in Entries, i > n PROVE store'[i] = None /\ \A w \in Workers : items'[w][i] = None
    <3>1. i > queued /\ i # n
      BY <1>5, <2>1
    <3> QED
      BY <1>2, <1>4, <3>1 DEF OrderInv, QueuedOnly, run
  <2>2. \A u \in Users : last[u] \in Nat /\ last[u] <= n
    BY <1>1, <1>5, OutboxAssumption DEF OrderInv, QueuedOnly, TypeOK
  <2> QED
    BY <1>1, <1>2, <2>1, <2>2 DEF QueuedOnly
<1>8. EachHasOwner'
  BY <1>2, <1>3, <1>4 DEF OrderInv, EachHasOwner, run
<1>9. UidsCurrent'
  <2>1. r.owner # None => r.owner[2] <= gen[r.owner[1]]
    <3>1. ASSUME r.owner # None PROVE r.owner[2] <= gen[r.owner[1]]
      <4>1. tabOwner[t] \in Uids /\ tabOwner[t] = <<tabOwner[t][1], gen[tabOwner[t][1]]>>
        BY <1>3, <3>1 DEF OrderInv, UidsCurrent, TypeOK
      <4>2. PICK u \in Users : u = tabOwner[t][1]
        BY <4>1, UserOfUid
      <4>3. tabOwner[t][1] = u /\ tabOwner[t][2] = gen[u] /\ gen[u] \in Nat
        BY <4>1, <4>2, UserOfUid
      <4> QED
        BY <1>3, <4>3
    <3> QED
      BY <3>1
  <2>2. \A s \in Tabs : tabOwner'[s] # None => tabOwner'[s] = <<tabOwner'[s][1], gen'[tabOwner'[s][1]]>>
    BY <1>2 DEF OrderInv, UidsCurrent, session
  <2>3. \A i \in Entries : store'[i] # None /\ store'[i].owner # None => store'[i].owner[2] <= gen[store'[i].owner[1]]
    BY <1>4, <2>1 DEF OrderInv, UidsCurrent
  <2> QED
    BY <1>2, <2>2, <2>3 DEF UidsCurrent, session
<1> QED
  BY <1>2, <1>6, <1>7, <1>8, <1>9, OutsideOrder

\* A step that adds nothing to the store and gives nothing back to it.
LEMMA StoreStaysTagged ==
    ASSUME TypeOK, OrderInv, UNCHANGED <<gen, tabOwner>>,
           \A j \in Entries : store'[j] # None => store[j] # None /\ store'[j].owner = store[j].owner
    PROVE  /\ UidsCurrent'
           /\ UNCHANGED <<queued, items, last>> => QueuedOnly'
           /\ UNCHANGED items => EachHasOwner'
<1>1. UidsCurrent'
  BY DEF OrderInv, UidsCurrent, Uid
<1> QED
  BY <1>1 DEF OrderInv, QueuedOnly, EachHasOwner

LEMMA BannerOrder ==
    ASSUME TypeOK, OrderInv, NEW i \in Entries, TryAgain(i) \/ Discard(i)
    PROVE  OrderInv'
<1>1. /\ UNCHANGED <<browser, queued, session, run, last, setAside>>
      /\ i \in setAside /\ store[i] \in Entry
  BY DEF TryAgain, Discard, Offered, TypeOK
<1>2. \A j \in Entries \ {i} : store'[j] = store[j]
  BY DEF TryAgain, Discard, TypeOK
<1>3. store'[i] # None => store[i] # None /\ store'[i].owner = store[i].owner
  <2> DEFINE r == [store[i] EXCEPT !.status = "pending", !.attempts = 0]
  <2>1. r.owner = store[i].owner
    BY <1>1 DEF Entry
  <2> HIDE DEF r
  <2>2. store'[i] = r \/ store'[i] = None
    BY DEF TryAgain, Discard, TypeOK, r
  <2> QED
    BY <1>1, <2>1, <2>2, NoneAssumption
<1>4. NothingSooner
  BY <1>1, <1>2 DEF NothingSooner, For, Waiting, Uid, session
<1>5. UidsCurrent' /\ QueuedOnly' /\ EachHasOwner'
  BY <1>1, <1>2, <1>3, StoreStaysTagged DEF session, run
<1> QED
  BY <1>1, <1>4, <1>5, OutsideOrder

-----------------------------------------------------------------------------
(* Order: the steps of a run *)

LEMMA TagsStay ==
    ASSUME TypeOK, OrderInv, UNCHANGED <<gen, queued>>,
           \A t \in Tabs : tabOwner'[t] \in {tabOwner[t], None},
           \A j \in Entries : store'[j] # None => store[j] # None /\ store'[j].owner = store[j].owner,
           \A v \in Workers, j \in Entries : items'[v][j] \in {None, items[v][j], store[j]},
           \A u \in Users : last'[u] <= queued
    PROVE  UidsCurrent' /\ QueuedOnly' /\ EachHasOwner'
<1>1. UidsCurrent'
  BY DEF OrderInv, UidsCurrent
<1>2. QueuedOnly'
  BY DEF OrderInv, QueuedOnly
<1>3. EachHasOwner'
  BY DEF OrderInv, EachHasOwner
<1> QED
  BY <1>1, <1>2, <1>3

\* A step of the one run there is.
LEMMA RunMovesOn ==
    ASSUME TypeOK, OrderInv, NEW w \in Workers, w \in browser.tabs, me'[w] # None, browser' = browser,
           \A v \in Workers \ {w} : pc[v] = "idle" /\ pc'[v] = "idle",
           RunOrder(w)', NoneBehind', UidsCurrent', QueuedOnly', EachHasOwner'
    PROVE  OrderInv'
<1>1. RunsAlone'
  BY DEF RunsAlone, Workers
<1>2. \A v \in Workers \ {w} : RunOrder(v)'
  BY DEF RunOrder
<1>3. RunsOrder'
  BY <1>2 DEF RunsOrder, Workers
<1> QED
  BY <1>1, <1>3 DEF OrderInv

\* A run ends; another one, if there is one, does not move.
LEMMA RestOrder ==
    ASSUME TypeOK, OrderInv, NEW w \in Workers, Rest(w), NothingSooner, setAside \subseteq setAside',
           UNCHANGED <<browser, gen, queued, last>>,
           \A t \in Tabs : tabOwner'[t] \in {tabOwner[t], None},
           \A j \in Entries : store'[j] # None => store[j] # None /\ store'[j].owner = store[j].owner
    PROVE  OrderInv'
<1>1. /\ pc'[w] = "idle"
      /\ \A v \in Workers \ {w} : /\ pc'[v] = pc[v] /\ me'[v] = me[v]
                                  /\ items'[v] = items[v] /\ as'[v] = as[v]
      /\ \A j \in Entries : items'[w][j] = None
  BY DEF Rest, TypeOK, NoEntries
<1>2. UidsCurrent' /\ QueuedOnly' /\ EachHasOwner'
  <2>1. \A v \in Workers, j \in Entries : items'[v][j] \in {None, items[v][j], store[j]}
    BY <1>1
  <2>2. \A u \in Users : last'[u] <= queued
    BY DEF OrderInv, QueuedOnly
  <2> QED
    BY <2>1, <2>2, TagsStay
<1>3. RunsAlone'
  BY <1>1 DEF OrderInv, RunsAlone, Workers
<1>4. RunsOrder'
  <2>1. ASSUME NEW v \in Workers PROVE RunOrder(v)'
    <3>1. CASE v = w
      BY <1>1, <3>1 DEF RunOrder
    <3>2. CASE v # w
      BY <1>1, <3>2, StillInOrder
    <3> QED
      BY <3>1, <3>2
  <2> QED
    BY <2>1 DEF RunsOrder, Workers
<1> QED
  BY <1>2, <1>3, <1>4, StillNoneBehind DEF OrderInv

\* Who has started is a page, and no other run is under way.
LEMMA OneRuns ==
    ASSUME TypeOK, OrderInv, Orderly, browser.workers = {}, NEW w \in Workers,
           pc[w] # "idle" \/ Start(w)
    PROVE  /\ w \in browser.tabs /\ w \in Tabs
           /\ \A v \in Workers \ {w} : pc[v] = "idle"
<1>1. browser \in Browsers /\ browser.tabs \subseteq Tabs
  BY OutboxAssumption DEF TypeOK
<1>2. CASE pc[w] # "idle"
  BY <1>1, <1>2 DEF OrderInv, RunsAlone
<1>3. CASE Start(w)
  <2>1. w \in browser.tabs
    BY <1>3 DEF Start, Running
  <2>2. browser.locks \/ \E t : browser.tabs = {t}
    BY <1>1, <2>1 DEF Orderly, OneAccount, OnePage
  <2>3. CASE browser.locks
    BY <1>1, <1>3, <2>1, <2>3 DEF Start, OrderInv, RunsAlone
  <2>4. CASE \E t : browser.tabs = {t}
    BY <1>1, <2>1, <2>4 DEF OrderInv, RunsAlone
  <2> QED
    BY <1>1, <2>1, <2>2, <2>3, <2>4
<1> QED
  BY <1>2, <1>3

LEMMA StartOrder ==
    ASSUME TypeOK, OrderInv, Orderly, browser.workers = {}, NEW w \in Workers, Start(w)
    PROVE  OrderInv'
<1>1. w \in browser.tabs /\ w \in Tabs /\ \A v \in Workers \ {w} : pc[v] = "idle"
  BY OneRuns
<1> DEFINE snap == [i \in Entries |-> IF i \in Sendable(w, tabOwner[w]) THEN store[i] ELSE None]
<1>2. /\ pc' = [pc EXCEPT ![w] = "run"] /\ me' = [me EXCEPT ![w] = tabOwner[w]]
      /\ items' = [items EXCEPT ![w] = snap] /\ tabOwner[w] # None
      /\ UNCHANGED <<browser, store, queued, session, as, setAside, last>>
  BY <1>1 DEF Start, Mine, history
<1>3. PICK u \in Users : tabOwner[w] = Uid(u) /\ u = tabOwner[w][1]
  <2>1. tabOwner[w] \in Uids /\ tabOwner[w] = <<tabOwner[w][1], gen[tabOwner[w][1]]>>
    BY <1>1, <1>2 DEF OrderInv, UidsCurrent, TypeOK
  <2>2. PICK u \in Users : u = tabOwner[w][1]
    BY <2>1, UserOfUid
  <2> QED
    BY <2>1, <2>2 DEF Uid
<1>4. /\ pc'[w] = "run" /\ me'[w] = tabOwner[w] /\ items'[w] = snap
      /\ \A v \in Workers \ {w} : pc'[v] = pc[v] /\ items'[v] = items[v]
  BY <1>2 DEF TypeOK
<1>5. \A i \in Entries : /\ items'[w][i] \in {None, store[i]}
                         /\ items'[w][i] # None <=> i \in Sendable(w, Uid(u))
  BY <1>3, <1>4 DEF Sendable
<1> HIDE DEF snap
<1>6. UidsCurrent' /\ QueuedOnly' /\ EachHasOwner'
  <2>1. \A v \in Workers, j \in Entries : items'[v][j] \in {None, items[v][j], store[j]}
    BY <1>4, <1>5
  <2>2. \A v \in Users : last'[v] <= queued
    BY <1>2 DEF OrderInv, QueuedOnly
  <2> QED
    BY <1>2, <2>1, <2>2, TagsStay DEF session
<1>7. \A v : For(v)' = For(v)
  BY <1>2 DEF For, Waiting, Uid, session
<1>8. NothingSooner
  BY <1>7 DEF NothingSooner
<1>9. For(u) = {i \in Todo(w)' : i \notin setAside}
  BY <1>1, <1>5 DEF For, Waiting, Sendable, Todo
<1>10. RunOrder(w)'
  <2>1. \A j \in For(u)' : j \in Todo(w)'
    BY <1>7, <1>9
  <2>2. \A j \in Todo(w)' : j \in setAside' \/ last'[u] <= j
    BY <1>2, <1>9 DEF OrderInv, NoneBehind
  <2>3. me'[w][1] = u
    BY <1>3, <1>4
  <2> QED
    BY <1>4, <2>1, <2>2, <2>3 DEF RunOrder
<1>11. NoneBehind'
  BY <1>2, <1>8, StillNoneBehind
<1> QED
  BY <1>1, <1>2, <1>4, <1>6, <1>10, <1>11, RunMovesOn

\* Only where entries may be without owner does a page adopt one.
LEMMA AdoptOrder ==
    ASSUME TypeOK, HandInv, OrderInv, Orderly, browser.workers = {}, NEW w \in Workers, Adopt(w)
    PROVE  OrderInv'
<1>1. w \in browser.tabs /\ me[w] # None /\ \A v \in Workers \ {w} : pc[v] = "idle"
  BY OneRuns DEF Adopt, Ready, OrderInv, RunsAlone
<1>2. PICK i \in Entries : i = Current(w) /\ items[w][i] # None /\ items[w][i].owner = None
  BY CurrentIsTodo DEF Adopt, Ready, Todo
<1>3. Orphans /\ OneAccount
  BY <1>2 DEF Orderly, OrderInv, EachHasOwner
<1>4. PICK u : Users = {u} /\ MaxRenames = 0
  BY <1>3 DEF OneAccount
<1>5. /\ store' = IF store[i] = None THEN store ELSE [store EXCEPT ![i] = [store[i] EXCEPT !.owner = me[w]]]
      /\ pc' = [pc EXCEPT ![w] = "adopting"]
      /\ UNCHANGED <<browser, queued, session, me, items, as, last, setAside>>
  BY <1>2 DEF Adopt, history
<1>6. pc'[w] = "adopting" /\ \A v \in Workers \ {w} : pc'[v] = pc[v]
  BY <1>5 DEF TypeOK
<1>7. Uids = {<<u, 0>>} /\ gen[u] = 0 /\ me[w] = <<u, 0>>
  <2>1. Uids = {<<u, 0>>}
    BY <1>4 DEF Uids
  <2> QED
    BY <1>1, <1>4, <2>1 DEF TypeOK
<1>8. \A j \in Entries :
          /\ store'[j] # None => /\ store[j] # None
                                 /\ store'[j].owner = store[j].owner \/ store'[j].owner = <<u, 0>>
                                 /\ store'[j].status = store[j].status
  <2>1. CASE store[i] = None
    BY <1>5, <2>1
  <2>2. CASE store[i] # None
    <3> DEFINE r == [store[i] EXCEPT !.owner = me[w]]
    <3>1. store[i] \in Entry
      BY <2>2 DEF TypeOK
    <3>2. r.owner = me[w] /\ r.status = store[i].status
      BY <3>1 DEF Entry
    <3>3. store' = [store EXCEPT ![i] = r]
      BY <1>5, <2>2
    <3> HIDE DEF r
    <3> QED
      BY <1>7, <2>2, <3>2, <3>3 DEF TypeOK
  <2> QED
    BY <2>1, <2>2
<1>9. NothingSooner
  <2> SUFFICES ASSUME NEW v \in Users, NEW j \in For(v)' PROVE j \in For(v)
    BY DEF NothingSooner
  <2>1. j \in Entries /\ store'[j] # None /\ store'[j].status = "pending" /\ j \notin setAside
    BY <1>5 DEF For, Waiting
  <2>2. j \in Waiting /\ store[j].owner \in Uids \cup {None}
    BY <1>8, <2>1 DEF Waiting, TypeOK, Entry
  <2>3. v = u /\ Uid(v) = <<u, 0>>
    BY <1>4, <1>7 DEF Uid
  <2> QED
    BY <1>7, <2>2, <2>3 DEF For
<1>10. UidsCurrent'
  <2>1. \A j \in Entries : store'[j] # None /\ store'[j].owner # None => store'[j].owner[2] <= gen[store'[j].owner[1]]
    BY <1>7, <1>8 DEF OrderInv, UidsCurrent
  <2> QED
    BY <1>5, <2>1 DEF OrderInv, UidsCurrent, session
<1>11. QueuedOnly' /\ EachHasOwner'
  BY <1>3, <1>5, <1>8 DEF OrderInv, QueuedOnly, EachHasOwner
<1>12. RunOrder(w)'
  <2>1. RunOrder(w) /\ me[w][1] = u /\ pc[w] # "idle"
    BY <1>7 DEF OrderInv, RunsOrder, Adopt, Ready
  <2>2. Todo(w)' = Todo(w) /\ \A j \in For(u)' : j \in For(u) \/ j > queued
    BY <1>4, <1>5, <1>9 DEF Todo, NothingSooner
  <2>3. \A j \in For(u)' : j \in For(u)
    <3>1. ASSUME NEW j \in For(u)' PROVE ~(j > queued)
      <4>1. j \in Entries /\ store[j] # None
        BY <1>8 DEF For, Waiting
      <4> QED
        BY <4>1 DEF OrderInv, QueuedOnly
    <3> QED
      BY <2>2, <3>1
  <2> QED
    BY <1>3, <1>5, <1>6, <2>1, <2>2, <2>3 DEF RunOrder
<1>13. NoneBehind'
  BY <1>5, <1>9, StillNoneBehind
<1> QED
  BY <1>1, <1>5, <1>6, <1>10, <1>11, <1>12, <1>13, RunMovesOn

\* A request carries the session of the run's account, or none.
LEMMA SendOrder ==
    ASSUME TypeOK, HandInv, OrderInv, Orderly, OnePage => CookieIsMine, browser.workers = {},
           NEW w \in Workers, Send(w)
    PROVE  OrderInv'
<1>1. /\ w \in browser.tabs /\ w \in Tabs /\ me[w] # None /\ pc[w] # "idle"
      /\ \A v \in Workers \ {w} : pc[v] = "idle"
  BY OneRuns DEF Send, Ready, OrderInv, RunsAlone
<1>2. /\ pc' = [pc EXCEPT ![w] = "sent"] /\ as' = [as EXCEPT ![w] = cookie]
      /\ UNCHANGED <<browser, store, queued, session, me, items, last, setAside>>
  BY DEF Send, history
<1>3. pc'[w] = "sent" /\ as'[w] = cookie /\ \A v \in Workers \ {w} : pc'[v] = pc[v]
  BY <1>2 DEF TypeOK
<1>4. me[w][1] \in Users /\ RunOrder(w)
  <2>1. me[w] \in Uids
    BY <1>1 DEF TypeOK
  <2> QED
    BY <2>1, UserOfUid DEF OrderInv, RunsOrder
<1>5. cookie = None \/ cookie = me[w][1]
  <2>1. CASE OneAccount
    BY <1>4, <2>1 DEF OneAccount, TypeOK
  <2>2. CASE OnePage /\ ~Orphans
    <3>1. tabOwner[w] = me[w]
      BY <1>1, <1>4, <2>2 DEF Send, Ready, RunOrder
    <3> QED
      BY <1>1, <2>2, <3>1 DEF CookieIsMine
  <2> QED
    BY <2>1, <2>2 DEF Orderly
<1>6. NothingSooner
  BY <1>2 DEF NothingSooner, For, Waiting, Uid, session
<1>7. UidsCurrent' /\ QueuedOnly' /\ EachHasOwner'
  BY <1>2 DEF OrderInv, UidsCurrent, QueuedOnly, EachHasOwner, session
<1>8. RunOrder(w)'
  BY <1>1, <1>2, <1>3, <1>4, <1>5 DEF RunOrder, For, Waiting, Uid, Todo, session
<1> QED
  BY <1>1, <1>2, <1>3, <1>6, <1>7, <1>8, StillNoneBehind, RunMovesOn

\* The request is over, and took nothing.
LEMMA AnsweredOrder ==
    ASSUME TypeOK, OrderInv, Orderly, browser.workers = {}, NEW w \in Workers, pc[w] = "sent",
           NEW a, Answered(w, a), UNCHANGED <<browser, store, queued, session, last, setAside>>
    PROVE  OrderInv'
<1>1. w \in browser.tabs /\ me[w] # None /\ \A v \in Workers \ {w} : pc[v] = "idle"
  BY OneRuns DEF OrderInv, RunsAlone
<1>2. /\ pc'[w] = "answered" /\ UNCHANGED <<me, items>>
      /\ \A v \in Workers \ {w} : pc'[v] = pc[v]
  BY DEF Answered, TypeOK
<1>3. NothingSooner
  BY DEF NothingSooner, For, Waiting, Uid, session
<1>4. UidsCurrent' /\ QueuedOnly' /\ EachHasOwner'
  BY <1>2 DEF OrderInv, UidsCurrent, QueuedOnly, EachHasOwner, session
<1>5. RunOrder(w)
  BY DEF OrderInv, RunsOrder
<1>6. RunOrder(w)'
  BY <1>2, <1>5 DEF RunOrder, For, Waiting, Uid, Todo, session
<1> QED
  BY <1>1, <1>2, <1>3, <1>4, <1>6, StillNoneBehind, RunMovesOn

\* The API takes the entry at hand: the first the run holds, and what waits for
\* the account is behind it.
LEMMA TakeOrder ==
    ASSUME TypeOK, HandInv, OrderInv, Orderly, browser.workers = {}, NEW w \in Workers, pc[w] = "sent",
           NEW a, Answered(w, a), as[w] \in Users, last' = [last EXCEPT ![as[w]] = Current(w)],
           UNCHANGED <<browser, store, queued, session, setAside>>
    PROVE  /\ OrderInv'
           /\ \A u \in Users : last'[u] >= last[u] \/ last'[u] \in setAside
<1>1. w \in browser.tabs /\ me[w] # None /\ \A v \in Workers \ {w} : pc[v] = "idle"
  BY OneRuns DEF OrderInv, RunsAlone
<1>2. PICK i \in Entries : i = Current(w) /\ i \in Todo(w)
  BY CurrentIsTodo DEF HandInv, HandAt
<1>3. RunOrder(w)
  BY DEF OrderInv, RunsOrder
<1>4. PICK u \in Users : u = as[w] /\ u = me[w][1]
  BY <1>3, NoneAssumption DEF RunOrder
<1>5. /\ pc'[w] = "answered" /\ UNCHANGED <<me, items>>
      /\ \A v \in Workers \ {w} : pc'[v] = pc[v]
  BY DEF Answered, TypeOK
<1>6. last'[u] = i /\ \A v \in Users \ {u} : last'[v] = last[v]
  BY <1>2, <1>4 DEF TypeOK
<1>7. Entries \subseteq Nat /\ \A v \in Users : last[v] \in Nat
  BY OutboxAssumption DEF Entries, TypeOK
<1>8. \A j \in Todo(w) : i <= j
  BY <1>2, CurrentIsFirst
<1>9. \A v : For(v)' = For(v)
  BY DEF For, Waiting, Uid, session
<1>10. \A j \in For(u) : i <= j
  <2> SUFFICES ASSUME NEW j \in For(u) PROVE i <= j
    OBVIOUS
  <2>1. j \in Todo(w) \/ i < j
    BY <1>2, <1>3, <1>4 DEF RunOrder
  <2>2. j \in Nat /\ i \in Nat
    BY <1>7 DEF For, Waiting
  <2> QED
    BY <1>8, <2>1, <2>2
<1>11. NoneBehind'
  BY <1>6, <1>9, <1>10 DEF OrderInv, NoneBehind
<1>12. RunOrder(w)'
  <2>1. Todo(w)' = Todo(w) /\ me'[w][1] = u
    BY <1>4, <1>5 DEF Todo
  <2>2. \A j \in Todo(w)' : last'[u] <= j
    BY <1>6, <1>8, <2>1
  <2>3. \A j \in For(u)' : j \in Todo(w)' \/ \A k \in Todo(w)' : k < j
    BY <1>3, <1>4, <1>9, <2>1 DEF RunOrder
  <2> QED
    BY <1>5, <2>1, <2>2, <2>3 DEF RunOrder
<1>13. UidsCurrent' /\ QueuedOnly' /\ EachHasOwner'
  <2>1. ~(i > queued)
    BY <1>2 DEF OrderInv, QueuedOnly, Todo
  <2>2. i <= queued
    BY <1>7, <2>1, OutboxAssumption DEF TypeOK
  <2>3. \A v \in Users : last'[v] <= queued
    BY <1>6, <2>2 DEF OrderInv, QueuedOnly
  <2> QED
    BY <1>5, <2>3 DEF OrderInv, UidsCurrent, QueuedOnly, EachHasOwner, session
<1>14. last'[u] >= last[u] \/ last'[u] \in setAside
  <2>1. i \in setAside \/ last[u] <= i
    BY <1>2, <1>3, <1>4 DEF RunOrder
  <2> QED
    BY <1>6, <1>7, <2>1
<1>15. \A v \in Users : last'[v] >= last[v] \/ last'[v] \in setAside
  <2>1. ASSUME NEW v \in Users \ {u} PROVE last'[v] >= last[v]
    <3>1. last'[v] = last[v] /\ last[v] \in Nat
      BY <1>6, <1>7
    <3> QED
      BY ONLY <3>1
  <2> QED
    BY <1>14, <2>1
<1> QED
  BY <1>1, <1>5, <1>11, <1>12, <1>13, <1>15, RunMovesOn

LEMMA PatchKeepsTag ==
    ASSUME TypeOK, NEW i \in Entries, NEW n, NEW s, Patch(i, n, s)
    PROVE  \A j \in Entries : store'[j] # None =>
               /\ store[j] # None /\ store'[j].owner = store[j].owner
               /\ store'[j].status = store[j].status \/ (j = i /\ store'[j].status = s)
<1>1. CASE store[i] = None
  BY <1>1 DEF Patch
<1>2. CASE store[i] # None
  <2> DEFINE r == [store[i] EXCEPT !.attempts = n, !.status = s]
  <2>1. store[i] \in Entry
    BY <1>2 DEF TypeOK
  <2>2. r.owner = store[i].owner /\ r.status = s
    BY <2>1 DEF Entry
  <2>3. store' = [store EXCEPT ![i] = r]
    BY <1>2 DEF Patch
  <2> HIDE DEF r
  <2> QED
    BY <1>2, <2>2, <2>3 DEF TypeOK
<1> QED
  BY <1>1, <1>2

\* Whatever the answer, nothing becomes pending, and the run goes on without the
\* entry only if that is gone or set aside.
LEMMA HandleTags ==
    ASSUME TypeOK, NEW w \in Workers, Handle(w), Current(w) \in Entries
    PROVE  LET i == Current(w)
           IN  /\ \A j \in Entries : store'[j] # None =>
                      /\ store[j] # None /\ store'[j].owner = store[j].owner
                      /\ store'[j].status = "pending" => store[j].status = "pending"
               /\ setAside \subseteq setAside'
               /\ Rest(w) \/ (Continue(w, i) /\ (store'[i] = None \/ i \in setAside'))
<1>1. PICK i \in Entries : i = Current(w)
  OBVIOUS
<1>2. CASE Confirmed(w, i)
  BY <1>1, <1>2 DEF Confirmed, TypeOK
<1>3. CASE Refused(w, i)
  <2>1. PICK n : Patch(i, n, "rejected")
    BY <1>3 DEF Refused, Reject
  <2>2. setAside' = setAside \cup {i} /\ Continue(w, i)
    BY <1>3 DEF Refused, Reject
  <2> QED
    BY <1>1, <2>1, <2>2, PatchKeepsTag
<1>4. CASE CountAttempt(w, i)
  <2>1. CASE Reject(w, i, MaxAttempts) /\ (Rest(w) \/ Continue(w, i))
    <3>1. Patch(i, MaxAttempts, "rejected") /\ setAside' = setAside \cup {i}
      BY <2>1 DEF Reject
    <3> QED
      BY <1>1, <2>1, <3>1, PatchKeepsTag
  <2>2. CASE \E n : Patch(i, n, IF store[i] = None THEN "pending" ELSE store[i].status) /\ Rest(w) /\ UNCHANGED setAside
    <3>1. PICK n : Patch(i, n, IF store[i] = None THEN "pending" ELSE store[i].status) /\ Rest(w) /\ UNCHANGED setAside
      BY <2>2
    <3>2. PICK s : s = IF store[i] = None THEN "pending" ELSE store[i].status
      OBVIOUS
    <3>3. Patch(i, n, s)
      BY <3>1, <3>2
    <3>4. \A j \in Entries : store'[j] # None =>
               /\ store[j] # None /\ store'[j].owner = store[j].owner
               /\ store'[j].status = store[j].status \/ (j = i /\ store'[j].status = s)
      BY <3>3, PatchKeepsTag
    <3> QED
      BY <3>1, <3>2, <3>4
  <2> QED
    BY <1>4, <2>1, <2>2 DEF CountAttempt
<1>5. CASE GiveUpForNow(w)
  BY <1>5 DEF GiveUpForNow
<1> QED
  BY <1>1, <1>2, <1>3, <1>4, <1>5 DEF Handle

LEMMA HandleOrder ==
    ASSUME TypeOK, HandInv, OrderInv, Orderly, browser.workers = {}, NEW w \in Workers, Handle(w)
    PROVE  OrderInv'
<1>1. w \in browser.tabs /\ me[w] # None /\ pc[w] = "answered" /\ \A v \in Workers \ {w} : pc[v] = "idle"
  BY OneRuns DEF Handle, OrderInv, RunsAlone
<1>2. PICK i \in Entries : i = Current(w) /\ i \in Todo(w)
  BY <1>1, CurrentIsTodo DEF HandInv, HandAt
<1>3. UNCHANGED <<browser, queued, session, last>>
  BY DEF Handle
<1>4. /\ \A j \in Entries : store'[j] # None =>
             /\ store[j] # None /\ store'[j].owner = store[j].owner
             /\ store'[j].status = "pending" => store[j].status = "pending"
      /\ setAside \subseteq setAside'
      /\ Rest(w) \/ (Continue(w, i) /\ (store'[i] = None \/ i \in setAside'))
  BY <1>2, HandleTags
<1>5. \A v : \A j \in For(v)' : j \in For(v)
  BY <1>3, <1>4 DEF For, Waiting, Uid, session
<1>6. NothingSooner
  BY <1>5 DEF NothingSooner
<1>7. CASE Rest(w)
  BY <1>3, <1>4, <1>6, <1>7, RestOrder DEF session
<1>8. CASE Continue(w, i) /\ (store'[i] = None \/ i \in setAside')
  <2>1. /\ pc'[w] = "run" /\ me' = me
        /\ items'[w][i] = None /\ \A j \in Entries \ {i} : items'[w][j] = items[w][j]
        /\ \A v \in Workers \ {w} : pc'[v] = pc[v] /\ items'[v] = items[v]
    BY <1>8 DEF Continue, TypeOK
  <2>2. Todo(w)' = Todo(w) \ {i}
    BY <1>2, <2>1 DEF Todo
  <2>3. UidsCurrent' /\ QueuedOnly' /\ EachHasOwner'
    <3>1. \A v \in Workers, j \in Entries : items'[v][j] \in {None, items[v][j], store[j]}
      BY <2>1
    <3>2. \A u \in Users : last'[u] <= queued
      BY <1>3 DEF OrderInv, QueuedOnly
    <3> QED
      BY <1>3, <1>4, <3>1, <3>2, TagsStay DEF session
  <2>4. RunOrder(w)'
    <3>1. RunOrder(w)
      BY DEF OrderInv, RunsOrder
    <3>2. \A v : i \notin For(v)'
      BY <1>8 DEF For, Waiting
    <3>3. \A j \in For(me[w][1])' : j \in Todo(w)' \/ \A k \in Todo(w)' : k < j
      <4>1. \A j \in For(me[w][1])' : j \in For(me[w][1]) \ {i}
        BY <1>5, <2>1, <3>2
      <4> QED
        BY <1>1, <2>2, <3>1, <4>1 DEF RunOrder
    <3>4. \A j \in Todo(w)' : j \in setAside' \/ last'[me[w][1]] <= j
      BY <1>1, <1>3, <1>4, <2>2, <3>1 DEF RunOrder
    <3> QED
      BY <2>1, <3>3, <3>4 DEF RunOrder
  <2> QED
    BY <1>1, <1>3, <1>6, <2>1, <2>3, <2>4, StillNoneBehind, RunMovesOn
<1> QED
  BY <1>4, <1>7, <1>8

LEMMA FlushOrder ==
    ASSUME TypeOK, HandInv, OrderInv, Orderly, OnePage => CookieIsMine, browser.workers = {},
           NEW w \in Workers, Flush(w)
    PROVE  OrderInv' /\ \A u \in Users : last'[u] >= last[u] \/ last'[u] \in setAside
<1>1. \A u \in Users : last[u] \in Nat
  BY OutboxAssumption DEF TypeOK
<1>2. CASE Finish(w)
  <2>1. Rest(w) /\ UNCHANGED <<browser, store, queued, session, last, setAside>>
    BY <1>2 DEF Finish, history
  <2>2. NothingSooner
    BY <2>1 DEF NothingSooner, For, Waiting, Uid, session
  <2> QED
    BY <1>1, <2>1, <2>2, RestOrder DEF session
<1>3. CASE Serve(w)
  <2>1. PICK a \in {"ok", "auth"} \cup (Faults \cap {"retry", "reject", "net"}) :
          /\ (a = "auth") <=> (as[w] = None \/ as[w] # cookie)
          /\ Answered(w, a)
          /\ \/ a \in {"ok", "retry", "net"} /\ Take(Current(w), as[w])
             \/ a # "ok" /\ UNCHANGED <<applied, last>>
    BY <1>3 DEF Serve
  <2>2. pc[w] = "sent" /\ UNCHANGED <<browser, store, queued, session, setAside>>
    BY <1>3 DEF Serve
  <2>3. CASE last' = last
    BY <1>1, <2>1, <2>2, <2>3, AnsweredOrder
  <2>4. CASE a \in {"ok", "retry", "net"} /\ Take(Current(w), as[w])
    <3>1. as[w] \in Users /\ last' = [last EXCEPT ![as[w]] = Current(w)]
      BY <2>1, <2>4 DEF Take, TypeOK
    <3> QED
      BY <2>1, <2>2, <3>1, TakeOrder
  <2> QED
    BY <2>1, <2>3, <2>4
<1>4. CASE WrongOrigin(w) \/ Unreachable(w)
  <2>1. PICK a : pc[w] = "sent" /\ Answered(w, a) /\ UNCHANGED <<browser, store, queued, session, last, setAside>>
    BY <1>4 DEF WrongOrigin, Unreachable, history
  <2> QED
    BY <1>1, <2>1, AnsweredOrder
<1>5. CASE Start(w) \/ Adopt(w) \/ Send(w) \/ Handle(w)
  <2>1. last' = last
    BY <1>5 DEF Start, Adopt, Send, Handle, history
  <2> QED
    BY <1>1, <1>5, <2>1, StartOrder, AdoptOrder, SendOrder, HandleOrder
<1> QED
  BY <1>2, <1>3, <1>4, <1>5 DEF Flush

LEMMA NextOrder ==
    ASSUME TypeOK, HandInv, OrderInv, Orderly, OnePage => CookieIsMine, browser.workers = {}, [Next]_vars
    PROVE  OrderInv' /\ \A u \in Users : last'[u] >= last[u] \/ last'[u] \in setAside
<1>1. \A u \in Users : last[u] \in Nat
  BY OutboxAssumption DEF TypeOK
<1>2. ASSUME NEW w \in Workers, Flush(w) PROVE OrderInv' /\ \A u \in Users : last'[u] >= last[u] \/ last'[u] \in setAside
  BY <1>2, FlushOrder
<1>3. last' = last \/ \E w \in Workers : Flush(w)
  BY DEF Next, Kill, KnowUser, SignOut, Rename, Enqueue, SignIn, TryAgain, Discard, Expire, ForcedOut, history, vars
<1>4. ASSUME NEW w \in Workers, Kill(w) PROVE OrderInv'
  <2>1. Rest(w) /\ UNCHANGED <<browser, store, queued, gen, last, setAside>>
    BY <1>4 DEF Kill, history
  <2>2. \A t \in Tabs : tabOwner'[t] \in {tabOwner[t], None}
    BY <1>4 DEF Kill
  <2>3. NothingSooner
    BY <2>1 DEF NothingSooner, For, Waiting, Uid
  <2> QED
    BY <2>1, <2>2, <2>3, RestOrder
<1>5. ASSUME NEW t \in Tabs, KnowUser(t) \/ SignOut(t) PROVE OrderInv'
  <2>1. UNCHANGED <<browser, store, queued, run, gen, last, setAside>>
    BY <1>5 DEF KnowUser, SignOut, history
  <2>2. \A s \in Tabs : tabOwner'[s] \in {tabOwner[s], None} \/ \E u \in Users : tabOwner'[s] = Uid(u)
    <3>1. CASE KnowUser(t)
      <4>1. cookie \in Users /\ tabOwner' = [tabOwner EXCEPT ![t] = Uid(cookie)]
        BY <3>1 DEF KnowUser, TypeOK
      <4> QED
        BY <4>1 DEF TypeOK
    <3>2. CASE SignOut(t)
      BY <3>2 DEF SignOut, TypeOK
    <3> QED
      BY <1>5, <3>1, <3>2
  <2> QED
    BY <2>1, <2>2, SessionOrder
<1>6. CASE (\E u \in Users : SignIn(u)) \/ Expire \/ ForcedOut \/ UNCHANGED vars
  <2>1. UNCHANGED <<browser, store, queued, run, gen, last, setAside>>
    BY <1>6 DEF SignIn, Expire, ForcedOut, vars, session, history
  <2>2. \A s \in Tabs : tabOwner'[s] \in {tabOwner[s], None} \/ \E u \in Users : tabOwner'[s] = Uid(u)
    BY <1>6 DEF SignIn, Expire, ForcedOut, vars, session
  <2> QED
    BY <1>1, <2>1, <2>2, SessionOrder
<1> QED
  BY <1>1, <1>2, <1>3, <1>4, <1>5, <1>6, RenameOrder, EnqueueOrder, BannerOrder DEF Next

LEMMA InitOrder == Init => OrderInv
<1> SUFFICES ASSUME Init PROVE OrderInv
  OBVIOUS
<1>1. queued = 0 /\ \A u \in Users : last[u] = 0
  BY DEF Init
<1> QED
  BY <1>1 DEF Init, OrderInv, UidsCurrent, QueuedOnly, EachHasOwner, RunsAlone, NoneBehind, RunsOrder,
              RunOrder, For, Waiting, NoEntries

\* offlineSync.ts:38 "Order is preserved": pages that take turns, under the Web
\* Lock or because there is one, send an account's entries in the order they were
\* made, whatever fails, expires or is closed in between: for one account on any
\* pages, and for any accounts on a page that knows who queues.
THEOREM OrderIsPreserved ==
    ASSUME Orderly
    PROVE  Spec => AppliedInOrder
<1> DEFINE A == \A u \in Users : \/ browser.workers # {}
                                 \/ last'[u] >= last[u] \/ last'[u] \in setAside
           Known == TypeOK /\ HandInv /\ (OnePage => CookieIsMine)
           InOrder == browser.workers = {} => OrderInv
<1>1. Spec => []Known
  <2>1. CASE OnePage
    <3>1. TypeOK /\ HandInv /\ OwnInv /\ CauseInv => Known
      BY DEF OwnInv
    <3> QED
      BY <2>1, <3>1, OnePageInv, PTL
  <2>2. CASE ~OnePage
    <3>1. TypeOK /\ HandInv => Known
      BY <2>2
    <3> QED
      BY <3>1, TypeCorrect, PTL
  <2> QED
    BY <2>1, <2>2
<1>2. Init => InOrder
  BY InitOrder
<1>3. [Next]_vars => browser' = browser
  BY DEF Next, Flush, Start, Finish, Adopt, Send, Serve, WrongOrigin, Unreachable, Handle, Kill,
         KnowUser, SignOut, Rename, Enqueue, SignIn, TryAgain, Discard, Expire, ForcedOut, vars
<1>4. Known /\ InOrder /\ [Next]_vars => InOrder' /\ [A]_vars
  BY <1>3, NextOrder
<1> QED
  BY <1>1, <1>2, <1>4, PTL DEF Spec, AppliedInOrder

=============================================================================
