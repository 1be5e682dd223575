---------------------------- MODULE ICacheProofs ----------------------------
(***************************************************************************)
(* Proofs about ICache, for all pages, instructions and sizes of the       *)
(* caches: the types, and that no write leaves stale code behind as long   *)
(* as no instruction crosses into the page of the stack cache.             *)
(***************************************************************************)
EXTENDS ICache, WellFoundedInduction, TLAPS

\* The window of the stack cache is over a page or closed.
StackOpen == stackCache.page = NoPage => stackCache = Closed

\* What is needed of the types.
TypeInv == TypeOK /\ StackOpen

\* The first line of the group that n belongs to.
GroupOf(n) == n - (n % Group)

\* A copy in entry n starts in the group of n or behind it, where handleSMC
\* looks for it, and every line it was decoded from has its write stamp in st.
Guarded(c, n, st) ==
  c.page # NoPage =>
    /\ GroupOf(n) <= c.first
    /\ \A line \in c.lines : c.first <= line /\ line \in st[c.page]

\* A split trace is in the ring, ends in the page that is mapped now, and the
\* start of that page has its write stamp.
SplitGuarded(c, n) ==
  c.split # NoPage =>
    /\ c.split = following /\ 0 \in stamps[c.split]
    /\ n \in SplitEntries

CachesGuarded ==
  \A n \in Lines :
    /\ Guarded(iCache[n], n, stamps) /\ iCache[n].split = NoPage
    /\ Guarded(traceCache[n], n, stamps) /\ SplitGuarded(traceCache[n], n)

\* The trace that is executed.
RunningGuarded ==
  /\ running.split = NoPage
  /\ running.page # NoPage => running.lines \subseteq stamps[running.page]

\* A window whose writes do not look at the stamps is over a page without any.
StackKnows ==
  stackCache.page # NoPage /\ ~stackCache.stamped => ~smp /\ stamps[stackCache.page] = {}

\* Every copy is what memory holds.
AllFresh ==
  /\ \A n \in Lines : iCache[n].fresh /\ traceCache[n].fresh
  /\ running.fresh

\* The inductive invariant.
CodeInv == TypeInv /\ CachesGuarded /\ RunningGuarded /\ StackKnows /\ AllFresh

-----------------------------------------------------------------------------
(* Entries and groups. *)

\* Rest and quotient.
LEMMA Division ==
  ASSUME NEW a \in Nat, NEW k \in Nat \ {0}
  PROVE  /\ a % k \in 0 .. k - 1
         /\ \E q \in Nat : a = k * q + (a % k)
<1>1. a % k \in 0 .. k - 1
  OBVIOUS
<1>2. a = k * (a \div k) + (a % k) /\ a \div k \in Nat
  OBVIOUS
<1> QED BY <1>1, <1>2

\* ... which determine the number.
LEMMA RestOfSum ==
  ASSUME NEW q \in Nat, NEW k \in Nat \ {0}, NEW r \in 0 .. k - 1
  PROVE  (k * q + r) % k = r
<1> DEFINE a == k * q + r
<1>1. a \in Nat
  OBVIOUS
<1>2. PICK p \in Nat : a = k * p + (a % k)
  BY <1>1, Division
<1>3. a % k \in 0 .. k - 1
  BY <1>1, Division
<1> DEFINE s == a % k
<1>4. s \in 0 .. k - 1 /\ k * q + r = k * p + s
  BY <1>2, <1>3
<1> HIDE DEF s, a
<1>5. ~(p > q)
  <2> SUFFICES ASSUME p > q PROVE FALSE
    OBVIOUS
  <2>1. p >= q + 1
    OBVIOUS
  <2>2. k * p >= k * (q + 1)
    BY <2>1
  <2>3. k * (q + 1) = k * q + k
    OBVIOUS
  <2> QED BY <1>4, <2>2, <2>3
<1>6. ~(q > p)
  <2> SUFFICES ASSUME q > p PROVE FALSE
    OBVIOUS
  <2>1. q >= p + 1
    OBVIOUS
  <2>2. k * q >= k * (p + 1)
    BY <2>1
  <2>3. k * (p + 1) = k * p + k
    OBVIOUS
  <2> QED BY <1>4, <2>2, <2>3
<1>7. p = q
  BY <1>5, <1>6
<1>8. s = r
  BY <1>4, <1>7
<1> QED BY <1>8 DEF s, a

\* hash stays in the group of the line, and so in the cache.
LEMMA HashInGroup ==
  ASSUME NEW line \in Lines, NEW mode \in Modes
  PROVE  hash(line, mode) \in Lines /\ GroupOf(hash(line, mode)) <= line
<1> USE ICacheAssumption
<1>1. line \in Nat /\ line < LineCount /\ mode \in Nat
  BY DEF Lines, Modes
<1>2. PICK q \in Nat : line = Group * q + (line % Group)
  BY <1>1, Division
<1>3. line % Group \in 0 .. Group - 1
  BY <1>1, Division
<1> DEFINE r == ((line % Group) + mode) % Group
<1>4. r \in 0 .. Group - 1
  BY <1>1, <1>3, Division
<1>5. hash(line, mode) = Group * q + r
  <2> DEFINE m == line % Group
  <2>1. hash(line, mode) = line - m + r
    BY DEF hash
  <2>2. m \in Nat /\ line = Group * q + m /\ Group * q \in Nat /\ r \in Nat
    BY <1>2, <1>3, <1>4
  <2> HIDE DEF m, r
  <2> QED BY <2>1, <2>2, <1>1
<1> HIDE DEF r
<1>6. hash(line, mode) % Group = r
  BY <1>4, <1>5, RestOfSum
<1>7. GroupOf(hash(line, mode)) = Group * q
  BY <1>4, <1>5, <1>6 DEF GroupOf
<1>8. GroupOf(hash(line, mode)) <= line
  BY <1>1, <1>2, <1>3, <1>7
<1>9. PICK n \in Nat : LineCount = Group * n
  <2>1. PICK n \in Nat : LineCount = Group * n + (LineCount % Group)
    BY Division
  <2> QED BY <2>1
<1>10. q < n
  <2> SUFFICES ASSUME q >= n PROVE FALSE
    OBVIOUS
  <2>1. Group * q >= Group * n
    OBVIOUS
  <2> QED BY <1>1, <1>2, <1>3, <1>9, <2>1
<1>11. Group * q + Group <= LineCount
  <2>1. n >= q + 1
    BY <1>10
  <2>2. Group * n >= Group * (q + 1)
    BY <2>1
  <2>3. Group * (q + 1) = Group * q + Group
    OBVIOUS
  <2> QED BY <1>9, <2>2, <2>3
<1>12. hash(line, mode) \in Lines
  <2>1. Group * q \in Nat
    OBVIOUS
  <2> QED BY <1>4, <1>5, <1>11, <2>1 DEF Lines
<1> QED BY <1>8, <1>12

-----------------------------------------------------------------------------
(* Types. *)

LEMMA InvalidCopy == Invalid \in Copy /\ NoTraces \in [Lines -> Copy]
<1>1. 0 \in Lines
  BY ICacheAssumption DEF Lines
<1>2. Invalid \in Copy
  BY <1>1 DEF Invalid, Copy
<1> QED BY <1>2 DEF NoTraces

LEMMA EmptyRingTypes ==
  /\ EmptyRing \in [Ring -> [ppf : Pages \union {NoPage}, e : Lines]]
  /\ 0 \in Ring
<1>1. 0 \in Lines
  BY ICacheAssumption DEF Lines
<1> QED BY <1>1, ICacheAssumption DEF EmptyRing, Unregistered, Ring

\* A copy keeps all but its freshness.
LEMMA AgedCopy ==
  ASSUME NEW c \in Copy, NEW page, NEW mask
  PROVE  LET a == Aged(c, page, mask) IN
           /\ a \in Copy
           /\ a.page = c.page /\ a.first = c.first /\ a.lines = c.lines /\ a.split = c.split
           /\ a.fresh <=> c.fresh /\ ~Touches(c, page, mask) /\ ~(c.split = page /\ 0 \in mask)
<1> DEFINE f == c.fresh /\ ~Touches(c, page, mask) /\ ~(c.split = page /\ 0 \in mask)
<1>1. Aged(c, page, mask) = [c EXCEPT !.fresh = f]
  BY DEF Aged
<1>2. f \in BOOLEAN
  OBVIOUS
<1> HIDE DEF f
<1>3. /\ [c EXCEPT !.fresh = f] \in Copy
      /\ [c EXCEPT !.fresh = f].page = c.page /\ [c EXCEPT !.fresh = f].first = c.first
      /\ [c EXCEPT !.fresh = f].lines = c.lines /\ [c EXCEPT !.fresh = f].split = c.split
      /\ [c EXCEPT !.fresh = f].fresh = f
  BY <1>2 DEF Copy
<1> QED BY <1>1, <1>3 DEF f

LEMMA DecodedCopy ==
  ASSUME NEW i \in Instructions, NEW st
  PROVE  /\ Decoded(i) \in Copy
         /\ i.page \in Pages /\ i.first \in Lines /\ i.mode \in Modes /\ i.page # NoPage
         /\ hash(i.first, i.mode) \in Lines
         /\ Guarded(Decoded(i), hash(i.first, i.mode), st) <=> Decoded(i).lines \subseteq st[i.page]
<1>1. /\ i \in [page : Pages, first : Lines, last : Lines, mode : Modes]
      /\ i.last \in {i.first, i.first + 1}
  BY ICacheAssumption
<1>2. i.page \in Pages /\ i.first \in Lines /\ i.last \in Lines /\ i.mode \in Modes
      /\ i.page # NoPage
  BY <1>1, ICacheAssumption
<1>3. Decoded(i) \in Copy
  BY <1>2 DEF Decoded, Copy
<1>4. i.first <= i.last /\ i.first <= i.first
  BY <1>1, <1>2 DEF Lines
<1>5. hash(i.first, i.mode) \in Lines /\ GroupOf(hash(i.first, i.mode)) <= i.first
  BY <1>2, HashInGroup
<1>6. Guarded(Decoded(i), hash(i.first, i.mode), st) <=> Decoded(i).lines \subseteq st[i.page]
  BY <1>2, <1>4, <1>5 DEF Guarded, Decoded
<1> QED BY <1>2, <1>3, <1>5, <1>6

\* handleSMC only drops entries.
LEMMA SmcTypes ==
  ASSUME TypeOK, NEW page \in Pages, NEW mask \in SUBSET Lines, NEW wrap \in BOOLEAN
  PROVE  /\ smc_icache(page, mask) \in [Lines -> Copy]
         /\ smc_traces(page, mask, wrap) \in [Lines -> Copy]
BY InvalidCopy DEF TypeOK, smc_icache, smc_traces

LEMMA WrittenTypes ==
  ASSUME TypeOK, NEW page \in Pages, NEW mask \in SUBSET Lines, NEW stamped,
         Written(page, mask, stamped), UNCHANGED <<stackCache, following, smp>>
  PROVE  TypeOK'
<1>1. CASE stamped /\ stamps[page] \intersect mask # {}
  <2>1. PICK wrap \in BOOLEAN :
          traceCache' = [n \in Lines |-> Aged(smc_traces(page, mask, wrap)[n], page, mask)]
    BY <1>1 DEF Written
  <2>2. traceCache' \in [Lines -> Copy]
    BY <2>1, SmcTypes, AgedCopy
  <2>3. iCache' = [n \in Lines |-> Aged(smc_icache(page, mask)[n], page, mask)]
    BY <1>1 DEF Written
  <2>4. iCache' \in [Lines -> Copy]
    BY <2>3, SmcTypes, AgedCopy
  <2>5. running' \in Copy
    BY <1>1, InvalidCopy DEF Written, TypeOK
  <2>6. /\ pageSplitIndex' \in [Ring -> [ppf : Pages \union {NoPage}, e : Lines]]
        /\ nextPageSplitIndex' \in Ring
    BY <1>1, EmptyRingTypes DEF Written
  <2>7. stamps' \in [Pages -> SUBSET Lines]
    BY <1>1 DEF Written, TypeOK
  <2> QED BY <2>2, <2>4, <2>5, <2>6, <2>7 DEF TypeOK
<1>2. CASE ~(stamped /\ stamps[page] \intersect mask # {})
  <2>1. /\ iCache' = [n \in Lines |-> Aged(iCache[n], page, mask)]
        /\ traceCache' = [n \in Lines |-> Aged(traceCache[n], page, mask)]
        /\ running' = Aged(running, page, mask)
        /\ UNCHANGED <<pageSplitIndex, nextPageSplitIndex, stamps>>
    BY <1>2 DEF Written
  <2>2. iCache' \in [Lines -> Copy] /\ traceCache' \in [Lines -> Copy] /\ running' \in Copy
    BY <2>1, AgedCopy DEF TypeOK
  <2> QED BY <2>1, <2>2 DEF TypeOK
<1> QED BY <1>1, <1>2

\* The window of the stack cache after a fetch.
LEMMA StackCacheTypes ==
  ASSUME TypeInv, NEW page
  PROVE  /\ StackCacheAfter(page) \in [page : Pages \union {NoPage}, stamped : BOOLEAN]
         /\ StackCacheAfter(page).page = NoPage => StackCacheAfter(page) = Closed
BY DEF TypeInv, TypeOK, StackOpen, StackCacheAfter, Closed

\* A body has a first instruction, of a page of code.
LEMMA FirstOfBody ==
  ASSUME NEW B \in Bodies
  PROVE  LET first == CHOOSE i \in B : \A j \in B : i.first <= j.first IN
           /\ first \in B /\ first \in Instructions
           /\ \A j \in B : /\ j \in Instructions
                           /\ j.page = first.page /\ j.mode = first.mode
                           /\ first.first <= j.first
<1> DEFINE S == {j.first : j \in B}
           first == CHOOSE i \in B : \A j \in B : i.first <= j.first
<1>1. /\ B \subseteq Instructions /\ B # {}
      /\ \A i, j \in B : i.page = j.page /\ i.mode = j.mode
  BY DEF Bodies
<1>2. \A j \in B : j.first \in Nat
  BY <1>1, DecodedCopy DEF Lines
<1>3. PICK x \in S : \A y \in S : <<y, x>> \notin OpToRel(<, Nat)
  <2>1. S \subseteq Nat /\ S # {}
    BY <1>1, <1>2
  <2> QED BY <2>1, NatLessThanWellFounded, WFMin
<1>4. \A y \in S : ~(y < x)
  BY <1>2, <1>3 DEF OpToRel
<1>5. \E i \in B : \A j \in B : i.first <= j.first
  BY <1>2, <1>4
<1>6. first \in B /\ \A j \in B : first.first <= j.first
  BY <1>5
<1> QED BY <1>1, <1>6

\* The actions that only touch the stack cache or drop entries.
LEMMA QuietTypes ==
  ASSUME TypeInv,
         \/ \E p \in Pages, m \in Masks : CpuWrite(p, m)
         \/ \E p \in Pages : PageWrite(p)
         \/ \E p \in Pages : StackPrefetch(p)
         \/ InvalidateStackCache
         \/ \E m \in Masks : StackWrite(m)
         \/ \E i \in Instructions : ICacheMiss(i)
         \/ \E n \in Lines : TraceHit(n)
         \/ EndTrace
         \/ \E p \in Pages : TlbFlush(p)
         \/ FlushICaches
         \/ UNCHANGED vars
  PROVE  TypeInv'
<1> USE DEF TypeInv, StackOpen
<1>0. Masks \subseteq SUBSET Lines /\ Lines \in SUBSET Lines
  BY ICacheAssumption
<1>1. CASE \E p \in Pages, m \in Masks : CpuWrite(p, m)
  BY <1>0, <1>1, WrittenTypes DEF CpuWrite
<1>2. CASE \E p \in Pages : PageWrite(p)
  BY <1>0, <1>2, WrittenTypes DEF PageWrite
<1>3. CASE \E p \in Pages : StackPrefetch(p)
  <2>1. PICK p \in Pages : StackPrefetch(p)
    BY <1>3
  <2>2. stackCache' = [page |-> p, stamped |-> smp \/ stamps[p] # {}]
    BY <2>1 DEF StackPrefetch
  <2>3. stackCache' \in [page : Pages \union {NoPage}, stamped : BOOLEAN] /\ stackCache'.page # NoPage
    BY <2>2, ICacheAssumption
  <2> QED BY <2>1, <2>3 DEF StackPrefetch, TypeOK, caches
<1>4. CASE InvalidateStackCache
  BY <1>4 DEF InvalidateStackCache, TypeOK, caches, Closed
<1>5. CASE \E m \in Masks : StackWrite(m)
  <2>1. PICK m \in Masks : StackWrite(m)
    BY <1>5
  <2>2. stackCache.page \in Pages
    BY <2>1 DEF StackWrite, TypeOK
  <2> QED BY <1>0, <2>1, <2>2, WrittenTypes DEF StackWrite
<1>6. CASE \E i \in Instructions : ICacheMiss(i)
  <2>1. PICK i \in Instructions : ICacheMiss(i)
    BY <1>6
  <2>2. iCache' \in [Lines -> Copy]
    BY <2>1, DecodedCopy DEF ICacheMiss, TypeOK
  <2>3. stamps' \in [Pages -> SUBSET Lines]
    <3>1. Decoded(i).lines \subseteq Lines
      BY DecodedCopy DEF Copy
    <3> QED BY <2>1, <3>1 DEF ICacheMiss, TypeOK, Marked
  <2>4. /\ stackCache' \in [page : Pages \union {NoPage}, stamped : BOOLEAN]
        /\ stackCache'.page = NoPage => stackCache' = Closed
    BY <2>1, StackCacheTypes DEF ICacheMiss
  <2> QED BY <2>1, <2>2, <2>3, <2>4 DEF ICacheMiss, TypeOK, Closed
<1>7. CASE \E n \in Lines : TraceHit(n)
  BY <1>7 DEF TraceHit, TypeOK, caches, Closed
<1>8. CASE EndTrace
  BY <1>8, InvalidCopy DEF EndTrace, TypeOK, caches, Closed
<1>9. CASE \E p \in Pages : TlbFlush(p)
  BY <1>9, InvalidCopy, EmptyRingTypes DEF TlbFlush, TypeOK, Closed
<1>10. CASE FlushICaches
  BY <1>10, InvalidCopy, EmptyRingTypes DEF FlushICaches, TypeOK, Closed
<1>11. CASE UNCHANGED vars
  BY <1>11 DEF vars, caches, TypeOK, Closed
<1> QED BY <1>1, <1>2, <1>3, <1>4, <1>5, <1>6, <1>7, <1>8, <1>9, <1>10, <1>11

LEMMA SplitMissTypes ==
  ASSUME TypeInv, NEW b \in Boundaries, SplitMiss(b)
  PROVE  TypeInv'
<1> DEFINE slot == hash(LastLine, b.mode)
<1>1. LastLine \in Lines /\ 0 \in Lines /\ b.page \in Pages /\ b.mode \in Modes
  BY ICacheAssumption DEF LastLine, Lines
<1>2. slot \in Lines
  BY <1>1, HashInGroup
<1>3. Crossing(b) \in Copy
  BY <1>1 DEF Crossing, Copy, TypeInv, TypeOK
<1>4. iCache' \in [Lines -> Copy] /\ traceCache' \in [Lines -> Copy]
  BY <1>2, <1>3, InvalidCopy DEF SplitMiss, TypeInv, TypeOK
<1>5. stamps' \in [Pages -> SUBSET Lines]
  BY <1>1 DEF SplitMiss, TypeInv, TypeOK, Marked
<1>6. nextPageSplitIndex' \in Ring
  BY ICacheAssumption DEF SplitMiss, NextSplit, Ring, TypeInv, TypeOK
<1>7. pageSplitIndex' \in [Ring -> [ppf : Pages \union {NoPage}, e : Lines]]
  BY <1>2 DEF SplitMiss, TypeInv, TypeOK
<1>8. /\ stackCache' \in [page : Pages \union {NoPage}, stamped : BOOLEAN]
      /\ stackCache'.page = NoPage => stackCache' = Closed
  BY StackCacheTypes DEF SplitMiss
<1> QED
  BY <1>4, <1>5, <1>6, <1>7, <1>8 DEF SplitMiss, TypeInv, TypeOK, StackOpen, Closed

\* More stamps guard as well.
LEMMA GuardedMonotone ==
  ASSUME NEW c \in Copy, NEW n, NEW st, NEW more, Guarded(c, n, st),
         \A p \in Pages : st[p] \subseteq more[p]
  PROVE  Guarded(c, n, more)
BY DEF Guarded, Copy

\* Code found in the page of the stack cache closes it.
LEMMA StackKnowsAfter ==
  ASSUME TypeInv, StackKnows, NEW page \in Pages, NEW st, NEW s,
         s = StackCacheAfter(page), \A p \in Pages \ {page} : st[p] = stamps[p]
  PROVE  s.page # NoPage /\ ~s.stamped => ~smp /\ st[s.page] = {}
BY DEF TypeInv, TypeOK, StackKnows, StackCacheAfter, Closed

\* serveTraceCacheMiss: the copies that a trace is made of belong to its page
\* and lie behind its start.
LEMMA TraceMissKeeps ==
  ASSUME TypeInv, NEW B \in Bodies, TraceMiss(B)
  PROVE  TypeInv' /\ (CodeInv => CodeInv')
<1> DEFINE first == CHOOSE i \in B : \A j \in B : i.first <= j.first
           slot == hash(first.first, first.mode)
           new == {i \in B : ~find_entry(iCache, i.page, i.first, i.mode)}
           kept(full) == [(IF full THEN NoTraces ELSE traceCache) EXCEPT ![slot] = Invalid]
           copies(merged) == {Fetched(i) : i \in B} \union merged
           lines(merged) == UNION {c.lines : c \in copies(merged)}
           trace(merged) == [page |-> first.page, first |-> first.first, lines |-> lines(merged),
                             split |-> NoPage, fresh |-> \A c \in copies(merged) : c.fresh]
           decoded == UNION {Decoded(i).lines : i \in new}
<1>0. PICK full \in BOOLEAN : \E merged \in {{}} \union {{t} : t \in Mergeable(B, kept(full))} :
        /\ traceCache' = [kept(full) EXCEPT ![slot] = trace(merged)]
        /\ running' = trace(merged)
        /\ stamps' = Marked(first.page, lines(merged) \union decoded)
        /\ IF full THEN pageSplitIndex' = EmptyRing /\ nextPageSplitIndex' = 0
                   ELSE UNCHANGED <<pageSplitIndex, nextPageSplitIndex>>
  BY DEF TraceMiss
<1>1. PICK merged \in {{}} \union {{t} : t \in Mergeable(B, kept(full))} :
        /\ traceCache' = [kept(full) EXCEPT ![slot] = trace(merged)]
        /\ running' = trace(merged)
        /\ stamps' = Marked(first.page, lines(merged) \union decoded)
        /\ IF full THEN pageSplitIndex' = EmptyRing /\ nextPageSplitIndex' = 0
                   ELSE UNCHANGED <<pageSplitIndex, nextPageSplitIndex>>
  BY <1>0
<1>2. /\ iCache' = [n \in Lines |->
                      IF \E i \in new : hash(i.first, i.mode) = n
                      THEN Decoded(CHOOSE i \in new : hash(i.first, i.mode) = n)
                      ELSE iCache[n]]
      /\ stackCache' = StackCacheAfter(first.page)
      /\ UNCHANGED <<following, smp>>
  BY DEF TraceMiss
<1>3. /\ first \in B /\ first \in Instructions
      /\ \A j \in B : /\ j \in Instructions
                      /\ j.page = first.page /\ j.mode = first.mode
                      /\ first.first <= j.first
  BY FirstOfBody
<1> HIDE DEF first
<1>4. /\ first.page \in Pages /\ first.page # NoPage /\ first.first \in Lines
      /\ slot \in Lines /\ GroupOf(slot) <= first.first
  BY <1>3, DecodedCopy, HashInGroup
<1>5. kept(full) \in [Lines -> Copy]
  BY InvalidCopy DEF TypeInv, TypeOK
<1>6. ASSUME NEW i \in B
      PROVE  Fetched(i) \in Copy /\ Fetched(i).page = first.page /\ Fetched(i).first = i.first
  <2>1. hash(i.first, i.mode) \in Lines /\ Decoded(i) \in Copy
    BY <1>3, DecodedCopy
  <2>2. CASE find_entry(iCache, i.page, i.first, i.mode)
    BY <1>3, <2>1, <2>2 DEF Fetched, find_entry, TypeInv, TypeOK
  <2>3. CASE ~find_entry(iCache, i.page, i.first, i.mode)
    BY <1>3, <2>1, <2>3 DEF Fetched, Decoded
  <2> QED BY <2>2, <2>3
<1>7. ASSUME NEW t \in merged
      PROVE  /\ \E n \in Lines : t = kept(full)[n]
             /\ t \in Copy /\ t.page = first.page /\ first.first <= t.first
  <2>1. t \in Mergeable(B, kept(full))
    BY <1>7
  <2>2. PICK line \in Lines, i \in B : t = kept(full)[hash(line, i.mode)]
    BY <2>1 DEF Mergeable
  <2>3. hash(line, i.mode) \in Lines
    BY <1>3, DecodedCopy, HashInGroup
  <2>4. t.page = first.page /\ first.first < t.first
    BY <2>1, <1>3 DEF Mergeable
  <2>5. t \in Copy
    BY <2>2, <2>3, <1>5
  <2>6. first.first \in Nat /\ t.first \in Nat
    BY <1>4, <2>5 DEF Lines, Copy
  <2> QED BY <2>2, <2>3, <2>4, <2>5, <2>6
<1>8. \A c \in copies(merged) : c \in Copy /\ c.page = first.page /\ first.first <= c.first
  BY <1>3, <1>6, <1>7
<1>9. lines(merged) \subseteq Lines /\ decoded \subseteq Lines
  <2>1. \A c \in copies(merged) : c.lines \subseteq Lines
    BY <1>8 DEF Copy
  <2>2. \A i \in new : Decoded(i).lines \subseteq Lines
    BY <1>3, DecodedCopy DEF Copy
  <2> QED BY <2>1, <2>2
<1>10. trace(merged) \in Copy
  BY <1>4, <1>9 DEF Copy
<1> HIDE DEF copies, lines, decoded
<1>11. stamps' \in [Pages -> SUBSET Lines]
       /\ stamps' = [stamps EXCEPT ![first.page] = @ \union (lines(merged) \union decoded)]
  BY <1>1, <1>4, <1>9 DEF Marked, TypeInv, TypeOK
<1>12. ASSUME NEW n \in Lines, \E i \in new : hash(i.first, i.mode) = n
       PROVE  \E i \in new : iCache'[n] = Decoded(i) /\ hash(i.first, i.mode) = n
  BY <1>2, <1>12
<1>13. iCache' \in [Lines -> Copy]
  <2>1. \A i \in new : Decoded(i) \in Copy
    BY <1>3, DecodedCopy
  <2>2. \A n \in Lines : iCache'[n] \in Copy
    BY <1>2, <1>12, <2>1 DEF TypeInv, TypeOK
  <2> QED BY <1>2, <2>2
<1>14. TypeInv'
  <2>1. traceCache' \in [Lines -> Copy] /\ running' \in Copy
    BY <1>1, <1>5, <1>10
  <2>2. /\ pageSplitIndex' \in [Ring -> [ppf : Pages \union {NoPage}, e : Lines]]
        /\ nextPageSplitIndex' \in Ring
    BY <1>1, EmptyRingTypes DEF TypeInv, TypeOK
  <2>3. /\ stackCache' \in [page : Pages \union {NoPage}, stamped : BOOLEAN]
        /\ stackCache'.page = NoPage => stackCache' = Closed
    BY <1>2, StackCacheTypes
  <2> QED BY <1>2, <1>11, <1>13, <2>1, <2>2, <2>3 DEF TypeInv, TypeOK, StackOpen, Closed

<1>15. ASSUME CodeInv PROVE CodeInv'
  <2> USE <1>15 DEF CodeInv
  <2>1. ASSUME NEW i \in B
        PROVE  Fetched(i).fresh /\ \A line \in Fetched(i).lines : Fetched(i).first <= line
    <3>1. hash(i.first, i.mode) \in Lines /\ i.page # NoPage
      BY <1>3, DecodedCopy
    <3>2. CASE find_entry(iCache, i.page, i.first, i.mode)
      BY <3>1, <3>2 DEF Fetched, find_entry, CachesGuarded, Guarded, AllFresh
    <3>3. CASE ~find_entry(iCache, i.page, i.first, i.mode)
      <4>1. Fetched(i) = Decoded(i)
        BY <3>3 DEF Fetched
      <4>2. Guarded(Decoded(i), hash(i.first, i.mode), [p \in Pages |-> Lines])
        <5>1. Decoded(i).lines \subseteq [p \in Pages |-> Lines][i.page]
          BY <1>3, DecodedCopy DEF Copy
        <5> QED BY <1>3, <5>1, DecodedCopy
      <4> QED BY <3>1, <4>1, <4>2 DEF Guarded, Decoded
    <3> QED BY <3>2, <3>3
  <2>2. ASSUME NEW t \in merged
        PROVE  t.fresh /\ \A line \in t.lines : t.first <= line
    <3>1. PICK n \in Lines : t = kept(full)[n]
      BY <1>7
    <3>2. t = Invalid \/ t = traceCache[n]
      BY <3>1 DEF NoTraces, TypeInv, TypeOK
    <3>3. t = traceCache[n] /\ t.page # NoPage
      BY <1>4, <1>7, <3>2 DEF Invalid
    <3> QED BY <3>3 DEF CachesGuarded, Guarded, AllFresh
  <2>3. \A c \in copies(merged) : c.fresh /\ \A line \in c.lines : c.first <= line
    BY <2>1, <2>2 DEF copies
  <2>4. trace(merged).fresh /\ \A line \in lines(merged) : first.first <= line
    <3>1. ASSUME NEW c \in copies(merged), NEW line \in c.lines PROVE first.first <= line
      <4>1. first.first \in Nat /\ c.first \in Nat /\ line \in Nat
        BY <1>4, <1>8 DEF Copy, Lines
      <4> QED BY <1>8, <2>3, <4>1
    <3> QED BY <2>3, <3>1 DEF lines
  <2>5. /\ \A p \in Pages : stamps[p] \subseteq stamps'[p]
        /\ \A p \in Pages \ {first.page} : stamps'[p] = stamps[p]
        /\ lines(merged) \subseteq stamps'[first.page]
        /\ decoded \subseteq stamps'[first.page]
    BY <1>4, <1>11 DEF TypeInv, TypeOK
  <2>6. Guarded(trace(merged), slot, stamps')
    BY <1>4, <2>4, <2>5 DEF Guarded
  <2>7. ASSUME NEW n \in Lines
        PROVE  /\ Guarded(iCache'[n], n, stamps')
               /\ iCache'[n].split = NoPage /\ iCache'[n].fresh
    <3>1. CASE \E i \in new : hash(i.first, i.mode) = n
      <4>1. PICK i \in new : iCache'[n] = Decoded(i) /\ hash(i.first, i.mode) = n
        BY <1>12, <3>1
      <4>2. i \in Instructions /\ i.page = first.page
        BY <1>3
      <4>3. Decoded(i).lines \subseteq stamps'[i.page]
        BY <2>5, <4>2 DEF decoded
      <4>4. Guarded(Decoded(i), hash(i.first, i.mode), stamps')
        BY <4>2, <4>3, DecodedCopy
      <4> QED BY <4>1, <4>4 DEF Decoded
    <3>2. CASE ~\E i \in new : hash(i.first, i.mode) = n
      <4>1. iCache'[n] = iCache[n] /\ iCache[n] \in Copy
        BY <1>2, <3>2 DEF TypeInv, TypeOK
      <4> QED BY <2>5, <4>1, GuardedMonotone DEF CachesGuarded, AllFresh
    <3> QED BY <3>1, <3>2
  <2>8. ASSUME NEW n \in Lines
        PROVE  /\ Guarded(traceCache'[n], n, stamps') /\ traceCache'[n].fresh
               /\ SplitGuarded(traceCache[n], n)'
    <3>1. CASE n = slot
      <4>1. traceCache'[n] = trace(merged)
        BY <1>1, <1>4, <1>5, <3>1
      <4> QED BY <2>4, <2>6, <3>1, <4>1 DEF SplitGuarded
    <3>2. CASE n # slot /\ full
      <4>1. traceCache'[n] = Invalid
        BY <1>1, <1>5, <3>2 DEF NoTraces
      <4> QED BY <4>1 DEF Invalid, Guarded, SplitGuarded
    <3>3. CASE n # slot /\ ~full
      <4>1. traceCache'[n] = traceCache[n] /\ traceCache[n] \in Copy
        BY <1>1, <1>5, <3>3 DEF TypeInv, TypeOK
      <4>2. SplitEntries' = SplitEntries
        BY <1>1, <3>3 DEF SplitEntries
      <4>3. SplitGuarded(traceCache[n], n)'
        BY <1>2, <2>5, <4>1, <4>2 DEF SplitGuarded, CachesGuarded, Copy
      <4> QED BY <2>5, <4>1, <4>3, GuardedMonotone DEF CachesGuarded, AllFresh
    <3> QED BY <3>1, <3>2, <3>3
  <2>9. CachesGuarded'
    BY <2>7, <2>8 DEF CachesGuarded
  <2>10. RunningGuarded' /\ running'.fresh
    BY <1>1, <1>4, <2>4, <2>5 DEF RunningGuarded
  <2>11. StackKnows'
    BY <1>2, <1>4, <2>5, StackKnowsAfter DEF StackKnows
  <2>12. AllFresh'
    BY <2>7, <2>8, <2>10 DEF AllFresh
  <2> QED BY <1>14, <2>9, <2>10, <2>11, <2>12
<1> QED BY <1>14, <1>15

-----------------------------------------------------------------------------
(* Writes. *)

\* A guarded copy that a write touches is where handleSMC looks, and has a
\* stamp that the write meets.
LEMMA TouchedIsScanned ==
  ASSUME TypeOK, NEW n \in Lines, NEW c \in Copy, Guarded(c, n, stamps),
         NEW page \in Pages, NEW mask \in SUBSET Lines, Touches(c, page, mask)
  PROVE  n \in Scanned(mask) /\ stamps[page] \intersect mask # {}
<1>1. PICK line \in c.lines \intersect mask : c.page = page
  BY DEF Touches
<1>2. GroupOf(n) <= c.first /\ c.first <= line /\ line \in stamps[page]
  BY <1>1, ICacheAssumption DEF Guarded
<1>3. line \in Nat /\ c.first \in Nat /\ GroupOf(n) \in Int
  <2>1. n \in Nat /\ n % Group \in Nat
    BY ICacheAssumption, Division DEF Lines
  <2> QED BY <1>1, <2>1 DEF Lines, Copy, GroupOf
<1>4. GroupOf(n) <= line
  BY <1>2, <1>3
<1> QED BY <1>1, <1>2, <1>4 DEF Scanned, GroupOf

\* A write that meets a stamp.
LEMMA StampedWriteKeeps ==
  ASSUME CodeInv, NEW page \in Pages, NEW mask \in SUBSET Lines,
         Written(page, mask, TRUE), stamps[page] \intersect mask # {},
         UNCHANGED <<stackCache, following, smp>>
  PROVE  CodeInv'
<1> USE DEF CodeInv
<1>1. PICK wrap \in BOOLEAN :
        traceCache' = [n \in Lines |-> Aged(smc_traces(page, mask, wrap)[n], page, mask)]
  BY DEF Written
<1>2. /\ iCache' = [n \in Lines |-> Aged(smc_icache(page, mask)[n], page, mask)]
      /\ pageSplitIndex' = EmptyRing /\ nextPageSplitIndex' = 0
      /\ stamps' = [stamps EXCEPT ![page] = @ \ mask]
      /\ running' = IF running.page = page THEN Invalid ELSE running
  BY DEF Written
<1>3. TypeOK /\ TypeOK'
  BY WrittenTypes DEF TypeInv
<1>4. /\ smc_icache(page, mask) \in [Lines -> Copy]
      /\ smc_traces(page, mask, wrap) \in [Lines -> Copy]
  BY <1>3, SmcTypes
\* An untouched copy stays as it is, stamps included.
<1>5. ASSUME NEW c \in Copy, NEW n \in Lines, Guarded(c, n, stamps), c.fresh, c.split = NoPage,
             ~Touches(c, page, mask)
      PROVE  LET a == Aged(c, page, mask)
             IN  a.fresh /\ Guarded(a, n, stamps') /\ a.split = NoPage
  <2>1. Aged(c, page, mask).fresh /\ Aged(c, page, mask).split = NoPage
    BY <1>5, AgedCopy, ICacheAssumption
  <2>2. \A p \in Pages : stamps'[p] = IF p = page THEN stamps[p] \ mask ELSE stamps[p]
    BY <1>2, <1>3 DEF TypeOK
  <2>3. c.page # NoPage => c.page \in Pages
    BY DEF Copy
  <2>4. ASSUME NEW line \in c.lines, c.page # NoPage, line \in stamps[c.page]
        PROVE  line \in stamps'[c.page]
    BY <1>5, <2>2, <2>3, <2>4 DEF Touches
  <2>5. Guarded(c, n, stamps')
    BY <1>5, <2>4 DEF Guarded
  <2>6. /\ Aged(c, page, mask).page = c.page /\ Aged(c, page, mask).first = c.first
        /\ Aged(c, page, mask).lines = c.lines
    BY AgedCopy
  <2>7. Guarded(Aged(c, page, mask), n, stamps')
    BY <2>5, <2>6 DEF Guarded
  <2> QED BY <2>1, <2>7
<1>6. ~Touches(Invalid, page, mask) /\ Invalid.fresh /\ Invalid.split = NoPage
      /\ \A n : Guarded(Invalid, n, stamps)
  BY DEF Touches, Invalid, Guarded
<1>7. ASSUME NEW n \in Lines
      PROVE  Guarded(iCache'[n], n, stamps') /\ iCache'[n].split = NoPage /\ iCache'[n].fresh
  <2> DEFINE c == smc_icache(page, mask)[n]
  <2>1. iCache'[n] = Aged(c, page, mask) /\ c \in Copy
    BY <1>2, <1>4
  <2>2. Guarded(c, n, stamps) /\ c.fresh /\ c.split = NoPage /\ ~Touches(c, page, mask)
    <3>1. CASE n \in Scanned(mask) /\ Touches(iCache[n], page, mask)
      BY <1>6, <3>1 DEF smc_icache
    <3>2. CASE ~(n \in Scanned(mask) /\ Touches(iCache[n], page, mask))
      <4>1. c = iCache[n]
        BY <3>2 DEF smc_icache
      <4>2. ~Touches(iCache[n], page, mask)
        BY <1>3, <3>2, TouchedIsScanned DEF CachesGuarded, TypeOK
      <4> QED BY <4>1, <4>2 DEF CachesGuarded, AllFresh
    <3> QED BY <3>1, <3>2
  <2> HIDE DEF c
  <2> QED BY <1>5, <2>1, <2>2
<1>8. ASSUME NEW n \in Lines
      PROVE  Guarded(traceCache'[n], n, stamps') /\ traceCache'[n].split = NoPage
             /\ traceCache'[n].fresh
  <2> DEFINE c == smc_traces(page, mask, wrap)[n]
  <2>1. traceCache'[n] = Aged(c, page, mask) /\ c \in Copy
    BY <1>1, <1>4
  <2>2. Guarded(c, n, stamps) /\ c.fresh /\ c.split = NoPage /\ ~Touches(c, page, mask)
    <3>1. CASE c = Invalid
      BY <1>6, <3>1
    <3>2. CASE c # Invalid
      <4>1. /\ c = traceCache[n] /\ n \notin SplitEntries
            /\ ~(n \in Scanned(mask) /\ Touches(traceCache[n], page, mask))
        BY <3>2 DEF smc_traces
      <4>2. ~Touches(traceCache[n], page, mask)
        BY <1>3, <4>1, TouchedIsScanned DEF CachesGuarded, TypeOK
      <4>3. traceCache[n].split = NoPage
        BY <4>1 DEF CachesGuarded, SplitGuarded
      <4> QED BY <4>1, <4>2, <4>3 DEF CachesGuarded, AllFresh
    <3> QED BY <3>1, <3>2
  <2> HIDE DEF c
  <2> QED BY <1>5, <2>1, <2>2
<1>9. CachesGuarded'
  BY <1>7, <1>8 DEF CachesGuarded, SplitGuarded
<1>10. RunningGuarded' /\ running'.fresh
  BY <1>2, <1>3 DEF RunningGuarded, AllFresh, TypeOK, Copy, Invalid
<1>11. StackKnows'
  BY <1>2, <1>3 DEF StackKnows, TypeOK
<1>12. AllFresh'
  BY <1>7, <1>8, <1>10 DEF AllFresh
<1>13. TypeInv'
  BY <1>3 DEF TypeInv, StackOpen, Closed
<1> QED BY <1>9, <1>10, <1>11, <1>12, <1>13

\* A write that meets no stamp, or does not look, touches no copy.
LEMMA UnstampedWriteKeeps ==
  ASSUME CodeInv, NEW page \in Pages, NEW mask \in SUBSET Lines, NEW stamped,
         Written(page, mask, stamped), stamps[page] \intersect mask = {},
         UNCHANGED <<stackCache, following, smp>>
  PROVE  CodeInv'
<1> USE DEF CodeInv
<1>1. /\ iCache' = [n \in Lines |-> Aged(iCache[n], page, mask)]
      /\ traceCache' = [n \in Lines |-> Aged(traceCache[n], page, mask)]
      /\ running' = Aged(running, page, mask)
      /\ UNCHANGED <<pageSplitIndex, nextPageSplitIndex, stamps>>
  BY DEF Written
<1>2. TypeOK /\ TypeOK'
  BY WrittenTypes DEF TypeInv
<1>3. ASSUME NEW n \in Lines
      PROVE  Guarded(iCache'[n], n, stamps') /\ iCache'[n].split = NoPage /\ iCache'[n].fresh
  <2>1. iCache[n] \in Copy /\ iCache'[n] = Aged(iCache[n], page, mask)
    BY <1>1, <1>2 DEF TypeOK
  <2>2. Guarded(iCache[n], n, stamps) /\ iCache[n].split = NoPage /\ iCache[n].fresh
    BY DEF CachesGuarded, AllFresh
  <2>3. ~Touches(iCache[n], page, mask)
    BY <1>2, <2>1, <2>2, TouchedIsScanned
  <2> QED BY <1>1, <2>1, <2>2, <2>3, AgedCopy, ICacheAssumption DEF Guarded
<1>4. ASSUME NEW n \in Lines
      PROVE  Guarded(traceCache'[n], n, stamps') /\ traceCache'[n].split = traceCache[n].split
             /\ traceCache'[n].fresh
  <2>1. traceCache[n] \in Copy /\ traceCache'[n] = Aged(traceCache[n], page, mask)
    BY <1>1, <1>2 DEF TypeOK
  <2>2. /\ Guarded(traceCache[n], n, stamps) /\ traceCache[n].fresh
        /\ SplitGuarded(traceCache[n], n)
    BY DEF CachesGuarded, AllFresh
  <2>3. ~Touches(traceCache[n], page, mask)
    BY <1>2, <2>1, <2>2, TouchedIsScanned
  <2>4. ~(traceCache[n].split = page /\ 0 \in mask)
    BY <2>2, ICacheAssumption DEF SplitGuarded
  <2> QED BY <1>1, <2>1, <2>2, <2>3, <2>4, AgedCopy DEF Guarded
<1>5. SplitEntries' = SplitEntries
  BY <1>1 DEF SplitEntries
<1>6. CachesGuarded'
  BY <1>1, <1>3, <1>4, <1>5 DEF CachesGuarded, SplitGuarded
<1>7. RunningGuarded' /\ running'.fresh
  <2>1. running \in Copy /\ running.fresh /\ running.split = NoPage
    BY <1>2 DEF TypeOK, RunningGuarded, AllFresh
  <2>2. ~Touches(running, page, mask)
    BY ICacheAssumption DEF Touches, RunningGuarded
  <2> QED BY <1>1, <2>1, <2>2, AgedCopy, ICacheAssumption DEF RunningGuarded
<1>8. StackKnows'
  BY <1>1 DEF StackKnows
<1>9. AllFresh'
  BY <1>3, <1>4, <1>7 DEF AllFresh
<1>10. TypeInv'
  BY <1>2 DEF TypeInv, StackOpen, Closed
<1> QED BY <1>6, <1>7, <1>8, <1>9, <1>10

LEMMA WrittenKeeps ==
  ASSUME CodeInv, NEW page \in Pages, NEW mask \in SUBSET Lines, NEW stamped \in BOOLEAN,
         Written(page, mask, stamped), ~stamped => stamps[page] = {},
         UNCHANGED <<stackCache, following, smp>>
  PROVE  CodeInv'
<1>1. CASE stamps[page] \intersect mask = {}
  BY <1>1, UnstampedWriteKeeps
<1>2. CASE stamps[page] \intersect mask # {}
  <2>1. stamped = TRUE
    BY <1>2
  <2> QED BY <1>2, <2>1, StampedWriteKeeps
<1> QED BY <1>1, <1>2

-----------------------------------------------------------------------------
(* Fetches and flushes. *)

\* The trace of an instruction that crosses a page boundary is registered in
\* the ring; the one whose place it takes is dropped.
LEMMA SplitMissKeeps ==
  ASSUME CodeInv, ~SplitOntoStack, NEW b \in Boundaries, SplitMiss(b)
  PROVE  CodeInv'
<1> DEFINE slot == hash(LastLine, b.mode)
           evicted == pageSplitIndex[nextPageSplitIndex]
<1>1. TypeOK /\ TypeInv /\ TypeInv'
  BY SplitMissTypes DEF CodeInv, TypeInv
<1>2. LastLine \in Lines /\ 0 \in Lines /\ b.page \in Pages /\ b.mode \in Modes /\ b.page # NoPage
  BY ICacheAssumption DEF LastLine, Lines
<1>3. slot \in Lines /\ GroupOf(slot) <= LastLine
  BY <1>2, HashInGroup
<1>4. following \in Pages /\ following # NoPage
  BY <1>1, ICacheAssumption DEF TypeOK
<1>5. /\ iCache' = [iCache EXCEPT ![slot] = Invalid]
      /\ stackCache' = StackCacheAfter(b.page)
      /\ smp \/ StackCacheAfter(b.page).page # following
      /\ running = Invalid /\ running' = running /\ following' = following /\ smp' = smp
  BY DEF SplitMiss
<1>6. CASE /\ traceCache' = [traceCache EXCEPT ![slot] = Invalid]
           /\ UNCHANGED <<stamps, pageSplitIndex, nextPageSplitIndex>>
  <2>1. SplitEntries' = SplitEntries
    BY <1>6 DEF SplitEntries
  <2>2. \A n \in Lines : /\ iCache'[n] \in {iCache[n], Invalid}
                         /\ traceCache'[n] \in {traceCache[n], Invalid}
    BY <1>1, <1>5, <1>6 DEF TypeOK
  <2>3. CachesGuarded' /\ AllFresh'
    BY <1>5, <1>6, <2>1, <2>2 DEF CodeInv, CachesGuarded, AllFresh, Guarded, SplitGuarded, Invalid
  <2>4. RunningGuarded'
    BY <1>5 DEF RunningGuarded, Invalid
  <2>5. StackKnows'
    BY <1>1, <1>2, <1>5, <1>6, StackKnowsAfter DEF StackKnows, CodeInv
  <2> QED BY <1>1, <2>3, <2>4, <2>5 DEF CodeInv
<1>7. CASE /\ traceCache' = [n \in Lines |->
                               IF evicted.ppf # NoPage /\ n = evicted.e THEN Invalid
                               ELSE IF n = slot THEN Crossing(b) ELSE traceCache[n]]
           /\ stamps' = [Marked(b.page, {LastLine}) EXCEPT ![following] = @ \union {0}]
           /\ pageSplitIndex' = [pageSplitIndex EXCEPT
                ![nextPageSplitIndex] = [ppf |-> following, e |-> slot]]
  <2>1. /\ \A p \in Pages : stamps[p] \subseteq stamps'[p]
        /\ \A p \in Pages \ {b.page, following} : stamps'[p] = stamps[p]
        /\ LastLine \in stamps'[b.page] /\ 0 \in stamps'[following]
    BY <1>1, <1>2, <1>4, <1>7 DEF TypeOK, Marked
  <2>2. /\ pageSplitIndex'[nextPageSplitIndex] = [ppf |-> following, e |-> slot]
        /\ nextPageSplitIndex \in Ring
        /\ \A k \in Ring \ {nextPageSplitIndex} : pageSplitIndex'[k] = pageSplitIndex[k]
    BY <1>1, <1>7 DEF TypeOK
  <2>3. slot \in SplitEntries'
    BY <1>4, <2>2 DEF SplitEntries
  <2>4. ASSUME NEW n \in SplitEntries, ~(evicted.ppf # NoPage /\ n = evicted.e)
        PROVE  n \in SplitEntries'
    <3>1. PICK k \in Ring : pageSplitIndex[k].ppf # NoPage /\ n = pageSplitIndex[k].e
      BY DEF SplitEntries
    <3>2. k # nextPageSplitIndex
      BY <2>4, <3>1
    <3>3. pageSplitIndex'[k] = pageSplitIndex[k]
      BY <2>2, <3>2
    <3> QED BY <3>1, <3>3 DEF SplitEntries
  <2>5. Guarded(Crossing(b), slot, stamps')
    <3>1. LastLine <= LastLine
      BY <1>2 DEF Lines
    <3> QED BY <1>3, <2>1, <3>1 DEF Guarded, Crossing
  <2>6. ASSUME NEW n \in Lines
        PROVE  Guarded(iCache'[n], n, stamps') /\ iCache'[n].split = NoPage /\ iCache'[n].fresh
    <3>1. CASE n = slot
      <4>1. iCache'[n] = Invalid
        BY <1>1, <1>5, <3>1 DEF TypeOK
      <4> QED BY <4>1 DEF Invalid, Guarded
    <3>2. CASE n # slot
      <4>1. iCache'[n] = iCache[n] /\ iCache[n] \in Copy
        BY <1>1, <1>5, <3>2 DEF TypeOK
      <4> QED BY <2>1, <4>1, GuardedMonotone DEF CodeInv, CachesGuarded, AllFresh
    <3> QED BY <3>1, <3>2
  <2>7. ASSUME NEW n \in Lines
        PROVE  /\ Guarded(traceCache'[n], n, stamps') /\ traceCache'[n].fresh
               /\ SplitGuarded(traceCache[n], n)'
    <3>1. CASE evicted.ppf # NoPage /\ n = evicted.e
      <4>1. traceCache'[n] = Invalid
        BY <1>7, <3>1
      <4> QED BY <4>1 DEF Invalid, Guarded, SplitGuarded
    <3>2. CASE ~(evicted.ppf # NoPage /\ n = evicted.e) /\ n = slot
      <4>1. traceCache'[n] = Crossing(b)
        BY <1>7, <3>2
      <4>2. SplitGuarded(traceCache[n], n)'
        BY <1>5, <2>1, <2>3, <3>2, <4>1 DEF SplitGuarded, Crossing
      <4> QED BY <2>5, <3>2, <4>1, <4>2 DEF Crossing
    <3>3. CASE ~(evicted.ppf # NoPage /\ n = evicted.e) /\ n # slot
      <4>1. traceCache'[n] = traceCache[n] /\ traceCache[n] \in Copy
        BY <1>1, <1>7, <3>3 DEF TypeOK
      <4>2. SplitGuarded(traceCache[n], n)'
        BY <1>4, <1>5, <2>1, <2>4, <3>3, <4>1 DEF SplitGuarded, CodeInv, CachesGuarded
      <4> QED BY <2>1, <4>1, <4>2, GuardedMonotone DEF CodeInv, CachesGuarded, AllFresh
    <3> QED BY <3>1, <3>2, <3>3
  <2>8. CachesGuarded'
    BY <2>6, <2>7 DEF CachesGuarded
  <2>9. RunningGuarded' /\ running'.fresh
    BY <1>5 DEF RunningGuarded, Invalid
  <2>10. StackKnows'
    BY <1>1, <1>2, <1>5, <2>1
    DEF StackKnows, CodeInv, StackCacheAfter, Closed, TypeOK
  <2>11. AllFresh'
    BY <2>6, <2>7, <2>9 DEF AllFresh
  <2> QED BY <1>1, <2>8, <2>9, <2>10, <2>11 DEF CodeInv
<1> QED BY <1>6, <1>7 DEF SplitMiss

LEMMA ICacheMissKeeps ==
  ASSUME CodeInv, NEW i \in Instructions, ICacheMiss(i)
  PROVE  CodeInv'
<1> DEFINE slot == hash(i.first, i.mode)
<1>1. TypeOK /\ TypeInv /\ TypeInv'
  BY QuietTypes DEF CodeInv, TypeInv
<1>2. /\ i.page \in Pages /\ i.page # NoPage /\ slot \in Lines
      /\ Decoded(i) \in Copy
      /\ Guarded(Decoded(i), slot, stamps') <=> Decoded(i).lines \subseteq stamps'[i.page]
  BY DecodedCopy
<1>3. /\ iCache' = [iCache EXCEPT ![slot] = Decoded(i)]
      /\ stamps' = [stamps EXCEPT ![i.page] = @ \union Decoded(i).lines]
      /\ stackCache' = StackCacheAfter(i.page)
      /\ UNCHANGED <<traceCache, pageSplitIndex, nextPageSplitIndex, running, following, smp>>
      /\ running = Invalid
  BY DEF ICacheMiss, Marked
<1>4. /\ \A p \in Pages : stamps[p] \subseteq stamps'[p]
      /\ \A p \in Pages \ {i.page} : stamps'[p] = stamps[p]
      /\ Decoded(i).lines \subseteq stamps'[i.page]
  BY <1>1, <1>2, <1>3 DEF TypeOK
<1>5. ASSUME NEW n \in Lines
      PROVE  Guarded(iCache'[n], n, stamps') /\ iCache'[n].split = NoPage /\ iCache'[n].fresh
  <2>1. CASE n = slot
    <3>1. iCache'[n] = Decoded(i)
      BY <1>1, <1>3, <2>1 DEF TypeOK
    <3> QED BY <1>2, <1>4, <2>1, <3>1 DEF Decoded
  <2>2. CASE n # slot
    <3>1. iCache'[n] = iCache[n] /\ iCache[n] \in Copy
      BY <1>1, <1>3, <2>2 DEF TypeOK
    <3> QED BY <1>4, <3>1, GuardedMonotone DEF CodeInv, CachesGuarded, AllFresh
  <2> QED BY <2>1, <2>2
<1>6. ASSUME NEW n \in Lines
      PROVE  Guarded(traceCache[n], n, stamps') /\ SplitGuarded(traceCache[n], n)'
  <2>1. traceCache[n] \in Copy /\ traceCache'[n] = traceCache[n] /\ SplitEntries' = SplitEntries
    BY <1>1, <1>3 DEF TypeOK, SplitEntries
  <2>2. SplitGuarded(traceCache[n], n)'
    <3>1. traceCache[n].split # NoPage => traceCache[n].split \in Pages
      BY <2>1 DEF Copy
    <3> QED BY <1>3, <1>4, <2>1, <3>1 DEF CodeInv, CachesGuarded, SplitGuarded
  <2> QED BY <1>4, <2>1, <2>2, GuardedMonotone DEF CodeInv, CachesGuarded
<1>7. CachesGuarded'
  BY <1>3, <1>5, <1>6 DEF CachesGuarded
<1>8. RunningGuarded' /\ running'.fresh
  BY <1>3 DEF RunningGuarded, Invalid
<1>9. StackKnows'
  <2>1. StackKnows
    BY DEF CodeInv
  <2>2. stackCache'.page # NoPage /\ ~stackCache'.stamped => ~smp /\ stamps'[stackCache'.page] = {}
    <3>1. /\ stackCache' = StackCacheAfter(i.page)
          /\ \A p \in Pages \ {i.page} : stamps'[p] = stamps[p]
      BY <1>3, <1>4
    <3> HIDE <1>3, <1>4
    <3> QED BY <1>1, <1>2, <2>1, <3>1, StackKnowsAfter
  <2> QED BY <1>3, <2>2 DEF StackKnows
<1>10. AllFresh'
  BY <1>3, <1>5, <1>8 DEF AllFresh, CodeInv
<1> QED BY <1>1, <1>7, <1>8, <1>9, <1>10 DEF CodeInv

\* The trace found in the cache, or its end.
LEMMA RunningKeeps ==
  ASSUME CodeInv, EndTrace \/ \E n \in Lines : TraceHit(n)
  PROVE  CodeInv'
<1>1. TypeInv'
  BY QuietTypes DEF CodeInv
<1>2. UNCHANGED caches /\ UNCHANGED <<stackCache, following, smp>>
  BY DEF EndTrace, TraceHit
<1>3. running' = Invalid \/ \E n \in Lines : running' = traceCache[n] /\ traceCache[n].split = NoPage
  BY DEF EndTrace, TraceHit
<1>4. RunningGuarded' /\ running'.fresh
  BY <1>2, <1>3 DEF caches, CodeInv, RunningGuarded, CachesGuarded, Guarded, AllFresh, Invalid
<1>5. CachesGuarded' /\ StackKnows'
  BY <1>2 DEF caches, CodeInv, CachesGuarded, Guarded, SplitGuarded, SplitEntries, StackKnows
<1>6. AllFresh'
  BY <1>2, <1>4 DEF caches, CodeInv, AllFresh
<1> QED BY <1>1, <1>4, <1>5, <1>6 DEF CodeInv

\* The window of the stack cache is moved or closed.
LEMMA StackKeeps ==
  ASSUME CodeInv, InvalidateStackCache \/ \E p \in Pages : StackPrefetch(p)
  PROVE  CodeInv'
<1>1. TypeInv'
  BY QuietTypes DEF CodeInv
<1>2. UNCHANGED caches /\ UNCHANGED <<running, following, smp>>
  BY DEF InvalidateStackCache, StackPrefetch
<1>3. StackKnows'
  <2>1. \/ stackCache' = Closed
        \/ \E p \in Pages : stackCache' = [page |-> p, stamped |-> smp \/ stamps[p] # {}]
    BY DEF InvalidateStackCache, StackPrefetch
  <2>2. CASE stackCache' = Closed
    BY <2>2 DEF StackKnows, Closed
  <2>3. CASE \E p \in Pages : stackCache' = [page |-> p, stamped |-> smp \/ stamps[p] # {}]
    <3>1. PICK p \in Pages : stackCache' = [page |-> p, stamped |-> smp \/ stamps[p] # {}]
      BY <2>3
    <3>2. stackCache'.page = p /\ (stackCache'.stamped <=> smp \/ stamps[p] # {})
      BY <3>1
    <3> QED BY <1>2, <3>2 DEF StackKnows, caches
  <2> QED BY <2>1, <2>2, <2>3
<1>4. CachesGuarded' /\ RunningGuarded' /\ AllFresh'
  BY <1>2 DEF caches, CodeInv, CachesGuarded, Guarded, SplitGuarded, SplitEntries,
              RunningGuarded, AllFresh
<1> QED BY <1>1, <1>3, <1>4 DEF CodeInv

\* A flush drops every split trace: they are all in the ring.
LEMMA FlushKeeps ==
  ASSUME CodeInv, FlushICaches \/ \E p \in Pages : TlbFlush(p)
  PROVE  CodeInv'
<1>1. TypeInv'
  BY QuietTypes DEF CodeInv
<1>2. /\ iCache' = iCache /\ stamps' = stamps /\ smp' = smp /\ running' = Invalid
      /\ stackCache' \in {stackCache, Closed}
  BY DEF FlushICaches, TlbFlush
<1>3. ASSUME NEW n \in Lines
      PROVE  \/ traceCache'[n] = Invalid
             \/ traceCache'[n] = traceCache[n] /\ traceCache[n].split = NoPage
  <2>1. CASE FlushICaches
    BY <2>1 DEF FlushICaches, NoTraces
  <2>2. CASE \E p \in Pages : TlbFlush(p)
    <3>1. traceCache'[n] = Invalid \/ (traceCache'[n] = traceCache[n] /\ n \notin SplitEntries)
      BY <2>2 DEF TlbFlush
    <3> QED BY <3>1 DEF CodeInv, CachesGuarded, SplitGuarded
  <2> QED BY <2>1, <2>2
<1>4. CachesGuarded' /\ AllFresh'
  BY <1>2, <1>3 DEF CodeInv, CachesGuarded, Guarded, SplitGuarded, AllFresh, Invalid
<1>5. RunningGuarded' /\ StackKnows'
  BY <1>2 DEF CodeInv, RunningGuarded, StackKnows, Invalid, Closed
<1> QED BY <1>1, <1>4, <1>5 DEF CodeInv

\* The writes: those through the stack cache skip the stamps only where there
\* are none.
LEMMA WritesKeep ==
  ASSUME CodeInv,
         \/ \E p \in Pages, m \in Masks : CpuWrite(p, m)
         \/ \E p \in Pages : PageWrite(p)
         \/ \E m \in Masks : StackWrite(m)
  PROVE  CodeInv'
<1>0. Masks \subseteq SUBSET Lines /\ Lines \in SUBSET Lines
  BY ICacheAssumption
<1>1. CASE \E p \in Pages, m \in Masks : CpuWrite(p, m)
  BY <1>0, <1>1, WrittenKeeps DEF CpuWrite
<1>2. CASE \E p \in Pages : PageWrite(p)
  BY <1>0, <1>2, WrittenKeeps DEF PageWrite
<1>3. CASE \E m \in Masks : StackWrite(m)
  <2>1. PICK m \in Masks : StackWrite(m)
    BY <1>3
  <2>2. stackCache.page \in Pages /\ stackCache.page # NoPage /\ stackCache.stamped \in BOOLEAN
    BY <2>1, ICacheAssumption DEF StackWrite, CodeInv, TypeInv, TypeOK, StackOpen
  <2>3. ~stackCache.stamped => stamps[stackCache.page] = {}
    BY <2>2 DEF CodeInv, StackKnows
  <2> QED BY <1>0, <2>1, <2>2, <2>3, WrittenKeeps DEF StackWrite
<1> QED BY <1>1, <1>2, <1>3

-----------------------------------------------------------------------------
(* Theorems. *)

LEMMA InitEstablishes == Init => CodeInv
<1> SUFFICES ASSUME Init PROVE CodeInv
  OBVIOUS
<1>1. TypeInv
  BY InvalidCopy, EmptyRingTypes, ICacheAssumption
  DEF Init, TypeInv, TypeOK, StackOpen, Closed
<1>2. CachesGuarded /\ AllFresh
  BY DEF Init, CachesGuarded, Guarded, SplitGuarded, AllFresh, NoTraces, Invalid
<1>3. RunningGuarded /\ StackKnows
  BY DEF Init, RunningGuarded, StackKnows, Closed, Invalid
<1> QED BY <1>1, <1>2, <1>3 DEF CodeInv

\* Every action keeps the types, whatever is executed: an entry holds an
\* invalid or a decoded copy, the ring index stays below its size
\* (commit_page_split_trace), the stamps are lines of their page.
THEOREM TypesHold == Spec => []TypeOK
<1>1. Init => TypeInv
  BY InitEstablishes DEF CodeInv
<1>2. TypeInv /\ [Next]_vars => TypeInv'
  <2> SUFFICES ASSUME TypeInv, [Next]_vars PROVE TypeInv'
    OBVIOUS
  <2>1. CASE \E B \in Bodies : TraceMiss(B)
    BY <2>1, TraceMissKeeps
  <2>2. CASE \E b \in Boundaries : SplitMiss(b)
    BY <2>2, SplitMissTypes
  <2>3. CASE ~(\E B \in Bodies : TraceMiss(B)) /\ ~(\E b \in Boundaries : SplitMiss(b))
    BY <2>3, QuietTypes DEF Next
  <2> QED BY <2>1, <2>2, <2>3
<1>3. TypeInv => TypeOK
  BY DEF TypeInv
<1> QED BY <1>1, <1>2, <1>3, PTL DEF Spec

LEMMA StepKeeps ==
  ASSUME ~SplitOntoStack, CodeInv, [Next]_vars
  PROVE  CodeInv'
<1>1. CASE \E B \in Bodies : TraceMiss(B)
  BY <1>1, TraceMissKeeps DEF CodeInv
<1>2. CASE \E b \in Boundaries : SplitMiss(b)
  BY <1>2, SplitMissKeeps
<1>3. CASE \E i \in Instructions : ICacheMiss(i)
  BY <1>3, ICacheMissKeeps
<1>4. CASE EndTrace \/ \E n \in Lines : TraceHit(n)
  BY <1>4, RunningKeeps
<1>5. CASE InvalidateStackCache \/ \E p \in Pages : StackPrefetch(p)
  BY <1>5, StackKeeps
<1>6. CASE FlushICaches \/ \E p \in Pages : TlbFlush(p)
  BY <1>6, FlushKeeps
<1>7. CASE \/ \E p \in Pages, m \in Masks : CpuWrite(p, m)
           \/ \E p \in Pages : PageWrite(p)
           \/ \E m \in Masks : StackWrite(m)
  BY <1>7, WritesKeep
<1>8. CASE UNCHANGED vars
  <2>1. TypeInv'
    BY <1>8, QuietTypes DEF CodeInv
  <2> QED BY <1>8, <2>1
    DEF vars, caches, CodeInv, CachesGuarded, Guarded, SplitGuarded, SplitEntries,
        RunningGuarded, StackKnows, AllFresh
<1> QED BY <1>1, <1>2, <1>3, <1>4, <1>5, <1>6, <1>7, <1>8 DEF Next

\* As long as no instruction crosses into the page of the stack cache, every
\* cached copy has the stamps that make decWriteStamp call handleSMC, is where
\* handleSMC looks for it or in the ring of split traces, and so no write, no
\* device and no change of the mapping leaves stale code to be executed: for
\* every number of pages, lines, modes and ring entries, and every program.
THEOREM NoStaleCodeHolds ==
  ASSUME ~SplitOntoStack
  PROVE  Spec => []NoStaleCode
<1>1. Init => CodeInv
  BY InitEstablishes
<1>2. CodeInv /\ [Next]_vars => CodeInv'
  BY StepKeeps
<1>3. CodeInv => NoStaleCode
  BY DEF CodeInv, AllFresh, CachesGuarded, SplitGuarded, NoStaleCode
<1> QED BY <1>1, <1>2, <1>3, PTL DEF Spec
=============================================================================
