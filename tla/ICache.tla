------------------------------- MODULE ICache -------------------------------
(***************************************************************************)
(* The caches of decoded instructions (cpu/icache.h, cpu/icache.cc) and    *)
(* the detection of self-modifying code that keeps them coherent with      *)
(* memory: the instruction cache, the trace cache of a processor, the      *)
(* page write stamps, the ring of instructions that cross a page boundary, *)
(* and the stack cache (cpu/stack.cc), whose writes look at the stamps     *)
(* only through a copy taken when the cache was filled.                    *)
(*                                                                         *)
(* Memory has no contents here.  A decoded copy is fresh until a write to  *)
(* one of its "cache lines" leaves it in place.  One address is looked at  *)
(* per line, and the pages lie so far apart that they share the entries of *)
(* both caches.  Trace linking, a configure option, is left out.           *)
(***************************************************************************)
EXTENDS Integers, FiniteSets

CONSTANTS
  Pages, NoPage,   \* NoPage: BX_ICACHE_INVALID_PHY_ADDRESS
  LineCount,       \* lines of a page
  Group,           \* lines among which fetchModeMask moves an entry
  RingSize,        \* BX_TRACE_CACHE_PAGE_SPLIT_ENTRIES
  Instructions,    \* what the guest executes: page, first and last line, mode
  Boundaries,      \* page and mode of the instructions that cross a boundary
  Masks,           \* lines that one write touches
  SplitOntoStack   \* an instruction may end in the page of the stack cache

Lines == 0 .. LineCount - 1
LastLine == LineCount - 1
Ring == 0 .. RingSize - 1
Modes == 0 .. Group - 1

ASSUME ICacheAssumption ==
  /\ NoPage \notin Pages
  /\ LineCount \in Nat \ {0} /\ Group \in Nat \ {0} /\ RingSize \in Nat \ {0}
  /\ LineCount % Group = 0
  /\ Instructions \subseteq [page : Pages, first : Lines, last : Lines, mode : Modes]
  /\ \A i \in Instructions : i.last \in {i.first, i.first + 1}
  /\ Boundaries \subseteq [page : Pages, mode : Modes]
  /\ Masks \subseteq (SUBSET Lines) \ {{}}
  /\ SplitOntoStack \in BOOLEAN

VARIABLES
  iCache,        \* bxICache_c, shared by the processors
  traceCache,    \* entry[] of one processor's bxTraceCache_c
  pageSplitIndex, nextPageSplitIndex,
  stamps,        \* fineGranularityMapping
  stackCache,    \* pAddrStackPage, and whether its writes look at the stamps
  running,       \* the trace that cpu_loop executes
  following,     \* the page that the TLB maps after the code
  smp            \* BX_SUPPORT_SMP of this build

caches == <<iCache, traceCache, pageSplitIndex, nextPageSplitIndex, stamps>>
vars == <<caches, stackCache, running, following, smp>>

-----------------------------------------------------------------------------
(* Entries *)

\* A decoded instruction or trace.  split is the second page of an
\* instruction that crosses a page boundary.
Copy == [page : Pages \union {NoPage}, first : Lines, lines : SUBSET Lines,
         split : Pages \union {NoPage}, fresh : BOOLEAN]
Invalid == [page |-> NoPage, first |-> 0, lines |-> {}, split |-> NoPage, fresh |-> TRUE]
NoTraces == [n \in Lines |-> Invalid]

Unregistered == [ppf |-> NoPage, e |-> 0]
EmptyRing == [k \in Ring |-> Unregistered]
Closed == [page |-> NoPage, stamped |-> FALSE]   \* espPageWindowSize is 0

TypeOK ==
  /\ iCache \in [Lines -> Copy] /\ traceCache \in [Lines -> Copy]
  /\ pageSplitIndex \in [Ring -> [ppf : Pages \union {NoPage}, e : Lines]]
  /\ nextPageSplitIndex \in Ring
  /\ stamps \in [Pages -> SUBSET Lines]
  /\ stackCache \in [page : Pages \union {NoPage}, stamped : BOOLEAN]
  /\ running \in Copy
  /\ following \in Pages
  /\ smp \in BOOLEAN

\* hash: fetchModeMask is XORed into the index and moves the entry to another
\* line of its group.
hash(line, mode) == line - (line % Group) + (((line % Group) + mode) % Group)

find_entry(cache, page, line, mode) ==
  LET e == cache[hash(line, mode)] IN e.page = page /\ e.first = line

Decoded(i) ==
  [page |-> i.page, first |-> i.first, lines |-> {i.first, i.last},
   split |-> NoPage, fresh |-> TRUE]

\* The copy of i that serveTraceCacheMiss takes: cached, or decoded now.
Fetched(i) ==
  IF find_entry(iCache, i.page, i.first, i.mode)
  THEN iCache[hash(i.first, i.mode)] ELSE Decoded(i)

Marked(page, lines) == [stamps EXCEPT ![page] = @ \union lines]

-----------------------------------------------------------------------------
(* Writes *)

\* The entries that handleSMC looks at; an entry may be in another line of its
\* group than the instruction.
ScannedWithoutModes(mask) == {n \in Lines : \E line \in mask : n <= line}
Scanned(mask) == {n \in Lines : \E line \in mask : n - (n % Group) <= line}

Touches(c, page, mask) == c.page = page /\ c.lines \intersect mask # {}

\* The entries of split traces.
SplitEntries == {pageSplitIndex[k].e : k \in {j \in Ring : pageSplitIndex[j].ppf # NoPage}}

\* bxICache_c::handleSMC
smc_icache(page, mask) ==
  [n \in Lines |-> IF n \in Scanned(mask) /\ Touches(iCache[n], page, mask)
                   THEN Invalid ELSE iCache[n]]

\* bxTraceCache_c::handleSMC; wrap: traceLinkTimeStamp reached its end.
smc_traces(page, mask, wrap) ==
  [n \in Lines |-> IF \/ wrap
                      \/ n \in SplitEntries
                      \/ n \in Scanned(mask) /\ Touches(traceCache[n], page, mask)
                   THEN Invalid ELSE traceCache[n]]

\* c after other bytes were written to the lines mask of page.
Aged(c, page, mask) ==
  [c EXCEPT !.fresh = @ /\ ~Touches(c, page, mask) /\ ~(c.split = page /\ 0 \in mask)]

\* A write; stamped: decWriteStamp is called before it.
Written(page, mask, stamped) ==
  IF stamped /\ stamps[page] \intersect mask # {}
  THEN /\ iCache' = [n \in Lines |-> Aged(smc_icache(page, mask)[n], page, mask)]
       /\ \E wrap \in BOOLEAN :
            traceCache' = [n \in Lines |-> Aged(smc_traces(page, mask, wrap)[n], page, mask)]
       /\ pageSplitIndex' = EmptyRing /\ nextPageSplitIndex' = 0
       /\ stamps' = [stamps EXCEPT ![page] = @ \ mask]
       /\ running' = IF running.page = page THEN Invalid ELSE running
  ELSE /\ iCache' = [n \in Lines |-> Aged(iCache[n], page, mask)]
       /\ traceCache' = [n \in Lines |-> Aged(traceCache[n], page, mask)]
       /\ running' = Aged(running, page, mask)
       /\ UNCHANGED <<pageSplitIndex, nextPageSplitIndex, stamps>>

\* A processor writes memory.
CpuWrite(page, mask) == Written(page, mask, TRUE) /\ UNCHANGED <<stackCache, following, smp>>

\* A device writes memory, or a host pointer to a page is handed out.
PageWrite(page) == Written(page, Lines, TRUE) /\ UNCHANGED <<stackCache, following, smp>>

\* stackPrefetch: the mapping of the page is copied, except in SMP builds,
\* where every write looks at the stamps.
StackPrefetch(page) ==
  /\ stackCache' = [page |-> page, stamped |-> smp \/ stamps[page] # {}]
  /\ UNCHANGED <<caches, running, following, smp>>

\* invalidate_stack_cache: SS is loaded, the mode or the privilege changes.
InvalidateStackCache ==
  /\ stackCache # Closed
  /\ stackCache' = Closed
  /\ UNCHANGED <<caches, running, following, smp>>

\* stack_write_* inside the window of the stack cache.
StackWrite(mask) ==
  /\ stackCache # Closed
  /\ Written(stackCache.page, mask, stackCache.stamped)
  /\ UNCHANGED <<stackCache, following, smp>>

-----------------------------------------------------------------------------
(* Fetches *)

\* commit_page_split_trace
NextSplitUnwrapped(k) == k + 1
NextSplit(k) == (k + 1) % RingSize

\* The window of the stack cache is closed by code found in its page.
StackCacheAfter(page) == IF page = stackCache.page /\ ~smp THEN Closed ELSE stackCache

\* Instructions that follow one another, fetched in one mode.
Bodies ==
  {B \in (SUBSET Instructions) \ {{}} :
     /\ \A i, j \in B : i.page = j.page /\ i.mode = j.mode
                        /\ (i # j => i.first # j.first)
     /\ \A i, j \in B : i.first < j.first =>
          \E k \in B : k.first < j.first /\ k.last \in {j.first - 1, j.first}}

\* traces that mergeTraces may append to a trace of B.
Mergeable(B, traces) ==
  {t \in {traces[hash(line, i.mode)] : line \in Lines, i \in B} :
     /\ t.split = NoPage
     /\ \A i \in B : t.page = i.page /\ i.first < t.first
                     /\ find_entry(traces, i.page, t.first, i.mode)
     /\ \E i \in B : t.first \in {i.last, i.last + 1}}

\* getTraceCacheEntry, serveTraceCacheMiss: B is decoded or taken from the
\* instruction cache, a trace may be merged, and the result is executed.
\* full: alloc_trace found mpool full.
TraceMiss(B) ==
  LET first == CHOOSE i \in B : \A j \in B : i.first <= j.first
      slot == hash(first.first, first.mode)
      new == {i \in B : ~find_entry(iCache, i.page, i.first, i.mode)} IN
  /\ running = Invalid
  /\ ~find_entry(traceCache, first.page, first.first, first.mode)
  /\ \E full \in BOOLEAN :
       LET kept == [(IF full THEN NoTraces ELSE traceCache) EXCEPT ![slot] = Invalid] IN
       \E merged \in {{}} \union {{t} : t \in Mergeable(B, kept)} :
         LET copies == {Fetched(i) : i \in B} \union merged
             lines == UNION {c.lines : c \in copies}
             trace == [page |-> first.page, first |-> first.first, lines |-> lines,
                       split |-> NoPage, fresh |-> \A c \in copies : c.fresh] IN
         /\ traceCache' = [kept EXCEPT ![slot] = trace]
         /\ running' = trace
         /\ stamps' = Marked(first.page, lines \union UNION {Decoded(i).lines : i \in new})
         /\ IF full THEN pageSplitIndex' = EmptyRing /\ nextPageSplitIndex' = 0
                    ELSE UNCHANGED <<pageSplitIndex, nextPageSplitIndex>>
  /\ iCache' = [n \in Lines |->
                  IF \E i \in new : hash(i.first, i.mode) = n
                  THEN Decoded(CHOOSE i \in new : hash(i.first, i.mode) = n)
                  ELSE iCache[n]]
  /\ stackCache' = StackCacheAfter(first.page)
  /\ UNCHANGED <<following, smp>>

\* boundaryFetch: the instruction is decoded from the end of its page and the
\* start of the following one.
Crossing(b) ==
  [page |-> b.page, first |-> LastLine, lines |-> {LastLine},
   split |-> following, fresh |-> TRUE]

\* serveTraceCacheMiss at an instruction that crosses into the following page;
\* it is executed alone.  boundaryFetch may fault.
SplitMiss(b) ==
  LET slot == hash(LastLine, b.mode)
      evicted == pageSplitIndex[nextPageSplitIndex] IN
  /\ running = Invalid
  /\ ~find_entry(traceCache, b.page, LastLine, b.mode)
  /\ ~find_entry(iCache, b.page, LastLine, b.mode)
  /\ SplitOntoStack \/ smp \/ StackCacheAfter(b.page).page # following
  /\ iCache' = [iCache EXCEPT ![slot] = Invalid]
  /\ \/ /\ traceCache' = [traceCache EXCEPT ![slot] = Invalid]
        /\ UNCHANGED <<stamps, pageSplitIndex, nextPageSplitIndex>>
     \/ /\ traceCache' = [n \in Lines |->
                            IF evicted.ppf # NoPage /\ n = evicted.e THEN Invalid
                            ELSE IF n = slot THEN Crossing(b) ELSE traceCache[n]]
        /\ stamps' = [Marked(b.page, {LastLine}) EXCEPT ![following] = @ \union {0}]
        /\ pageSplitIndex' = [pageSplitIndex EXCEPT
             ![nextPageSplitIndex] = [ppf |-> following, e |-> slot]]
        /\ nextPageSplitIndex' = NextSplit(nextPageSplitIndex)
  /\ stackCache' = StackCacheAfter(b.page)
  /\ UNCHANGED <<running, following, smp>>

\* getICacheEntry, serveICacheMiss: the internal debugger, or another
\* processor, decodes one instruction.
ICacheMiss(i) ==
  /\ running = Invalid
  /\ ~find_entry(iCache, i.page, i.first, i.mode)
  /\ iCache' = [iCache EXCEPT ![hash(i.first, i.mode)] = Decoded(i)]
  /\ stamps' = Marked(i.page, Decoded(i).lines)
  /\ stackCache' = StackCacheAfter(i.page)
  /\ UNCHANGED <<traceCache, pageSplitIndex, nextPageSplitIndex, running,
                 following, smp>>

\* getTraceCacheEntry finds the trace.
TraceHit(n) ==
  /\ running = Invalid
  /\ traceCache[n].page # NoPage /\ traceCache[n].split = NoPage
  /\ running' = traceCache[n]
  /\ UNCHANGED <<caches, stackCache, following, smp>>

\* The trace ends, or an instruction of it faults.
EndTrace ==
  /\ running # Invalid
  /\ running' = Invalid
  /\ UNCHANGED <<caches, stackCache, following, smp>>

-----------------------------------------------------------------------------
(* Flushes *)

\* TLB_flush, TLB_flushNonGlobal, TLB_invlpg: the translation of the page
\* after the code may have changed; split traces are dropped.
TlbFlush(page) ==
  /\ following' = page
  /\ \E wrap \in BOOLEAN :
       traceCache' = [n \in Lines |-> IF wrap \/ n \in SplitEntries THEN Invalid ELSE traceCache[n]]
  /\ pageSplitIndex' = EmptyRing /\ nextPageSplitIndex' = 0
  /\ stackCache' = Closed
  /\ running' = Invalid
  /\ UNCHANGED <<iCache, stamps, smp>>

\* flushICaches: the trace caches are emptied, the stamps stay.
FlushICaches ==
  /\ traceCache' = NoTraces
  /\ pageSplitIndex' = EmptyRing /\ nextPageSplitIndex' = 0
  /\ running' = Invalid
  /\ UNCHANGED <<iCache, stamps, stackCache, following, smp>>

Init ==
  /\ iCache = NoTraces /\ traceCache = NoTraces
  /\ pageSplitIndex = EmptyRing /\ nextPageSplitIndex = 0
  /\ stamps = [p \in Pages |-> {}]
  /\ stackCache = Closed
  /\ running = Invalid
  /\ following \in Pages
  /\ smp \in BOOLEAN

Next ==
  \/ \E p \in Pages, m \in Masks : CpuWrite(p, m)
  \/ \E p \in Pages : PageWrite(p)
  \/ \E p \in Pages : StackPrefetch(p)
  \/ InvalidateStackCache
  \/ \E m \in Masks : StackWrite(m)
  \/ \E B \in Bodies : TraceMiss(B)
  \/ \E b \in Boundaries : SplitMiss(b)
  \/ \E i \in Instructions : ICacheMiss(i)
  \/ \E n \in Lines : TraceHit(n)
  \/ EndTrace
  \/ \E p \in Pages : TlbFlush(p)
  \/ FlushICaches

Spec == Init /\ [][Next]_vars

-----------------------------------------------------------------------------
(* Properties *)

\* Whatever code is cached or executed is what memory holds: no write, by a
\* processor, through the stack cache or by a device, leaves a decoded copy of
\* its bytes behind (decWriteStamp, handleSMC), and an instruction that
\* crosses a page boundary ends in the page that is mapped there now
\* (breakLinks on every TLB flush).
NoStaleCode ==
  /\ \A n \in Lines : iCache[n].fresh /\ traceCache[n].fresh
                      /\ traceCache[n].split \in {NoPage, following}
  /\ running.fresh
=============================================================================
