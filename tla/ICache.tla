------------------------------- MODULE ICache -------------------------------
(* The instruction cache of cpu_cache.c and the address map it decides by.   *)
(* A cache is a function from line numbers to lines of four words, indexed   *)
(* and tagged by physical address.  Words are numbers; an address is a       *)
(* number of bytes.  RAM the program never touches reads as zero.            *)
EXTENDS Integers

CONSTANTS SPACE,     \* size of the CPU's address space (2^32 in the code)
          SEGMENT,   \* physical address = address modulo this (2^29)
          UNCACHED,  \* first address of the uncached segments (0xA0000000)
          RAM_END,   \* end of RAM and its mirrors (8 MB)
          LINES      \* number of cache lines (256)

ASSUME MapAssumption ==
    /\ SPACE \in Nat \ {0} /\ SEGMENT \in Nat \ {0} /\ LINES \in Nat \ {0}
    /\ UNCACHED \in Nat /\ RAM_END \in Nat

Wrap(a) == a % SPACE

Physical(a) == a % SEGMENT

cpu_icache_is_cacheable(a) == a < UNCACHED /\ Physical(a) < RAM_END

LineOf(a) == (Physical(a) \div 16) % LINES

Tag(a) == Physical(a) - (Physical(a) % 16)

NoLine == [valid |-> FALSE, tag |-> 0, words |-> [k \in 0 .. 3 |-> 0]]

cpu_icache_init == [n \in 0 .. LINES - 1 |-> NoLine]

Hit(cache, a) ==
    /\ cpu_icache_is_cacheable(a)
    /\ cache[LineOf(a)].valid
    /\ cache[LineOf(a)].tag = Tag(a)

Word(mem, a) == IF Physical(a) \in DOMAIN mem THEN mem[Physical(a)] ELSE 0

cpu_icache_fill(cache, mem, a) ==
    [cache EXCEPT ![LineOf(a)] =
        [valid |-> TRUE, tag |-> Tag(a),
         words |-> [k \in 0 .. 3 |-> Word(mem, Tag(a) + 4 * k)]]]

\* What cpu_fetch32 returns, and the cache it leaves behind.
Fetched(cache, mem, a) ==
    IF Hit(cache, a) THEN cache[LineOf(a)].words[(a \div 4) % 4] ELSE Word(mem, a)

CacheAfter(cache, mem, a) ==
    IF cpu_icache_is_cacheable(a) /\ ~Hit(cache, a) THEN cpu_icache_fill(cache, mem, a) ELSE cache
=============================================================================
