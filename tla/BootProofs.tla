----------------------------- MODULE BootProofs -----------------------------
(***************************************************************************)
(* The invariants of Boot for any layout, size of the memory and kernel:   *)
(* what virt_to_phys computes from the boot page tables, and an inductive  *)
(* invariant BootInv of the loading that every step preserves.             *)
(***************************************************************************)
EXTENDS Boot, TLAPS

\* Quotient and remainder of a number that is put together from them.
LEMMA Digits ==
    ASSUME NEW q \in Nat, NEW b \in Nat, NEW r \in Nat, r < b
    PROVE  (q * b + r) \div b = q /\ (q * b + r) % b = r
  OBVIOUS

\* A number below the base is its own remainder.
LEMMA SmallRemainder ==
    ASSUME NEW b \in Nat, NEW r \in Nat, r < b
    PROVE  r \div b = 0 /\ r % b = r
  OBVIOUS

\* One digit of a number with three parts.
LEMMA MiddleDigit ==
    ASSUME NEW e \in Nat, NEW b \in Nat, NEW h \in Nat, NEW d \in Nat, NEW r \in Nat,
           d < e, r < b
    PROVE  (((h * e + d) * b + r) \div b) % e = d
<1> DEFINE q == h * e + d
<1>1. q \in Nat /\ q % e = d
  BY Digits
<1> HIDE DEF q
<1>2. (q * b + r) \div b = q
  BY <1>1, Digits
<1> QED
  BY <1>1, <1>2 DEF q

\* The powers of the number of entries, by level.
LEMMA Powers ==
    /\ Entries \in Nat /\ Entries > 1
    /\ Pow(0) = 1 /\ Pow(1) = Entries /\ Pow(2) = Entries * Entries
    /\ Pow(3) = Entries * Entries * Entries
    /\ Pow(2) \in Nat /\ Pow(3) \in Nat
  BY SizesAssumption DEF Pow

-------------------------------------------------------------------------------
(* The page walk *)

\* The entry the walk for addr finds in the table in page t at level l.
EntryAt(addr, l, t) == TableEntry(t, (addr \div Pow(l)) % Entries)

\* One turn of the loop of virt_to_phys, next being what the later turns do.
Turn(addr, l, next) ==
    [t \in Nat |-> IF EntryAt(addr, l, t).huge \/ l = 0
                   THEN (EntryAt(addr, l, t).addr \div Pow(l)) * Pow(l) + (addr % Pow(l))
                   ELSE next[EntryAt(addr, l, t).addr]]

\* The recursion is well-founded: the walk is four turns of the loop.
LEMMA WalkEquation ==
    ASSUME NEW addr
    PROVE  \E walk : /\ \A l \in 0 .. 3 : walk[l] = Turn(addr, l, walk[l - 1])
                     /\ virt_to_phys(addr) = walk[3][BOOT_PML4]
<1> DEFINE Rows(f) == [l \in 0 .. 3 |-> Turn(addr, l, f[l - 1])]
           w0 == Turn(addr, 0, <<>>)
           w1 == Turn(addr, 1, w0)
           w2 == Turn(addr, 2, w1)
           w3 == Turn(addr, 3, w2)
           f == [l \in 0 .. 3 |-> IF l = 0 THEN w0 ELSE IF l = 1 THEN w1
                                  ELSE IF l = 2 THEN w2 ELSE w3]
           walk == CHOOSE g : g = Rows(g)
<1>1. ASSUME NEW g PROVE Turn(addr, 0, g) = w0
  BY DEF Turn
<1>2. ASSUME NEW l \in 0 .. 3 PROVE f[l] = Turn(addr, l, f[l - 1])
  <2> HIDE DEF w0, w1, w2, w3
  <2>1. CASE l = 0
    BY <1>1, <2>1
  <2>2. CASE l = 1
    BY <2>2 DEF w1
  <2>3. CASE l = 2
    BY <2>3 DEF w2
  <2>4. CASE l = 3
    BY <2>4 DEF w3
  <2> QED
    BY <2>1, <2>2, <2>3, <2>4
<1>3. f = Rows(f)
  <2>1. f = [l \in 0 .. 3 |-> f[l]]
    OBVIOUS
  <2> HIDE DEF f
  <2> QED
    BY <2>1, <1>2
<1>4. walk = Rows(walk)
  <2> HIDE DEF f
  <2> QED
    BY <1>3
<1>5. virt_to_phys(addr) = walk[3][BOOT_PML4]
  BY DEF virt_to_phys, Turn, EntryAt
<1> HIDE DEF walk
<1>6. \A l \in 0 .. 3 : walk[l] = Turn(addr, l, walk[l - 1])
  BY <1>4
<1> QED
  BY <1>5, <1>6

\* An entry for a table leads on to that table.
LEMMA TurnDescends ==
    ASSUME NEW addr, NEW l \in 1 .. 3, NEW t \in Nat, NEW u, NEW next,
           EntryAt(addr, l, t).addr = u, ~EntryAt(addr, l, t).huge
    PROVE  Turn(addr, l, next)[t] = next[u]
<1> DEFINE e == EntryAt(addr, l, t)
<1>1. e.addr = u /\ ~e.huge
  OBVIOUS
<1>2. Turn(addr, l, next)[t] =
        IF e.huge \/ l = 0 THEN (e.addr \div Pow(l)) * Pow(l) + (addr % Pow(l))
        ELSE next[e.addr]
  BY DEF Turn
<1>3. l # 0
  OBVIOUS
<1> HIDE DEF e
<1> QED
  BY <1>1, <1>2, <1>3, Zenon

\* A walk that ends at a large page.
LEMMA LargePageWalk ==
    ASSUME NEW addr, NEW t2 \in Nat, NEW t1 \in Nat, BOOT_PML4 \in Nat,
           EntryAt(addr, 3, BOOT_PML4).addr = t2, ~EntryAt(addr, 3, BOOT_PML4).huge,
           EntryAt(addr, 2, t2).addr = t1, ~EntryAt(addr, 2, t2).huge,
           EntryAt(addr, 1, t1).huge
    PROVE  virt_to_phys(addr) =
             (EntryAt(addr, 1, t1).addr \div Pow(1)) * Pow(1) + (addr % Pow(1))
<1>1. PICK walk : /\ \A l \in 0 .. 3 : walk[l] = Turn(addr, l, walk[l - 1])
                  /\ virt_to_phys(addr) = walk[3][BOOT_PML4]
  BY WalkEquation
<1>2. walk[3] = Turn(addr, 3, walk[2]) /\ walk[2] = Turn(addr, 2, walk[1])
      /\ walk[1] = Turn(addr, 1, walk[0])
  BY <1>1
<1>3. walk[3][BOOT_PML4] = walk[2][t2]
  BY <1>2, TurnDescends
<1>4. walk[2][t2] = walk[1][t1]
  BY <1>2, TurnDescends, SMTT(30)
<1>5. walk[1][t1] = (EntryAt(addr, 1, t1).addr \div Pow(1)) * Pow(1) + (addr % Pow(1))
  BY <1>2, Zenon DEF Turn
<1> QED
  BY <1>1, <1>3, <1>4, <1>5

\* A walk through all four tables.
LEMMA BasePageWalk ==
    ASSUME NEW addr \in Nat, NEW t2 \in Nat, NEW t1 \in Nat, NEW t0 \in Nat, NEW t \in Nat,
           BOOT_PML4 \in Nat,
           EntryAt(addr, 3, BOOT_PML4).addr = t2, ~EntryAt(addr, 3, BOOT_PML4).huge,
           EntryAt(addr, 2, t2).addr = t1, ~EntryAt(addr, 2, t2).huge,
           EntryAt(addr, 1, t1).addr = t0, ~EntryAt(addr, 1, t1).huge,
           EntryAt(addr, 0, t0).addr = t
    PROVE  virt_to_phys(addr) = t
<1>1. PICK walk : /\ \A l \in 0 .. 3 : walk[l] = Turn(addr, l, walk[l - 1])
                  /\ virt_to_phys(addr) = walk[3][BOOT_PML4]
  BY WalkEquation
<1>2. walk[3] = Turn(addr, 3, walk[2]) /\ walk[2] = Turn(addr, 2, walk[1])
      /\ walk[1] = Turn(addr, 1, walk[0]) /\ walk[0] = Turn(addr, 0, walk[-1])
  BY <1>1
<1>3. walk[3][BOOT_PML4] = walk[2][t2]
  BY <1>2, TurnDescends, SMTT(30)
<1>4. walk[2][t2] = walk[1][t1]
  BY <1>2, TurnDescends
<1>5. walk[1][t1] = walk[0][t0]
  BY <1>2, TurnDescends
<1>6. walk[0][t0] = (t \div Pow(0)) * Pow(0) + (addr % Pow(0))
  BY <1>2, Zenon DEF Turn
<1>7. (t \div 1) * 1 + (addr % 1) = t
  OBVIOUS
<1> QED
  BY <1>1, <1>3, <1>4, <1>5, <1>6, <1>7, Powers

-------------------------------------------------------------------------------
(* The boot page tables *)

\* What init_guest_mem has written is in memory.
TablesInPlace ==
    /\ {BOOT_GDT, BOOT_PML4, BOOT_PDPTE, BOOT_PDE} \subseteq DOMAIN memory
    /\ memory[BOOT_GDT] = Page("gdt", 0)
    /\ memory[BOOT_PML4] = Page("pml4", 0)
    /\ memory[BOOT_PDPTE] = Page("pdpte", 0)
    /\ memory[BOOT_PDE] = Page("pde", 0)

\* The entries the walks below meet.
LEMMA TableEntries ==
    ASSUME TablesInPlace
    PROVE  /\ TableEntry(BOOT_PML4, 0).addr = BOOT_PDPTE /\ ~TableEntry(BOOT_PML4, 0).huge
           /\ TableEntry(BOOT_PML4, Entries - 1).addr = BOOT_PML4
           /\ ~TableEntry(BOOT_PML4, Entries - 1).huge
           /\ TableEntry(BOOT_PDPTE, 0).addr = BOOT_PDE /\ ~TableEntry(BOOT_PDPTE, 0).huge
           /\ \A n \in 0 .. Entries - 1 : /\ TableEntry(BOOT_PDE, n).addr = n * Entries
                                          /\ TableEntry(BOOT_PDE, n).huge
<1>1. \A n : TableEntry(BOOT_PML4, n) = pml4[n]
  BY DEF TablesInPlace, TableEntry, Page
<1>2. \A n : TableEntry(BOOT_PDPTE, n) = pdpte[n]
  BY DEF TablesInPlace, TableEntry, Page
<1>3. \A n : TableEntry(BOOT_PDE, n) = pde[n]
  BY DEF TablesInPlace, TableEntry, Page
<1>4. 0 \in 0 .. Entries - 1 /\ Entries - 1 \in 0 .. Entries - 1 /\ Entries - 1 # 0
  BY Powers
<1>5. /\ pml4[0].addr = BOOT_PDPTE /\ ~pml4[0].huge
      /\ pml4[Entries - 1].addr = BOOT_PML4 /\ ~pml4[Entries - 1].huge
  BY <1>4 DEF pml4, Entry
<1>6. pdpte[0].addr = BOOT_PDE /\ ~pdpte[0].huge
  BY <1>4 DEF pdpte, Entry
<1>7. \A n \in 0 .. Entries - 1 : pde[n].addr = n * Entries /\ pde[n].huge
  BY DEF pde, Entry
<1> QED
  BY <1>1, <1>2, <1>3, <1>5, <1>6, <1>7

\* The places of the structures are numbers of pages, all of them different.
LEMMA Places ==
    /\ Structures \subseteq Nat \ {0}
    /\ BOOT_GDT \in Nat /\ BOOT_INFO_ADDR \in Nat /\ BOOT_PML4 \in Nat /\ BOOT_PDPTE \in Nat
    /\ BOOT_PDE \in Nat /\ SHAREDQUEUE_START \in Nat
    /\ BOOT_GDT # BOOT_INFO_ADDR /\ BOOT_GDT # BOOT_PML4 /\ BOOT_GDT # BOOT_PDPTE
    /\ BOOT_GDT # BOOT_PDE /\ BOOT_GDT \notin Rings
    /\ BOOT_INFO_ADDR # BOOT_PML4 /\ BOOT_INFO_ADDR # BOOT_PDPTE
    /\ BOOT_INFO_ADDR # BOOT_PDE /\ BOOT_INFO_ADDR \notin Rings
    /\ BOOT_PML4 # BOOT_PDPTE /\ BOOT_PML4 # BOOT_PDE /\ BOOT_PML4 \notin Rings
    /\ BOOT_PDPTE # BOOT_PDE /\ BOOT_PDPTE \notin Rings /\ BOOT_PDE \notin Rings
<1>1. Structures \subseteq Nat \ {0}
  BY LayoutAssumption
<1>2. /\ BOOT_GDT \in Nat /\ BOOT_INFO_ADDR \in Nat /\ BOOT_PML4 \in Nat /\ BOOT_PDPTE \in Nat
      /\ BOOT_PDE \in Nat /\ SHAREDQUEUE_START \in Nat
  BY <1>1 DEF Structures, Rings
<1> DEFINE place == <<BOOT_GDT, BOOT_INFO_ADDR, BOOT_PML4, BOOT_PDPTE, BOOT_PDE,
                      SHAREDQUEUE_START, SHAREDQUEUE_START + 1>>
<1>3. \A m, n \in 1 .. 7 : place[m] = place[n] => m = n
  BY LayoutAssumption
<1>4. /\ place[1] = BOOT_GDT /\ place[2] = BOOT_INFO_ADDR /\ place[3] = BOOT_PML4
      /\ place[4] = BOOT_PDPTE /\ place[5] = BOOT_PDE
      /\ place[6] = SHAREDQUEUE_START /\ place[7] = SHAREDQUEUE_START + 1
  OBVIOUS
<1> HIDE DEF place
<1> QED
  BY <1>1, <1>2, <1>3, <1>4 DEF Rings

\* Everything below the first gibibyte is mapped onto itself by large pages.
LEMMA IdentityMapped ==
    ASSUME TablesInPlace, NEW a \in 0 .. Pow(2) - 1
    PROVE  virt_to_phys(a) = a
<1> DEFINE E == Entries
           n == a \div E
<1>1. /\ E \in Nat /\ E > 1 /\ a \in Nat /\ a < E * E /\ E * E \in Nat /\ E * E * E \in Nat
      /\ E * E <= E * E * E
  BY Powers
<1>2. a \div (E * E * E) = 0 /\ a \div (E * E) = 0
  <2>1. 0 * (E * E) + a = a /\ 0 * (E * E * E) + a = a /\ a < E * E * E
    BY <1>1
  <2> QED
    BY <1>1, <2>1, Digits
<1>3. n \in Nat /\ n * E <= a /\ a = n * E + (a % E) /\ a % E \in Nat /\ a % E < E
  BY <1>1
<1>4. n < E
  <2> HIDE DEF n
  <2> SUFFICES ASSUME n >= E PROVE FALSE
    BY <1>1, <1>3
  <2>1. n * E >= E * E
    BY <1>1, <1>3
  <2> QED
    BY <1>1, <1>3, <2>1
<1>5. 0 % E = 0 /\ n % E = n
  <2> HIDE DEF n
  <2> QED
    BY <1>1, <1>3, <1>4, SmallRemainder
<1>6. EntryAt(a, 3, BOOT_PML4).addr = BOOT_PDPTE /\ ~EntryAt(a, 3, BOOT_PML4).huge
  BY <1>2, <1>5, TableEntries, Powers DEF EntryAt
<1>7. EntryAt(a, 2, BOOT_PDPTE).addr = BOOT_PDE /\ ~EntryAt(a, 2, BOOT_PDPTE).huge
  BY <1>2, <1>5, TableEntries, Powers DEF EntryAt
<1>8. EntryAt(a, 1, BOOT_PDE).addr = n * E /\ EntryAt(a, 1, BOOT_PDE).huge
  <2>1. EntryAt(a, 1, BOOT_PDE) = TableEntry(BOOT_PDE, n)
    BY <1>5, Powers DEF EntryAt
  <2> HIDE DEF n
  <2> QED
    BY <2>1, <1>1, <1>3, <1>4, TableEntries
<1>9. virt_to_phys(a) = ((n * E) \div E) * E + (a % E)
  <2> HIDE DEF n
  <2>1. virt_to_phys(a) =
          (EntryAt(a, 1, BOOT_PDE).addr \div Pow(1)) * Pow(1) + (a % Pow(1))
    BY <1>6, <1>7, <1>8, Places, LargePageWalk
  <2> QED
    BY <2>1, <1>8, Powers
<1>10. (n * E) \div E = n
  <2> HIDE DEF n
  <2>1. n * E + 0 = n * E
    BY <1>1, <1>3
  <2> QED
    BY <2>1, <1>1, <1>3, Digits
<1> HIDE DEF n
<1> QED
  BY <1>3, <1>9, <1>10

\* The digits of an address that is put together from four indices.
LEMMA AddressDigits ==
    ASSUME NEW d3 \in 0 .. Entries - 1, NEW d2 \in 0 .. Entries - 1,
           NEW d1 \in 0 .. Entries - 1, NEW d0 \in 0 .. Entries - 1,
           NEW a, a = d3 * Pow(3) + d2 * Pow(2) + d1 * Pow(1) + d0
    PROVE  /\ a \in Nat
           /\ (a \div Pow(3)) % Entries = d3 /\ (a \div Pow(2)) % Entries = d2
           /\ (a \div Pow(1)) % Entries = d1 /\ (a \div Pow(0)) % Entries = d0
<1> DEFINE E == Entries
           E2 == E * E
           E3 == E * E * E
<1>1. E \in Nat /\ E > 1 /\ E2 \in Nat /\ E3 \in Nat /\ E3 = E2 * E
  BY Powers
<1>2. a = d3 * E3 + d2 * E2 + d1 * E + d0
  BY Powers
<1>3. d3 \in Nat /\ d2 \in Nat /\ d1 \in Nat /\ d0 \in Nat /\ d3 < E /\ d2 < E /\ d1 < E /\ d0 < E
  BY <1>1
<1>4. d1 * E + d0 \in Nat /\ d1 * E + d0 < E2
  <2>1. d1 * E <= (E - 1) * E
    BY <1>1, <1>3
  <2>2. (E - 1) * E = E2 - E
    BY <1>1
  <2> QED
    BY <2>1, <2>2, <1>1, <1>3
<1>5. d2 * E2 + (d1 * E + d0) \in Nat /\ d2 * E2 + (d1 * E + d0) < E3
  <2> HIDE DEF E2
  <2>1. d2 * E2 <= (E - 1) * E2 /\ d2 * E2 \in Nat
    BY <1>1, <1>3
  <2>2. (E - 1) * E2 = E2 * E - E2
    BY <1>1
  <2> QED
    BY <2>1, <2>2, <1>1, <1>4
<1> DEFINE H2 == d3 * E + d2
           H1 == H2 * E + d1
<1>6. H2 \in Nat /\ H1 \in Nat
  BY <1>1, <1>3
<1>7. a = d3 * E3 + (d2 * E2 + (d1 * E + d0))
  BY <1>1, <1>2, <1>3
<1>8. a = H2 * E2 + (d1 * E + d0)
  <2>1. H2 * E2 = (d3 * E) * E2 + d2 * E2
    BY <1>1, <1>3
  <2>2. (d3 * E) * E2 = d3 * E3
    BY <1>1, <1>3
  <2> QED
    BY <1>1, <1>3, <1>7, <2>1, <2>2
<1>9. a = H1 * E + d0
  <2>1. H1 * E = (H2 * E) * E + d1 * E
    <3> HIDE DEF H2
    <3> QED
      BY <1>1, <1>3, <1>6
  <2>2. (H2 * E) * E = H2 * E2
    <3> HIDE DEF H2
    <3> QED
      BY <1>1, <1>6
  <2> HIDE DEF H2
  <2> QED
    BY <1>1, <1>3, <1>6, <1>8, <2>1, <2>2
<1>10. a \in Nat
  <2> HIDE DEF H1
  <2> QED
    BY <1>1, <1>3, <1>6, <1>9
<1>11. (a \div E3) % E = d3
  <2> DEFINE r == d2 * E2 + (d1 * E + d0)
  <2>1. r \in Nat /\ r < E3 /\ a = d3 * E3 + r
    BY <1>5, <1>7
  <2> HIDE DEF r, E3
  <2>2. (d3 * E3 + r) \div E3 = d3
    BY <1>1, <1>3, <2>1, Digits, Zenon
  <2>3. d3 % E = d3
    BY <1>1, <1>3, SmallRemainder
  <2> QED
    BY <2>1, <2>2, <2>3
<1>12. (a \div E2) % E = d2
  <2> DEFINE r == d1 * E + d0
  <2>1. r \in Nat /\ r < E2 /\ a = (d3 * E + d2) * E2 + r
    BY <1>4, <1>8
  <2> HIDE DEF r, E2
  <2>2. (((d3 * E + d2) * E2 + r) \div E2) % E = d2
    BY <1>1, <1>3, <2>1, MiddleDigit, SMTT(30)
  <2> QED
    BY <2>1, <2>2
<1>13. (a \div E) % E = d1
  <2> HIDE DEF H2
  <2>1. (((H2 * E + d1) * E + d0) \div E) % E = d1
    BY <1>1, <1>3, <1>6, MiddleDigit, Zenon
  <2> QED
    BY <2>1, <1>9
<1>14. (a \div 1) % E = d0
  <2> HIDE DEF H1
  <2>1. a \div 1 = a
    BY <1>10
  <2>2. (H1 * E + d0) % E = d0
    BY <1>1, <1>3, <1>6, Digits, Zenon
  <2> QED
    BY <2>1, <2>2, <1>9
<1> QED
  BY <1>10, <1>11, <1>12, <1>13, <1>14, Powers

\* The last entry of the top-level table leads back to that table, so that the
\* tables are found at the addresses made of it.
LEMMA SelfMapped ==
    ASSUME TablesInPlace, NEW d2 \in 0 .. Entries - 1, NEW d1 \in 0 .. Entries - 1,
           NEW d0 \in 0 .. Entries - 1, NEW t1 \in Nat, NEW t0 \in Nat, NEW t \in Nat,
           TableEntry(BOOT_PML4, d2).addr = t1, ~TableEntry(BOOT_PML4, d2).huge,
           TableEntry(t1, d1).addr = t0, ~TableEntry(t1, d1).huge,
           TableEntry(t0, d0).addr = t
    PROVE  virt_to_phys((Entries - 1) * Pow(3) + d2 * Pow(2) + d1 * Pow(1) + d0) = t
<1> DEFINE top == Entries - 1
           a == top * Pow(3) + d2 * Pow(2) + d1 * Pow(1) + d0
<1>1. top \in 0 .. Entries - 1
  BY Powers
<1> HIDE DEF top, a
<1>2. /\ a \in Nat
      /\ (a \div Pow(3)) % Entries = top /\ (a \div Pow(2)) % Entries = d2
      /\ (a \div Pow(1)) % Entries = d1 /\ (a \div Pow(0)) % Entries = d0
  BY <1>1, AddressDigits DEF a
<1>3. EntryAt(a, 3, BOOT_PML4).addr = BOOT_PML4 /\ ~EntryAt(a, 3, BOOT_PML4).huge
  BY <1>2, TableEntries DEF EntryAt, top
<1>4. EntryAt(a, 2, BOOT_PML4).addr = t1 /\ ~EntryAt(a, 2, BOOT_PML4).huge
  BY <1>2 DEF EntryAt
<1>5. EntryAt(a, 1, t1).addr = t0 /\ ~EntryAt(a, 1, t1).huge
  BY <1>2 DEF EntryAt
<1>6. EntryAt(a, 0, t0).addr = t
  BY <1>2 DEF EntryAt
<1>7. virt_to_phys(a) = t
  BY <1>2, <1>3, <1>4, <1>5, <1>6, Places, BasePageWalk, Zenon
<1> QED
  BY <1>7 DEF a, top

\* With the tables in place, addresses are translated as BootTranslation says.
LEMMA Translation == TablesInPlace => BootTranslation
<1> SUFFICES ASSUME TablesInPlace PROVE BootTranslation
  OBVIOUS
<1> DEFINE top == Entries - 1
<1>1. top \in 0 .. Entries - 1 /\ 0 \in 0 .. Entries - 1
  BY Powers
<1>2. /\ TableEntry(BOOT_PML4, top).addr = BOOT_PML4 /\ ~TableEntry(BOOT_PML4, top).huge
      /\ TableEntry(BOOT_PML4, 0).addr = BOOT_PDPTE /\ ~TableEntry(BOOT_PML4, 0).huge
      /\ TableEntry(BOOT_PDPTE, 0).addr = BOOT_PDE
  BY TableEntries
<1>3. virt_to_phys(top * Pow(3) + top * Pow(2) + top * Pow(1) + top) = BOOT_PML4
  BY <1>1, <1>2, Places, SelfMapped
<1>4. virt_to_phys(top * Pow(3) + top * Pow(2) + top * Pow(1) + 0) = BOOT_PDPTE
  BY <1>1, <1>2, Places, SelfMapped
<1>5. virt_to_phys(top * Pow(3) + top * Pow(2) + 0 * Pow(1) + 0) = BOOT_PDE
  BY <1>1, <1>2, Places, SelfMapped
<1>6. \A a \in 0 .. Pow(2) - 1 : virt_to_phys(a) = a
  BY IdentityMapped
<1> QED
  BY <1>3, <1>4, <1>5, <1>6 DEF BootTranslation

-------------------------------------------------------------------------------
(* Kernels *)

\* What a segment of a well-formed kernel has, base being where it is linked.
SegmentFits(s, base) ==
    /\ s.p_vaddr \in Nat /\ s.p_filesz \in Nat \ {0} /\ s.p_memsz \in Nat
    /\ s.p_filesz <= s.p_memsz
    /\ base <= s.p_vaddr /\ s.p_vaddr + s.p_memsz <= base + Span

\* A kernel has one or two segments, in order.
LEMMA LayoutFits ==
    ASSUME NEW base \in Nat, NEW ss \in Layouts(base)
    PROVE  /\ Len(ss) \in 1 .. 2 /\ DOMAIN ss = 1 .. Len(ss)
           /\ \A n \in DOMAIN ss : SegmentFits(ss[n], base)
           /\ \A m, n \in DOMAIN ss : m < n => ss[m].p_vaddr + ss[m].p_memsz <= ss[n].p_vaddr
<1>1. ASSUME NEW s \in Segment(base) PROVE SegmentFits(s, base)
  BY SizesAssumption DEF Segment, SegmentFits
<1>2. CASE ss \in {<<s>> : s \in Segment(base)}
  <2>1. PICK s \in Segment(base) : ss = <<s>>
    BY <1>2
  <2> QED
    BY <1>1, <2>1
<1>3. CASE ss \in {tt \in Segment(base) \X Segment(base) :
                     tt[1].p_vaddr + tt[1].p_memsz <= tt[2].p_vaddr}
  <2>1. PICK r \in Segment(base), s \in Segment(base) :
           ss = <<r, s>> /\ r.p_vaddr + r.p_memsz <= s.p_vaddr
    BY <1>3
  <2>2. Len(ss) = 2 /\ DOMAIN ss = 1 .. 2 /\ ss[1] = r /\ ss[2] = s
    BY <2>1
  <2> QED
    BY <1>1, <2>1, <2>2
<1> QED
  BY <1>2, <1>3 DEF Layouts

\* Where a kernel is linked.
link_base(k) == IF k.is_dyn THEN 0 ELSE StaticStart

\* Entry point, TLS template and relocations of a kernel are in its file.
LEMMA KernelFits ==
    ASSUME NEW k \in Kernels
    PROVE  /\ k.is_dyn \in BOOLEAN
           /\ k.segs \in Layouts(link_base(k))
           /\ k.entry \in FilePages(k.segs) /\ k.tls \in FilePages(k.segs)
           /\ k.relas \subseteq FilePages(k.segs)
           /\ ~k.is_dyn => k.relas = {}
<1> DEFINE Set(is_dyn, segs) ==
             [is_dyn : {is_dyn}, usable : BOOLEAN, segs : {segs},
              entry : FilePages(segs), tls : FilePages(segs),
              relas : IF is_dyn THEN {{}, FilePages(segs)} \cup {{p} : p \in FilePages(segs)}
                      ELSE {{}}]
<1>0. k \in UNION {UNION {Set(is_dyn, segs) : segs \in Layouts(IF is_dyn THEN 0 ELSE StaticStart)} :
                       is_dyn \in BOOLEAN}
  BY DEF Kernels
<1> HIDE DEF Set
<1>1. PICK is_dyn \in BOOLEAN :
        k \in UNION {Set(is_dyn, segs) : segs \in Layouts(IF is_dyn THEN 0 ELSE StaticStart)}
  BY <1>0
<1>2. PICK segs \in Layouts(IF is_dyn THEN 0 ELSE StaticStart) : k \in Set(is_dyn, segs)
  BY <1>1
<1>3. /\ k.is_dyn = is_dyn /\ k.segs = segs
      /\ k.entry \in FilePages(segs) /\ k.tls \in FilePages(segs)
  BY <1>2, Zenon DEF Set
<1>4. k.relas \in IF is_dyn THEN {{}, FilePages(segs)} \cup {{p} : p \in FilePages(segs)} ELSE {{}}
  BY <1>2, Zenon DEF Set
<1>5. k.relas \subseteq FilePages(segs) /\ (~is_dyn => k.relas = {})
  BY <1>4, SMT
<1> QED
  BY <1>2, <1>3, <1>5, Zenon DEF link_base

-------------------------------------------------------------------------------
(* The inductive invariant *)

Loading == {"segments", "loaded", "ready"}
Created == {"created"} \cup Loading
Mapped  == {"mapped"} \cup Created
Phases  == {"new", "failed", "wild"} \cup Mapped

\* How far from its link address a page of the kernel is loaded.
Bias == IF kernel.is_dyn THEN DynStart ELSE 0

\* What the page with link address v of segment s holds: its contents at first,
\* and the relocated page later.
PageNow(s, v) ==
    IF phase # "segments" THEN ImagePage(s, v)
    ELSE IF v < s.p_vaddr + s.p_filesz THEN Page("file", v) ELSE Zero

BootTypes ==
    /\ kernel \in Kernels /\ mem_size \in Nat
    /\ phase \in Phases /\ threads \subseteq Rings
    /\ i \in 0 .. Len(kernel.segs)
    /\ phase \in {"new", "mapped", "created"} => i = 0
    /\ boot_info \in [base : Nat, limit : Nat, image_size : Nat, tls_start : Nat,
                      current_stack_address : Nat]

DomainInv ==
    /\ DOMAIN memory \in {{}, 0 .. mem_size - 1}
    /\ phase = "new" => DOMAIN memory = {}
    /\ phase \in Mapped => DOMAIN memory = 0 .. mem_size - 1

\* Nobody but the boot structures uses memory below the kernel, and a ring holds
\* nothing or what its thread has put there.
LowInv ==
    phase \in Mapped =>
        /\ \A p \in 0 .. mem_size - 1 : p \notin Structures /\ p < start_address => memory[p] = Zero
        /\ \A r \in Rings \cap DOMAIN memory : memory[r] \in {Zero, Page("ring", 0)}

TablesInv == phase \in Created => TablesInPlace

\* The boot information, and what load_kernel keeps.
InfoInv ==
    phase \in Loading =>
        /\ memory[BOOT_INFO_ADDR] = Page("info", 0)
        /\ offset = start_address /\ entry_point = Bias + kernel.entry
        /\ boot_info.base = start_address
        /\ boot_info.current_stack_address = start_address - KERNEL_STACK_SIZE
        /\ kernel.is_dyn /\ i > 0 =>
             boot_info.image_size = kernel.segs[i].p_vaddr + kernel.segs[i].p_memsz

\* The segments that have been loaded are in memory, and stay there.
SegmentsInv ==
    phase \in Loading =>
        \A n \in 1 .. i :
            LET s == kernel.segs[n] IN
            /\ Bias + s.p_vaddr + s.p_memsz <= mem_size
            /\ \A v \in s.p_vaddr .. s.p_vaddr + s.p_memsz - 1 : memory[Bias + v] = PageNow(s, v)

DoneInv ==
    /\ phase \in {"loaded", "ready"} =>
          i = Len(kernel.segs) /\ boot_info.tls_start = Bias + kernel.tls
    /\ phase = "ready" =>
          vcpu = [rip |-> entry_point, rdi |-> BOOT_INFO_ADDR, cr3 |-> BOOT_PML4]

BootInv ==
    /\ BootTypes /\ DomainInv /\ LowInv /\ TablesInv
    /\ InfoInv /\ SegmentsInv /\ DoneInv

-------------------------------------------------------------------------------
(* Where the kernel lies *)

\* The kernel is loaded above the structures and its stack, below the gap in
\* guest memory and inside what the boot page tables map.
LEMMA KernelPlace ==
    ASSUME kernel \in Kernels
    PROVE  /\ start_address \in Nat /\ Bias \in Nat /\ link_base(kernel) \in Nat
           /\ Bias + link_base(kernel) = start_address
           /\ \A p \in Structures : p < start_address - KERNEL_STACK_SIZE
           /\ start_address + Span <= KVM_32BIT_GAP_START
           /\ start_address + Span <= Pow(2)
           /\ kernel.relas # {} => Bias = start_address
<1>1. kernel.is_dyn \in BOOLEAN /\ (~kernel.is_dyn => kernel.relas = {})
  BY KernelFits
<1>2. /\ DynStart \in Nat /\ StaticStart \in Nat /\ DynStart <= StaticStart
      /\ Span \in Nat /\ KERNEL_STACK_SIZE \in Nat
      /\ KVM_32BIT_GAP_START \in Nat /\ StaticStart + Span <= KVM_32BIT_GAP_START
      /\ StaticStart + Span <= Pow(2) /\ Pow(2) \in Nat
      /\ \A p \in Structures : p \in Nat /\ p < DynStart - KERNEL_STACK_SIZE
  BY LayoutAssumption, SizesAssumption, Powers
<1>3. CASE kernel.is_dyn
  <2>1. start_address = DynStart /\ Bias = DynStart /\ link_base(kernel) = 0
    BY <1>3, Zenon DEF start_address, Bias, link_base
  <2> QED
    BY <1>2, <2>1
<1>4. CASE ~kernel.is_dyn
  <2>1. /\ start_address = StaticStart /\ Bias = 0 /\ link_base(kernel) = StaticStart
        /\ kernel.relas = {}
    BY <1>1, <1>4, Zenon DEF start_address, Bias, link_base
  <2> QED
    BY <1>2, <2>1
<1> QED
  BY <1>3, <1>4

\* The segments lie in order between the start address and Span pages later.
LEMMA SegmentPlace ==
    ASSUME kernel \in Kernels
    PROVE  /\ Len(kernel.segs) \in 1 .. 2 /\ DOMAIN kernel.segs = 1 .. Len(kernel.segs)
           /\ \A n \in 1 .. Len(kernel.segs) :
                /\ kernel.segs[n].p_vaddr \in Nat /\ kernel.segs[n].p_memsz \in Nat
                /\ kernel.segs[n].p_filesz \in Nat \ {0}
                /\ kernel.segs[n].p_filesz <= kernel.segs[n].p_memsz
                /\ start_address <= Bias + kernel.segs[n].p_vaddr
                /\ Bias + kernel.segs[n].p_vaddr + kernel.segs[n].p_memsz <= start_address + Span
           /\ \A m, n \in 1 .. Len(kernel.segs) : m < n =>
                kernel.segs[m].p_vaddr + kernel.segs[m].p_memsz <= kernel.segs[n].p_vaddr
<1> DEFINE ss == kernel.segs
           base == link_base(kernel)
<1>1. base \in Nat /\ Bias \in Nat /\ start_address \in Nat /\ Bias + base = start_address
      /\ Span \in Nat
  BY KernelPlace, SizesAssumption
<1>2. ss \in Layouts(base)
  BY KernelFits
<1> HIDE DEF base
<1>3. /\ Len(ss) \in 1 .. 2 /\ DOMAIN ss = 1 .. Len(ss)
      /\ \A n \in DOMAIN ss : SegmentFits(ss[n], base)
      /\ \A m, n \in DOMAIN ss : m < n => ss[m].p_vaddr + ss[m].p_memsz <= ss[n].p_vaddr
  BY <1>1, <1>2, LayoutFits
<1> HIDE DEF ss
<1>4. ASSUME NEW n \in 1 .. Len(ss)
      PROVE  /\ ss[n].p_vaddr \in Nat /\ ss[n].p_memsz \in Nat /\ ss[n].p_filesz \in Nat \ {0}
             /\ ss[n].p_filesz <= ss[n].p_memsz
             /\ start_address <= Bias + ss[n].p_vaddr
             /\ Bias + ss[n].p_vaddr + ss[n].p_memsz <= start_address + Span
  <2>1. SegmentFits(ss[n], base)
    BY <1>3
  <2> QED
    BY <1>1, <2>1, SMTT(30) DEF SegmentFits
<1> QED
  BY <1>3, <1>4, Zenon DEF ss

\* A page that comes from the file belongs to a segment.
LEMMA FilePage ==
    ASSUME kernel \in Kernels, NEW v \in FilePages(kernel.segs)
    PROVE  /\ v \in Nat
           /\ \E n \in 1 .. Len(kernel.segs) :
                v \in kernel.segs[n].p_vaddr ..
                      kernel.segs[n].p_vaddr + kernel.segs[n].p_filesz - 1
<1>1. PICK n \in DOMAIN kernel.segs :
        v \in kernel.segs[n].p_vaddr .. kernel.segs[n].p_vaddr + kernel.segs[n].p_filesz - 1
  BY DEF FilePages
<1> QED
  BY <1>1, SegmentPlace

\* A page of a segment that ends before page m, in link addresses and in memory.
LEMMA InSegment ==
    ASSUME NEW b \in Nat, NEW lo \in Nat, NEW sz \in Nat, NEW m \in Nat,
           b + lo + sz <= m, NEW v \in lo .. lo + sz - 1
    PROVE  /\ v \in Nat /\ lo <= v /\ v < lo + sz
           /\ b + v \in 0 .. m - 1 /\ b + lo <= b + v /\ b + v < b + lo + sz
<1>1. v \in Nat /\ lo <= v /\ v < lo + sz
  OBVIOUS
<1> QED
  BY <1>1

\* The code distinguishes the two kinds of kernel wherever it computes a place;
\* both add the same distance to a link address.
LEMMA LinkAddresses ==
    ASSUME kernel \in Kernels
    PROVE  /\ elf_entry = Bias + kernel.entry
           /\ (IF kernel.is_dyn THEN start_address + kernel.tls ELSE kernel.tls) = Bias + kernel.tls
           /\ \A n \in 1 .. Len(kernel.segs) :
                region_start(kernel.segs[n]) = Bias + kernel.segs[n].p_vaddr
<1>1. kernel.is_dyn \in BOOLEAN /\ kernel.entry \in Nat /\ kernel.tls \in Nat
  BY KernelFits, FilePage
<1>2. \A n \in 1 .. Len(kernel.segs) : kernel.segs[n].p_vaddr \in Nat
  BY SegmentPlace
<1>3. CASE kernel.is_dyn
  <2>1. start_address = Bias
    BY <1>3, Zenon DEF start_address, Bias
  <2> QED
    BY <1>3, <2>1, Zenon DEF elf_entry, region_start
<1>4. CASE ~kernel.is_dyn
  <2>1. Bias = 0
    BY <1>4, Zenon DEF Bias
  <2>2. /\ elf_entry = kernel.entry
        /\ (IF kernel.is_dyn THEN start_address + kernel.tls ELSE kernel.tls) = kernel.tls
        /\ \A n \in 1 .. Len(kernel.segs) : region_start(kernel.segs[n]) = kernel.segs[n].p_vaddr
    BY <1>4, Zenon DEF elf_entry, region_start
  <2> QED
    BY <1>1, <1>2, <2>1, <2>2
<1> QED
  BY <1>3, <1>4

-------------------------------------------------------------------------------
(* What the invariant gives *)

\* Once the kernel is loaded, every page of it is in memory as the kernel
\* expects it.
LEMMA ImageInMemory ==
    ASSUME BootInv, phase \in {"loaded", "ready"}, NEW n \in 1 .. Len(kernel.segs),
           NEW v \in kernel.segs[n].p_vaddr .. kernel.segs[n].p_vaddr + kernel.segs[n].p_memsz - 1
    PROVE  /\ Bias + v \in DOMAIN memory /\ Bias + v \in Backed
           /\ start_address <= Bias + v /\ Bias + v < Pow(2)
           /\ memory[Bias + v] = ImagePage(kernel.segs[n], v)
<1> DEFINE s == kernel.segs[n]
<1>1. kernel \in Kernels /\ mem_size \in Nat /\ DOMAIN memory = 0 .. mem_size - 1
      /\ i = Len(kernel.segs)
  BY DEF BootInv, BootTypes, DomainInv, DoneInv, Mapped, Created, Loading
<1>2. /\ s.p_vaddr \in Nat /\ s.p_memsz \in Nat /\ start_address <= Bias + s.p_vaddr
      /\ Bias + s.p_vaddr + s.p_memsz <= start_address + Span
  BY <1>1, SegmentPlace
<1>3. /\ Bias \in Nat /\ start_address \in Nat /\ Span \in Nat /\ Pow(2) \in Nat
      /\ start_address + Span <= KVM_32BIT_GAP_START /\ KVM_32BIT_GAP_START \in Nat
      /\ start_address + Span <= Pow(2)
  BY <1>1, KernelPlace, SizesAssumption, Powers
<1>4. Bias + s.p_vaddr + s.p_memsz <= mem_size
  BY <1>1 DEF BootInv, SegmentsInv, Loading
<1>5. memory[Bias + v] = PageNow(s, v)
  BY <1>1 DEF BootInv, SegmentsInv, Loading
<1>6. PageNow(s, v) = ImagePage(s, v)
  BY DEF PageNow
<1> HIDE DEF s
<1>7. Bias + v \in 0 .. mem_size - 1
  <2>1. v \in s.p_vaddr .. s.p_vaddr + s.p_memsz - 1
    BY DEF s
  <2> QED
    BY <1>1, <1>2, <1>3, <1>4, <2>1, InSegment, Zenon
<1>8. /\ Bias + v \in Nat /\ start_address <= Bias + v
      /\ Bias + v < KVM_32BIT_GAP_START /\ Bias + v < Pow(2)
  <2>1. v \in s.p_vaddr .. s.p_vaddr + s.p_memsz - 1
    BY DEF s
  <2>2. PICK e \in Nat : e = start_address + Span
    BY <1>3
  <2>3. Bias + v \in 0 .. e - 1 /\ Bias + s.p_vaddr <= Bias + v
    BY <1>2, <1>3, <2>1, <2>2, InSegment, SMTT(30)
  <2>4. PICK p \in Nat : p = Bias + v
    BY <2>3
  <2>5. p < e /\ e <= KVM_32BIT_GAP_START /\ e <= Pow(2)
    BY <1>3, <2>2, <2>3, <2>4
  <2>6. start_address <= p
    <3>1. PICK f \in Nat : f = Bias + s.p_vaddr
      BY <1>2, <1>3
    <3> QED
      BY <1>2, <1>3, <2>3, <2>4, <3>1, SMTT(30)
  <2> QED
    BY <1>3, <2>4, <2>5, <2>6
<1> QED
  BY <1>1, <1>5, <1>6, <1>7, <1>8 DEF Backed, s

\* The invariant implies ImageIntact: all segments have been loaded.
LEMMA GivesImage == BootInv => ImageIntact
<1> SUFFICES ASSUME BootInv, phase \in {"loaded", "ready"}, NEW n \in DOMAIN kernel.segs,
                    NEW v \in kernel.segs[n].p_vaddr ..
                              kernel.segs[n].p_vaddr + kernel.segs[n].p_memsz - 1
             PROVE  LET bias == IF kernel.is_dyn THEN offset ELSE 0
                    IN  bias + v \in Backed /\ memory[bias + v] = ImagePage(kernel.segs[n], v)
  BY Zenon DEF ImageIntact
<1>1. kernel \in Kernels /\ offset = start_address
  BY DEF BootInv, BootTypes, InfoInv, Loading
<1>2. n \in 1 .. Len(kernel.segs)
  BY <1>1, SegmentPlace
<1>3. (IF kernel.is_dyn THEN offset ELSE 0) = Bias
  BY <1>1, Zenon DEF Bias, start_address
<1>4. Bias + v \in Backed /\ memory[Bias + v] = ImagePage(kernel.segs[n], v)
  BY <1>2, ImageInMemory
<1> QED
  BY <1>3, <1>4, Zenon

\* The page of the image with link address v, for a v that comes from the file.
LEMMA FilePageInMemory ==
    ASSUME BootInv, phase \in {"loaded", "ready"}, NEW v \in FilePages(kernel.segs)
    PROVE  /\ Bias + v \in 0 .. Pow(2) - 1
           /\ memory[Bias + v].kind \in {"file", "relocated"} /\ memory[Bias + v].n = v
<1>1. kernel \in Kernels
  BY DEF BootInv, BootTypes
<1>2. PICK n \in 1 .. Len(kernel.segs) :
        v \in kernel.segs[n].p_vaddr .. kernel.segs[n].p_vaddr + kernel.segs[n].p_filesz - 1
  BY <1>1, FilePage
<1> DEFINE s == kernel.segs[n]
<1>3. s.p_vaddr \in Nat /\ s.p_memsz \in Nat /\ s.p_filesz \in Nat /\ s.p_filesz <= s.p_memsz
  BY <1>1, SegmentPlace
<1>4. v \in s.p_vaddr .. s.p_vaddr + s.p_memsz - 1 /\ v < s.p_vaddr + s.p_filesz /\ v \in Nat
  <2>1. v \in s.p_vaddr .. s.p_vaddr + s.p_filesz - 1
    BY <1>2
  <2> HIDE DEF s
  <2>2. v \in Nat /\ s.p_vaddr <= v /\ v < s.p_vaddr + s.p_filesz
    BY <1>3, <2>1
  <2> QED
    BY <1>3, <2>2
<1>5. /\ start_address <= Bias + v /\ Bias + v < Pow(2)
      /\ memory[Bias + v] = ImagePage(s, v)
  BY <1>4, ImageInMemory
<1>6. Bias \in Nat /\ Pow(2) \in Nat
  BY <1>1, KernelPlace, Powers
<1>7. Bias + v \in 0 .. Pow(2) - 1
  BY <1>4, <1>5, <1>6
<1>8. ImagePage(s, v) \in {Page("relocated", v), Page("file", v)}
  BY <1>4 DEF ImagePage
<1> QED
  BY <1>5, <1>7, <1>8 DEF Page

\* Nothing has touched the stack.
LEMMA StackIsUntouched ==
    ASSUME BootInv, phase \in {"loaded", "ready"},
           NEW p \in boot_info.current_stack_address .. boot_info.base - 1
    PROVE  memory[p] = Zero
<1>1. /\ kernel \in Kernels /\ mem_size \in Nat /\ i = Len(kernel.segs)
      /\ boot_info.base = start_address
      /\ boot_info.current_stack_address = start_address - KERNEL_STACK_SIZE
  BY DEF BootInv, BootTypes, DoneInv, InfoInv, Loading
<1>2. /\ start_address \in Nat /\ KERNEL_STACK_SIZE \in Nat
      /\ \A q \in Structures : q < start_address - KERNEL_STACK_SIZE
      /\ BOOT_GDT \in Structures /\ BOOT_GDT \in Nat /\ Structures \subseteq Nat
  BY <1>1, KernelPlace, Places, SizesAssumption, ZenonT(30) DEF Structures
<1>3. p \in Nat /\ p \notin Structures /\ p < start_address
  BY <1>1, <1>2
<1>4. start_address <= mem_size
  <2>0. i \in 1 .. 2
    BY <1>1, SegmentPlace
  <2>1. 1 \in 1 .. i
    BY <2>0
  <2> DEFINE s == kernel.segs[1]
  <2>2. /\ s.p_vaddr \in Nat /\ s.p_memsz \in Nat /\ start_address <= Bias + s.p_vaddr
        /\ Bias \in Nat
    BY <1>1, <2>1, SegmentPlace, KernelPlace, Zenon
  <2>3. Bias + s.p_vaddr + s.p_memsz <= mem_size
    BY <2>1 DEF BootInv, SegmentsInv, Loading
  <2> HIDE DEF s
  <2> QED
    BY <1>1, <1>2, <2>2, <2>3
<1>5. p \in 0 .. mem_size - 1
  BY <1>1, <1>2, <1>3, <1>4
<1> QED
  BY <1>3, <1>5 DEF BootInv, LowInv, Mapped, Created, Loading

\* The invariant implies HandoverIntact, what setup_long_mode relies on.
LEMMA GivesHandover == BootInv => HandoverIntact
<1> SUFFICES ASSUME BootInv, phase = "ready" PROVE HandoverIntact
  BY DEF HandoverIntact
<1>1. /\ kernel \in Kernels /\ TablesInPlace
      /\ memory[BOOT_INFO_ADDR] = Page("info", 0)
      /\ entry_point = Bias + kernel.entry /\ boot_info.tls_start = Bias + kernel.tls
      /\ i = Len(kernel.segs)
      /\ vcpu = [rip |-> entry_point, rdi |-> BOOT_INFO_ADDR, cr3 |-> BOOT_PML4]
  BY DEF BootInv, BootTypes, TablesInv, InfoInv, DoneInv, Loading, Created
<1>2. vcpu.rip = Bias + kernel.entry /\ vcpu.rdi = BOOT_INFO_ADDR /\ vcpu.cr3 = BOOT_PML4
  BY <1>1
<1>3. kernel.entry \in FilePages(kernel.segs) /\ kernel.tls \in FilePages(kernel.segs)
  BY <1>1, KernelFits
<1>4. /\ Bias + kernel.entry \in 0 .. Pow(2) - 1
      /\ memory[Bias + kernel.entry].kind \in {"file", "relocated"}
      /\ memory[Bias + kernel.entry].n = kernel.entry
      /\ memory[Bias + kernel.tls].n = kernel.tls
  BY <1>3, FilePageInMemory
<1>5. virt_to_phys(vcpu.rip) = Bias + kernel.entry
  BY <1>1, <1>2, <1>4, IdentityMapped
<1>6. virt_to_phys(vcpu.rdi) = BOOT_INFO_ADDR
  <2>1. BOOT_INFO_ADDR < start_address - KERNEL_STACK_SIZE /\ BOOT_INFO_ADDR \in Nat
    BY <1>1, KernelPlace, Places DEF Structures
  <2>2. /\ start_address \in Nat /\ KERNEL_STACK_SIZE \in Nat /\ Span \in Nat /\ Pow(2) \in Nat
        /\ start_address + Span <= Pow(2)
    BY <1>1, KernelPlace, SizesAssumption, Powers
  <2>3. BOOT_INFO_ADDR \in 0 .. Pow(2) - 1
    BY <2>1, <2>2
  <2> QED
    BY <1>1, <1>2, <2>3, IdentityMapped
<1>7. memory[vcpu.cr3].kind = "pml4" /\ memory[BOOT_GDT].kind = "gdt"
      /\ memory[BOOT_INFO_ADDR].kind = "info"
  BY <1>1, <1>2 DEF TablesInPlace, Page
<1>8. \A r \in Rings \cap DOMAIN memory : memory[r] \in {Zero, Page("ring", 0)}
  BY DEF BootInv, LowInv, Mapped, Created, Loading
<1>9. kernel.is_dyn => LET last == kernel.segs[Len(kernel.segs)]
                       IN  boot_info.image_size = last.p_vaddr + last.p_memsz
  <2>1. i > 0
    BY <1>1, SegmentPlace
  <2> QED
    BY <1>1, <2>1 DEF BootInv, InfoInv, Loading
<1> QED
  BY <1>1, <1>2, <1>4, <1>5, <1>6, <1>7, <1>8, <1>9, StackIsUntouched, SMTT(30) DEF HandoverIntact

\* The invariant implies BootTranslation: the tables stay in place.
LEMMA GivesTranslation == BootInv => BootTranslation
  BY Translation DEF BootInv, TablesInv, BootTranslation, Created, Loading

-------------------------------------------------------------------------------
(* The steps of Boot *)

\* The names for the phases.
LEMMA PhaseNames ==
    /\ Loading = {"segments", "loaded", "ready"}
    /\ Created = {"created", "segments", "loaded", "ready"}
    /\ Mapped = {"mapped", "created", "segments", "loaded", "ready"}
    /\ Phases = {"new", "failed", "wild", "mapped", "created", "segments", "loaded", "ready"}
  BY DEF Loading, Created, Mapped, Phases

\* A VM that does not exist yet.
LEMMA FreshInv ==
    ASSUME kernel \in Kernels, mem_size \in Nat, Fresh
    PROVE  BootInv
<1>1. BootTypes
  <2>1. 0 \in 0 .. Len(kernel.segs)
    BY SegmentPlace
  <2>2. NoInfo \in [base : Nat, limit : Nat, image_size : Nat, tls_start : Nat,
                    current_stack_address : Nat]
    BY DEF NoInfo
  <2> QED
    BY <2>1, <2>2, PhaseNames DEF BootTypes, Fresh
<1>2. DomainInv
  BY PhaseNames DEF DomainInv, Fresh
<1>3. LowInv /\ TablesInv /\ InfoInv /\ SegmentsInv /\ DoneInv
  BY PhaseNames DEF LowInv, TablesInv, InfoInv, SegmentsInv, DoneInv, Fresh
<1> QED
  BY <1>1, <1>2, <1>3 DEF BootInv

\* A step that ends in an early phase, in failure or in the wild leaves no more
\* to show than types, the domain of memory and what is low.
LEMMA EarlyInv ==
    ASSUME BootTypes', DomainInv', LowInv', phase' \notin Created
    PROVE  BootInv'
<1>1. phase' \notin Loading /\ phase' \notin {"loaded", "ready"}
  BY PhaseNames
<1>2. TablesInv' /\ InfoInv' /\ SegmentsInv' /\ DoneInv'
  BY <1>1 DEF TablesInv, InfoInv, SegmentsInv, DoneInv
<1> QED
  BY <1>2 DEF BootInv

\* Uhyve::new maps memory that is all zero.
LEMMA MapMemoryInv == BootInv /\ MapMemory => BootInv'
<1> SUFFICES ASSUME BootInv, MapMemory PROVE BootInv'
  OBVIOUS
<1>1. /\ phase = "new" /\ phase' = "mapped" /\ kernel' = kernel /\ mem_size' = mem_size
      /\ memory' = [p \in 0 .. mem_size - 1 |-> Zero] /\ threads' \in {{}, Rings}
      /\ i' = i /\ boot_info' = boot_info
  BY DEF MapMemory, vmVars
<1>2. BootTypes'
  BY <1>1, PhaseNames DEF BootInv, BootTypes
<1>3. DOMAIN memory' = 0 .. mem_size - 1 /\ \A p \in 0 .. mem_size - 1 : memory'[p] = Zero
  BY <1>1
<1>4. DomainInv'
  BY <1>1, <1>3, PhaseNames DEF DomainInv
<1>5. LowInv'
  BY <1>1, <1>3 DEF LowInv
<1> QED
  BY <1>1, <1>2, <1>4, <1>5, EarlyInv, PhaseNames

\* Uhyve::new fails and leaves nothing behind.
LEMMA CreateFailsInv == BootInv /\ CreateFails => BootInv'
<1> SUFFICES ASSUME BootInv, CreateFails PROVE BootInv'
  OBVIOUS
<1>1. /\ phase' = "failed" /\ kernel' = kernel /\ mem_size' = mem_size /\ memory' = memory
      /\ threads' = threads /\ i' = i /\ boot_info' = boot_info
  BY DEF CreateFails, vmVars
<1>2. BootTypes'
  BY <1>1, PhaseNames DEF BootInv, BootTypes
<1>3. DomainInv' /\ LowInv'
  BY <1>1, PhaseNames DEF BootInv, DomainInv, LowInv
<1> QED
  BY <1>1, <1>2, <1>3, EarlyInv, PhaseNames

\* Writing a structure changes neither the other structures nor any page of
\* the kernel, nor the rest of low memory.
LEMMA Apart ==
    ASSUME BootInv, NEW q \in Structures
    PROVE  /\ phase \in Loading =>
                \A n \in 1 .. i :
                    \A v \in kernel.segs[n].p_vaddr ..
                             kernel.segs[n].p_vaddr + kernel.segs[n].p_memsz - 1 : Bias + v # q
           /\ q \in Nat
<1>1. kernel \in Kernels /\ i \in 0 .. Len(kernel.segs)
  BY DEF BootInv, BootTypes
<1>2. /\ q \in Nat /\ q < start_address - KERNEL_STACK_SIZE /\ start_address \in Nat
      /\ KERNEL_STACK_SIZE \in Nat /\ Bias \in Nat
  BY <1>1, KernelPlace, Places, SizesAssumption
<1>3. ASSUME NEW n \in 1 .. i,
             NEW v \in kernel.segs[n].p_vaddr ..
                       kernel.segs[n].p_vaddr + kernel.segs[n].p_memsz - 1
      PROVE  Bias + v # q
  <2> DEFINE s == kernel.segs[n]
  <2>1. n \in 1 .. Len(kernel.segs)
    BY <1>1
  <2>2. s.p_vaddr \in Nat /\ s.p_memsz \in Nat /\ start_address <= Bias + s.p_vaddr
    BY <1>1, <2>1, SegmentPlace
  <2>3. v \in s.p_vaddr .. s.p_vaddr + s.p_memsz - 1
    OBVIOUS
  <2> HIDE DEF s
  <2>4. v \in Nat /\ s.p_vaddr <= v
    BY <2>2, <2>3
  <2> QED
    BY <1>2, <2>2, <2>4
<1> QED
  BY <1>2, <1>3

\* The segments stay in memory when only a structure is written.
LEMMA SegmentsKept ==
    ASSUME BootInv, NEW q \in Structures,
           phase' = phase, kernel' = kernel, mem_size' = mem_size, i' = i,
           \A p : p \in DOMAIN memory /\ p # q => memory'[p] = memory[p]
    PROVE  SegmentsInv'
<1> SUFFICES ASSUME phase \in Loading, NEW n \in 1 .. i
             PROVE  LET s == kernel.segs[n] IN
                    /\ Bias + s.p_vaddr + s.p_memsz <= mem_size
                    /\ \A v \in s.p_vaddr .. s.p_vaddr + s.p_memsz - 1 :
                          memory'[Bias + v] = PageNow(s, v)
  BY DEF SegmentsInv, Bias, PageNow, ImagePage
<1> DEFINE s == kernel.segs[n]
<1>1. /\ Bias + s.p_vaddr + s.p_memsz <= mem_size
      /\ \A v \in s.p_vaddr .. s.p_vaddr + s.p_memsz - 1 : memory[Bias + v] = PageNow(s, v)
  BY DEF BootInv, SegmentsInv
<1>2. kernel \in Kernels /\ i \in 0 .. Len(kernel.segs) /\ mem_size \in Nat
      /\ DOMAIN memory = 0 .. mem_size - 1
  BY PhaseNames DEF BootInv, BootTypes, DomainInv
<1>3. s.p_vaddr \in Nat /\ s.p_memsz \in Nat /\ Bias \in Nat
  <2>1. n \in 1 .. Len(kernel.segs)
    BY <1>2, SegmentPlace
  <2> QED
    BY <1>2, <2>1, SegmentPlace, KernelPlace, Zenon
<1>4. ASSUME NEW v \in s.p_vaddr .. s.p_vaddr + s.p_memsz - 1
      PROVE  memory'[Bias + v] = memory[Bias + v]
  <2>1. Bias + v # q
    BY Apart
  <2>2. Bias + v \in 0 .. mem_size - 1
    BY <1>1, <1>2, <1>3, InSegment, Zenon
  <2> QED
    BY <1>2, <2>1, <2>2
<1> QED
  BY <1>1, <1>4

\* Where the boot information goes there is memory once the tables are there.
LEMMA InfoInDomain ==
    ASSUME mem_size \in Nat, DOMAIN memory = 0 .. mem_size - 1, TablesInPlace
    PROVE  BOOT_INFO_ADDR \in DOMAIN memory
<1>1. BOOT_PDE \in DOMAIN memory
  BY DEF TablesInPlace
<1>2. BOOT_INFO_ADDR < BOOT_PDE /\ BOOT_INFO_ADDR \in Nat /\ BOOT_PDE \in Nat
  BY LayoutAssumption, Places
<1> QED
  BY <1>1, <1>2

\* A thread writes its ring, however far the main thread is.
LEMMA InitRingInv ==
    ASSUME BootInv, NEW r \in Rings, InitRing(r)
    PROVE  BootInv'
<1>1. /\ kernel' = kernel /\ mem_size' = mem_size /\ threads' \subseteq threads
      /\ i' = i /\ boot_info' = boot_info /\ offset' = offset
      /\ entry_point' = entry_point /\ vcpu' = vcpu
  BY DEF InitRing, vmVars
<1>2. BootTypes /\ DomainInv /\ LowInv /\ TablesInv /\ InfoInv /\ SegmentsInv /\ DoneInv
  BY DEF BootInv
<1>3. CASE r < mem_size
  <2>1. memory' = [memory EXCEPT ![r] = Page("ring", 0)] /\ phase' = phase
    BY <1>3 DEF InitRing
  <2>2. DOMAIN memory' = DOMAIN memory
    BY <2>1
  <2>3. \A p : p \in DOMAIN memory /\ p # r => memory'[p] = memory[p]
    BY <2>1
  <2>4. r \in DOMAIN memory => memory'[r] = Page("ring", 0)
    BY <2>1
  <2>5. BootTypes'
    BY <1>1, <1>2, <2>1 DEF BootTypes
  <2>6. DomainInv'
    BY <1>1, <1>2, <2>1, <2>2 DEF DomainInv
  <2>7. r \in Structures
    BY DEF Structures
  <2>8. start_address' = start_address /\ Bias' = Bias
    BY <1>1 DEF start_address, Bias
  <2>9. LowInv'
    <3> SUFFICES ASSUME phase \in Mapped
                 PROVE  /\ \A p \in 0 .. mem_size - 1 :
                             p \notin Structures /\ p < start_address => memory'[p] = Zero
                        /\ \A q \in Rings \cap DOMAIN memory : memory'[q] \in {Zero, Page("ring", 0)}
      BY <1>1, <2>1, <2>2, <2>8 DEF LowInv
    <3>1. DOMAIN memory = 0 .. mem_size - 1
      BY <1>2 DEF DomainInv
    <3>2. ASSUME NEW p \in 0 .. mem_size - 1, p \notin Structures, p < start_address
          PROVE  memory'[p] = Zero
      BY <1>2, <2>3, <2>7, <3>1, <3>2 DEF LowInv
    <3>3. ASSUME NEW q \in Rings \cap DOMAIN memory
          PROVE  memory'[q] \in {Zero, Page("ring", 0)}
      BY <1>2, <2>3, <2>4 DEF LowInv
    <3> QED
      BY <3>2, <3>3
  <2>10. TablesInv'
    BY <1>2, <2>1, <2>2, <2>3, Places DEF TablesInv, TablesInPlace
  <2>11. InfoInv'
    <3>1. phase \in Loading => memory'[BOOT_INFO_ADDR] = memory[BOOT_INFO_ADDR]
      <4> SUFFICES ASSUME phase \in Loading PROVE BOOT_INFO_ADDR \in DOMAIN memory
        BY <2>3, Places
      <4>1. mem_size \in Nat /\ DOMAIN memory = 0 .. mem_size - 1 /\ TablesInPlace
        BY <1>2, PhaseNames DEF TablesInv, DomainInv, BootTypes
      <4> QED
        BY <4>1, InfoInDomain
    <3> QED
      BY <1>1, <1>2, <2>1, <2>8, <3>1 DEF InfoInv
  <2>12. SegmentsInv'
    BY <1>1, <2>1, <2>3, <2>7, SegmentsKept
  <2>13. DoneInv'
    BY <1>1, <1>2, <2>1, <2>8 DEF DoneInv
  <2> QED
    BY <2>5, <2>6, <2>9, <2>10, <2>11, <2>12, <2>13 DEF BootInv
<1>4. CASE ~(r < mem_size)
  <2>1. memory' = memory /\ phase' = "wild"
    BY <1>4 DEF InitRing
  <2>2. BootTypes' /\ DomainInv' /\ LowInv'
    BY <1>1, <1>2, <2>1, PhaseNames DEF BootTypes, DomainInv, LowInv
  <2> QED
    BY <2>1, <2>2, EarlyInv, PhaseNames
<1> QED
  BY <1>3, <1>4

\* The tables and the descriptor table are written where nothing else is.
LEMMA InitGuestMemInv == BootInv /\ init_guest_mem => BootInv'
<1> SUFFICES ASSUME BootInv, init_guest_mem PROVE BootInv'
  OBVIOUS
<1>1. /\ kernel' = kernel /\ mem_size' = mem_size /\ threads' = threads
      /\ i' = i /\ boot_info' = boot_info /\ phase = "mapped"
  BY DEF init_guest_mem, vmVars
<1>2. BootTypes /\ DomainInv /\ LowInv
  BY DEF BootInv
<1>3. CASE {BOOT_GDT, BOOT_PML4, BOOT_PDPTE, BOOT_PDE} \subseteq DOMAIN memory
  <2>1. /\ memory' = [memory EXCEPT ![BOOT_GDT]   = Page("gdt", 0),
                                    ![BOOT_PML4]  = Page("pml4", 0),
                                    ![BOOT_PDPTE] = Page("pdpte", 0),
                                    ![BOOT_PDE]   = Page("pde", 0)]
        /\ phase' = "created"
    BY <1>3 DEF init_guest_mem
  <2>2. /\ DOMAIN memory' = DOMAIN memory
        /\ \A p \in DOMAIN memory :
             p \notin {BOOT_GDT, BOOT_PML4, BOOT_PDPTE, BOOT_PDE} => memory'[p] = memory[p]
    BY <2>1
  <2>3. BootTypes' /\ DomainInv'
    BY <1>1, <1>2, <2>1, <2>2, PhaseNames DEF BootTypes, DomainInv
  <2>4. start_address' = start_address
    BY <1>1 DEF start_address
  <2>5. LowInv'
    <3>1. /\ \A p \in 0 .. mem_size - 1 : p \notin Structures /\ p < start_address => memory[p] = Zero
          /\ \A r \in Rings \cap DOMAIN memory : memory[r] \in {Zero, Page("ring", 0)}
          /\ DOMAIN memory = 0 .. mem_size - 1
      BY <1>1, <1>2, PhaseNames DEF LowInv, DomainInv
    <3>2. /\ \A p : p \notin Structures => p \notin {BOOT_GDT, BOOT_PML4, BOOT_PDPTE, BOOT_PDE}
          /\ \A p \in Rings : p \notin {BOOT_GDT, BOOT_PML4, BOOT_PDPTE, BOOT_PDE}
      BY Places DEF Structures
    <3>3. \A p \in 0 .. mem_size - 1 : p \notin Structures /\ p < start_address => memory'[p] = Zero
      BY <2>2, <3>1, <3>2
    <3>4. \A r \in Rings \cap DOMAIN memory : memory'[r] \in {Zero, Page("ring", 0)}
      BY <2>2, <3>1, <3>2
    <3> QED
      BY <1>1, <2>2, <2>4, <3>3, <3>4 DEF LowInv
  <2>6. TablesInv'
    BY <1>3, <2>1, <2>2, Places DEF TablesInv, TablesInPlace
  <2>7. InfoInv' /\ SegmentsInv' /\ DoneInv'
    BY <2>1, PhaseNames DEF InfoInv, SegmentsInv, DoneInv
  <2> QED
    BY <2>3, <2>5, <2>6, <2>7 DEF BootInv
<1>4. CASE ~({BOOT_GDT, BOOT_PML4, BOOT_PDPTE, BOOT_PDE} \subseteq DOMAIN memory)
  <2>1. memory' = memory /\ phase' = "wild"
    BY <1>4 DEF init_guest_mem
  <2>2. BootTypes' /\ DomainInv' /\ LowInv'
    BY <1>1, <1>2, <2>1, PhaseNames DEF BootTypes, DomainInv, LowInv
  <2> QED
    BY <2>1, <2>2, EarlyInv, PhaseNames
<1> QED
  BY <1>3, <1>4

\* load_kernel up to the program headers.
LEMMA LoadHeaderInv == BootInv /\ LoadHeader => BootInv'
<1> SUFFICES ASSUME BootInv, LoadHeader PROVE BootInv'
  OBVIOUS
<1>1. /\ kernel' = kernel /\ mem_size' = mem_size /\ threads' = threads
      /\ i' = i /\ phase = "created"
  BY DEF LoadHeader, vmVars
<1>2. BootTypes /\ DomainInv /\ LowInv /\ TablesInv
  BY DEF BootInv
<1>3. CASE kernel.usable
  <2>1. /\ memory' = [memory EXCEPT ![BOOT_INFO_ADDR] = Page("info", 0)]
        /\ boot_info' = [NoInfo EXCEPT
              !.base = start_address, !.limit = mem_size,
              !.current_stack_address = start_address - KERNEL_STACK_SIZE]
        /\ offset' = start_address /\ entry_point' = elf_entry
        /\ phase' = "segments"
    BY <1>3, Zenon DEF LoadHeader
  <2>2. /\ kernel \in Kernels /\ mem_size \in Nat /\ TablesInPlace /\ i = 0
        /\ DOMAIN memory = 0 .. mem_size - 1
    BY <1>1, <1>2, PhaseNames DEF BootTypes, DomainInv, TablesInv
  <2>3. BOOT_INFO_ADDR \in DOMAIN memory
    BY <2>2, InfoInDomain
  <2>4. /\ DOMAIN memory' = DOMAIN memory /\ memory'[BOOT_INFO_ADDR] = Page("info", 0)
        /\ \A p \in DOMAIN memory : p # BOOT_INFO_ADDR => memory'[p] = memory[p]
    BY <2>1, <2>3
  <2>5. start_address' = start_address /\ Bias' = Bias
    BY <1>1 DEF start_address, Bias
  <2>6. start_address \in Nat /\ start_address - KERNEL_STACK_SIZE \in Nat
    <3>1. /\ BOOT_GDT \in Nat /\ BOOT_GDT < start_address - KERNEL_STACK_SIZE
          /\ start_address \in Nat /\ KERNEL_STACK_SIZE \in Nat
      BY <2>2, KernelPlace, Places, SizesAssumption DEF Structures
    <3> QED
      BY <3>1
  <2>7. /\ boot_info' \in [base : Nat, limit : Nat, image_size : Nat, tls_start : Nat,
                            current_stack_address : Nat]
        /\ boot_info'.base = start_address
        /\ boot_info'.current_stack_address = start_address - KERNEL_STACK_SIZE
    BY <2>1, <2>2, <2>6, Zenon DEF NoInfo
  <2>8. BootTypes' /\ DomainInv'
    BY <1>1, <1>2, <2>1, <2>4, <2>7, PhaseNames DEF BootTypes, DomainInv
  <2>9. LowInv'
    <3>1. /\ \A p \in 0 .. mem_size - 1 : p \notin Structures /\ p < start_address => memory[p] = Zero
          /\ \A r \in Rings \cap DOMAIN memory : memory[r] \in {Zero, Page("ring", 0)}
      BY <1>1, <1>2, PhaseNames DEF LowInv
    <3>2. BOOT_INFO_ADDR \in Structures /\ BOOT_INFO_ADDR \notin Rings
      BY Places DEF Structures
    <3>3. \A p \in 0 .. mem_size - 1 : p \notin Structures /\ p < start_address => memory'[p] = Zero
      BY <2>2, <2>4, <3>1, <3>2
    <3>4. \A r \in Rings \cap DOMAIN memory : memory'[r] \in {Zero, Page("ring", 0)}
      BY <2>4, <3>1, <3>2
    <3> QED
      BY <1>1, <2>4, <2>5, <3>3, <3>4 DEF LowInv
  <2>10. TablesInv'
    BY <2>2, <2>4, Places DEF TablesInv, TablesInPlace
  <2>11. InfoInv'
    BY <1>1, <2>1, <2>2, <2>4, <2>5, <2>7, LinkAddresses DEF InfoInv
  <2>12. SegmentsInv'
    <3>1. i' = 0
      BY <1>1, <2>2
    <3> QED
      BY <3>1 DEF SegmentsInv
  <2>13. DoneInv'
    BY <2>1 DEF DoneInv
  <2> QED
    BY <2>8, <2>9, <2>10, <2>11, <2>12, <2>13 DEF BootInv
<1>4. CASE ~kernel.usable
  <2>1. memory' = memory /\ phase' = "failed" /\ boot_info' = boot_info
    BY <1>4, Zenon DEF LoadHeader
  <2>2. BootTypes' /\ DomainInv' /\ LowInv'
    BY <1>1, <1>2, <2>1, PhaseNames DEF BootTypes, DomainInv, LowInv
  <2> QED
    BY <2>1, <2>2, EarlyInv, PhaseNames
<1> QED
  BY <1>3, <1>4

\* A write above the start address changes nothing below it.
LEMMA LowKept ==
    ASSUME BootInv, phase \in Created, phase' \in Created,
           kernel' = kernel, mem_size' = mem_size, DOMAIN memory' = DOMAIN memory,
           \A p \in DOMAIN memory : p < start_address => memory'[p] = memory[p]
    PROVE  DomainInv' /\ LowInv' /\ TablesInv' /\ memory'[BOOT_INFO_ADDR] = memory[BOOT_INFO_ADDR]
<1>1. /\ kernel \in Kernels /\ mem_size \in Nat /\ TablesInPlace
      /\ DOMAIN memory = 0 .. mem_size - 1
  BY PhaseNames DEF BootInv, BootTypes, DomainInv, TablesInv
<1>2. start_address' = start_address
  BY DEF start_address
<1>3. \A q \in Structures : q < start_address
  <2>1. start_address \in Nat /\ KERNEL_STACK_SIZE \in Nat /\ Structures \subseteq Nat
        /\ \A q \in Structures : q < start_address - KERNEL_STACK_SIZE
    BY <1>1, KernelPlace, Places, SizesAssumption, Zenon
  <2> QED
    BY <2>1
<1>4. DomainInv'
  BY <1>1, PhaseNames DEF DomainInv
<1>5. LowInv'
  <2>1. /\ \A p \in 0 .. mem_size - 1 : p \notin Structures /\ p < start_address => memory[p] = Zero
        /\ \A r \in Rings \cap DOMAIN memory : memory[r] \in {Zero, Page("ring", 0)}
    BY PhaseNames DEF BootInv, LowInv
  <2>2. \A p \in 0 .. mem_size - 1 : p \notin Structures /\ p < start_address => memory'[p] = Zero
    BY <1>1, <2>1
  <2>3. \A r \in Rings \cap DOMAIN memory : memory'[r] \in {Zero, Page("ring", 0)}
    BY <1>3, <2>1, SMTT(30) DEF Structures
  <2> QED
    BY <1>2, <2>2, <2>3 DEF LowInv
<1>6. TablesInv'
  BY <1>1, <1>3 DEF TablesInv, TablesInPlace, Structures
<1>7. memory'[BOOT_INFO_ADDR] = memory[BOOT_INFO_ADDR]
  BY <1>1, <1>3, InfoInDomain, SMTT(30) DEF Structures
<1> QED
  BY <1>4, <1>5, <1>6, <1>7

\* What a successful step of LoadSegment does to memory.
LEMMA SegmentLoaded ==
    ASSUME BootInv, phase = "segments", i < Len(kernel.segs),
           NEW s, s = kernel.segs[i + 1],
           region_start(s) + s.p_memsz <= mem_size
    PROVE  /\ DOMAIN Loaded(s) = DOMAIN memory
           /\ Bias + s.p_vaddr + s.p_memsz <= mem_size
           /\ \A p \in DOMAIN memory : p < Bias + s.p_vaddr => Loaded(s)[p] = memory[p]
           /\ \A v \in s.p_vaddr .. s.p_vaddr + s.p_memsz - 1 :
                Loaded(s)[Bias + v] =
                    IF v < s.p_vaddr + s.p_filesz THEN Page("file", v) ELSE Zero
<1>1. /\ kernel \in Kernels /\ mem_size \in Nat /\ DOMAIN memory = 0 .. mem_size - 1
      /\ i \in 0 .. Len(kernel.segs)
  BY PhaseNames DEF BootInv, BootTypes, DomainInv
<1>2. i + 1 \in 1 .. Len(kernel.segs)
  BY <1>1, SegmentPlace, SMTT(30)
<1>3. /\ s.p_vaddr \in Nat /\ s.p_memsz \in Nat /\ s.p_filesz \in Nat
      /\ s.p_filesz <= s.p_memsz /\ Bias \in Nat /\ region_start(s) = Bias + s.p_vaddr
  BY <1>1, <1>2, SegmentPlace, KernelPlace, LinkAddresses, SMTT(30)
<1> DEFINE a == Bias + s.p_vaddr
<1>4. Loaded(s) = [p \in DOMAIN memory \cup a .. a + s.p_memsz - 1 |->
                     IF p < a \/ p >= a + s.p_memsz THEN memory[p]
                     ELSE IF p < a + s.p_filesz
                     THEN Page("file", s.p_vaddr + p - a) ELSE Zero]
  BY <1>3, Zenon DEF Loaded
<1>5. a \in Nat /\ a + s.p_memsz <= mem_size
  BY <1>3
<1>6. DOMAIN memory \cup a .. a + s.p_memsz - 1 = DOMAIN memory
  <2> HIDE DEF a
  <2>1. PICK lo \in Nat, sz \in Nat, m \in Nat : lo = a /\ sz = s.p_memsz /\ m = mem_size
    BY <1>1, <1>3, <1>5, Zenon
  <2>2. lo + sz <= m
    BY <1>5, <2>1
  <2>3. ASSUME NEW p \in lo .. lo + sz - 1 PROVE p \in 0 .. m - 1
    BY <2>2
  <2> QED
    BY <1>1, <2>1, <2>3, SMTT(30)
<1>7. \A p \in DOMAIN memory : p < a => Loaded(s)[p] = memory[p]
  BY <1>4, <1>6
<1>8. ASSUME NEW v \in s.p_vaddr .. s.p_vaddr + s.p_memsz - 1
      PROVE  Loaded(s)[Bias + v] =
                 IF v < s.p_vaddr + s.p_filesz THEN Page("file", v) ELSE Zero
  <2>1. PICK b \in Nat, lo \in Nat, f \in Nat, sz \in Nat, m \in Nat :
          b = Bias /\ lo = s.p_vaddr /\ f = s.p_filesz /\ sz = s.p_memsz /\ m = mem_size
    BY <1>1, <1>3, Zenon
  <2>2. b + lo + sz <= m /\ v \in lo .. lo + sz - 1 /\ a = b + lo
    BY <1>5, <2>1
  <2>3. b + v \in 0 .. m - 1 /\ ~(b + v < b + lo) /\ ~(b + v >= b + lo + sz)
        /\ v \in Nat /\ b + lo \in Nat
    BY <2>2, InSegment
  <2>4. lo + (b + v) - (b + lo) = v /\ (b + v < b + lo + f <=> v < lo + f)
    BY <2>3
  <2> HIDE DEF a
  <2>5. Loaded(s)[b + v] = IF b + v < a + s.p_filesz
                           THEN Page("file", s.p_vaddr + (b + v) - a) ELSE Zero
    BY <1>1, <1>4, <1>6, <2>1, <2>2, <2>3, Zenon
  <2>6. Loaded(s)[b + v] = IF b + v < b + lo + f
                           THEN Page("file", lo + (b + v) - (b + lo)) ELSE Zero
    BY <2>1, <2>2, <2>5, Zenon
  <2> QED
    BY <2>1, <2>4, <2>6, Zenon
<1>9. DOMAIN Loaded(s) = DOMAIN memory
  BY <1>4, <1>6
<1> QED
  BY <1>5, <1>7, <1>8, <1>9

\* One segment is loaded; the earlier ones lie below it.
LEMMA LoadSegmentInv == BootInv /\ LoadSegment => BootInv'
<1> SUFFICES ASSUME BootInv, LoadSegment PROVE BootInv'
  OBVIOUS
<1> DEFINE s == kernel.segs[i + 1]
<1>1. /\ kernel' = kernel /\ mem_size' = mem_size /\ threads' = threads
      /\ offset' = offset /\ entry_point' = entry_point
      /\ phase = "segments" /\ i < Len(kernel.segs)
  BY DEF LoadSegment, vmVars
<1>2. BootTypes /\ DomainInv /\ LowInv /\ TablesInv /\ InfoInv /\ SegmentsInv
  BY DEF BootInv
<1>3. /\ kernel \in Kernels /\ mem_size \in Nat /\ DOMAIN memory = 0 .. mem_size - 1
      /\ i \in 0 .. Len(kernel.segs)
  BY <1>1, <1>2, PhaseNames DEF BootTypes, DomainInv
<1>4. i + 1 \in 1 .. Len(kernel.segs) /\ i \in Nat
  BY <1>1, <1>3, SegmentPlace, SMTT(30)
<1>5. /\ s.p_vaddr \in Nat /\ s.p_memsz \in Nat /\ Bias \in Nat /\ start_address \in Nat
      /\ start_address <= Bias + s.p_vaddr /\ region_start(s) = Bias + s.p_vaddr
  BY <1>3, <1>4, SegmentPlace, KernelPlace, LinkAddresses
<1>6. CASE region_start(s) + s.p_memsz > mem_size
  <2>1. memory' = memory /\ phase' = "failed" /\ boot_info' = boot_info /\ i' = i
    BY <1>6 DEF LoadSegment
  <2>2. BootTypes' /\ DomainInv' /\ LowInv'
    BY <1>1, <1>2, <2>1, PhaseNames DEF BootTypes, DomainInv, LowInv
  <2> QED
    BY <2>1, <2>2, EarlyInv, PhaseNames
<1>7. CASE ~(region_start(s) + s.p_memsz > mem_size)
  <2>1. /\ memory' = Loaded(s) /\ i' = i + 1 /\ phase' = phase
        /\ boot_info' = [boot_info EXCEPT !.image_size =
              IF kernel.is_dyn THEN s.p_vaddr + s.p_memsz ELSE @ + s.p_memsz]
    BY <1>7, Zenon DEF LoadSegment
  <2>2. region_start(s) + s.p_memsz <= mem_size
    <3> HIDE DEF s
    <3>1. region_start(s) + s.p_memsz \in Nat /\ mem_size \in Nat
      BY <1>3, <1>5
    <3> QED
      BY <1>7, <3>1
  <2>3. /\ DOMAIN memory' = DOMAIN memory
        /\ Bias + s.p_vaddr + s.p_memsz <= mem_size
        /\ \A p \in DOMAIN memory : p < Bias + s.p_vaddr => memory'[p] = memory[p]
        /\ \A v \in s.p_vaddr .. s.p_vaddr + s.p_memsz - 1 :
             memory'[Bias + v] = IF v < s.p_vaddr + s.p_filesz THEN Page("file", v) ELSE Zero
    BY <1>1, <2>1, <2>2, SegmentLoaded
  <2>4. /\ boot_info' \in [base : Nat, limit : Nat, image_size : Nat, tls_start : Nat,
                            current_stack_address : Nat]
        /\ boot_info'.base = boot_info.base
        /\ boot_info'.current_stack_address = boot_info.current_stack_address
        /\ kernel.is_dyn => boot_info'.image_size = s.p_vaddr + s.p_memsz
    <3>1. boot_info \in [base : Nat, limit : Nat, image_size : Nat, tls_start : Nat,
                         current_stack_address : Nat]
      BY <1>2 DEF BootTypes
    <3>2. PICK z \in Nat : /\ boot_info' = [boot_info EXCEPT !.image_size = z]
                           /\ kernel.is_dyn => z = s.p_vaddr + s.p_memsz
      <4> HIDE DEF s
      <4>1. s.p_vaddr + s.p_memsz \in Nat /\ boot_info.image_size + s.p_memsz \in Nat
        BY <1>5, <3>1
      <4> QED
        BY <2>1, <4>1, Zenon
    <3> QED
      BY <3>1, <3>2
  <2>5. BootTypes'
    <3>1. i' \in 0 .. Len(kernel.segs)
      BY <1>4, <2>1, SegmentPlace, <1>3
    <3> QED
      BY <1>1, <1>2, <2>1, <2>4, <3>1 DEF BootTypes
  <2>6. \A p \in DOMAIN memory : p < start_address => memory'[p] = memory[p]
    <3> HIDE DEF s
    <3> QED
      BY <1>3, <1>5, <2>3
  <2>7. DomainInv' /\ LowInv' /\ TablesInv' /\ memory'[BOOT_INFO_ADDR] = memory[BOOT_INFO_ADDR]
    BY <1>1, <2>1, <2>3, <2>6, LowKept, PhaseNames
  <2>8. start_address' = start_address /\ Bias' = Bias
    BY <1>1 DEF start_address, Bias
  <2>9. InfoInv'
    BY <1>1, <1>2, <2>1, <2>4, <2>7, <2>8, PhaseNames, SMTT(30) DEF InfoInv
  <2>10. SegmentsInv'
    <3> SUFFICES ASSUME NEW n \in 1 .. i + 1
                 PROVE  LET t == kernel.segs[n] IN
                        /\ Bias + t.p_vaddr + t.p_memsz <= mem_size
                        /\ \A v \in t.p_vaddr .. t.p_vaddr + t.p_memsz - 1 :
                              memory'[Bias + v] = PageNow(t, v)
      <4>1. \A t, v : PageNow(t, v)' = PageNow(t, v)
        BY <1>1, <2>1, SMTT(30) DEF PageNow, ImagePage
      <4> QED
        BY <1>1, <2>1, <2>8, <4>1 DEF SegmentsInv
    <3> DEFINE t == kernel.segs[n]
    <3>1. CASE n = i + 1
      BY <1>1, <2>3, <3>1, SMTT(30) DEF PageNow
    <3>2. CASE n \in 1 .. i
      <4>1. /\ Bias + t.p_vaddr + t.p_memsz <= mem_size
            /\ \A v \in t.p_vaddr .. t.p_vaddr + t.p_memsz - 1 : memory[Bias + v] = PageNow(t, v)
        BY <1>1, <1>2, <3>2, PhaseNames, SMTT(30) DEF SegmentsInv
      <4>2. n \in 1 .. Len(kernel.segs) /\ n < i + 1
        BY <1>3, <1>4, <3>2, SegmentPlace, SMTT(30)
      <4>3. t.p_vaddr \in Nat /\ t.p_memsz \in Nat /\ t.p_vaddr + t.p_memsz <= s.p_vaddr
        BY <1>3, <1>4, <4>2, SegmentPlace
      <4> HIDE DEF s, t
      <4>4. ASSUME NEW v \in t.p_vaddr .. t.p_vaddr + t.p_memsz - 1
            PROVE  Bias + v \in 0 .. mem_size - 1 /\ Bias + v < Bias + s.p_vaddr
        <5>1. /\ v \in Nat /\ v < t.p_vaddr + t.p_memsz /\ Bias + v \in 0 .. mem_size - 1
          BY <1>3, <1>5, <4>1, <4>3, InSegment, SMTT(30)
        <5>2. Bias \in Nat /\ s.p_vaddr \in Nat
          BY <1>5
        <5> QED
          BY <4>3, <5>1, <5>2
      <4>5. \A v \in t.p_vaddr .. t.p_vaddr + t.p_memsz - 1 : memory'[Bias + v] = PageNow(t, v)
        BY <1>3, <2>3, <4>1, <4>4
      <4> QED
        BY <4>1, <4>5, SMTT(30) DEF t
    <3> QED
      BY <1>4, <3>1, <3>2
  <2>11. DoneInv'
    BY <1>1, <2>1 DEF DoneInv
  <2> QED
    BY <2>5, <2>7, <2>9, <2>10, <2>11 DEF BootInv
<1> QED
  BY <1>6, <1>7

\* The relocations change pages of the image, and those as the kernel expects.
LEMMA RelocateInv == BootInv /\ Relocate => BootInv'
<1> SUFFICES ASSUME BootInv, Relocate PROVE BootInv'
  OBVIOUS
<1>1. /\ kernel' = kernel /\ mem_size' = mem_size /\ threads' = threads /\ i' = i
      /\ offset' = offset /\ entry_point' = entry_point
      /\ phase = "segments" /\ phase' = "loaded" /\ i = Len(kernel.segs)
  BY DEF Relocate, vmVars
<1>2. memory' = [p \in DOMAIN memory |->
          IF p - start_address \in kernel.relas
          THEN Page("relocated", p - start_address) ELSE memory[p]]
  BY DEF Relocate
<1>3. BootTypes /\ InfoInv /\ SegmentsInv
  BY DEF BootInv
<1>4. /\ kernel \in Kernels /\ mem_size \in Nat /\ DOMAIN memory = 0 .. mem_size - 1
      /\ i \in 0 .. Len(kernel.segs)
  BY <1>1, PhaseNames DEF BootInv, BootTypes, DomainInv
<1>5. /\ start_address \in Nat /\ Bias \in Nat
      /\ kernel.relas # {} => Bias = start_address
  BY <1>4, KernelPlace
<1>6. kernel.relas \subseteq Nat /\ kernel.tls \in Nat
  BY <1>4, KernelFits, FilePage
<1>7. DOMAIN memory' = DOMAIN memory
  BY <1>2
<1>8. start_address' = start_address /\ Bias' = Bias
  BY <1>1 DEF start_address, Bias
<1>9. boot_info' = [boot_info EXCEPT !.tls_start = Bias + kernel.tls]
  <2>1. (IF kernel.is_dyn THEN start_address + kernel.tls ELSE kernel.tls) = Bias + kernel.tls
    BY <1>4, LinkAddresses
  <2> QED
    BY <2>1, Zenon DEF Relocate
<1>10. /\ boot_info' \in [base : Nat, limit : Nat, image_size : Nat, tls_start : Nat,
                           current_stack_address : Nat]
       /\ boot_info'.base = boot_info.base /\ boot_info'.image_size = boot_info.image_size
       /\ boot_info'.current_stack_address = boot_info.current_stack_address
       /\ boot_info'.tls_start = Bias + kernel.tls
  <2>1. boot_info \in [base : Nat, limit : Nat, image_size : Nat, tls_start : Nat,
                       current_stack_address : Nat]
    BY <1>3 DEF BootTypes
  <2>2. Bias + kernel.tls \in Nat
    BY <1>5, <1>6
  <2> QED
    BY <1>9, <2>1, <2>2
<1>11. BootTypes'
  BY <1>1, <1>3, <1>10, PhaseNames DEF BootTypes
<1>12. \A p \in DOMAIN memory : p < start_address => memory'[p] = memory[p]
  <2> SUFFICES ASSUME NEW p \in DOMAIN memory, p < start_address
               PROVE  p - start_address \notin kernel.relas
    BY <1>2
  <2>1. p \in Nat /\ p - start_address \notin Nat
    BY <1>4, <1>5
  <2> QED
    BY <1>6, <2>1
<1>13. DomainInv' /\ LowInv' /\ TablesInv' /\ memory'[BOOT_INFO_ADDR] = memory[BOOT_INFO_ADDR]
  BY <1>1, <1>7, <1>12, LowKept, PhaseNames, SMTT(30)
<1>14. InfoInv'
  BY <1>1, <1>3, <1>8, <1>10, <1>13, PhaseNames, SMTT(30) DEF InfoInv
<1>15. SegmentsInv'
  <2> SUFFICES ASSUME NEW n \in 1 .. i
               PROVE  LET s == kernel.segs[n] IN
                      /\ Bias + s.p_vaddr + s.p_memsz <= mem_size
                      /\ \A v \in s.p_vaddr .. s.p_vaddr + s.p_memsz - 1 :
                            memory'[Bias + v] = ImagePage(s, v)
    <3>1. \A s, v : PageNow(s, v)' = ImagePage(s, v)
      BY <1>1 DEF PageNow, ImagePage
    <3> QED
      BY <1>1, <1>8, <3>1, SMTT(30) DEF SegmentsInv
  <2> DEFINE s == kernel.segs[n]
  <2>1. /\ Bias + s.p_vaddr + s.p_memsz <= mem_size
        /\ \A v \in s.p_vaddr .. s.p_vaddr + s.p_memsz - 1 : memory[Bias + v] = PageNow(s, v)
    BY <1>1, <1>3, PhaseNames, SMTT(30) DEF SegmentsInv
  <2>2. s.p_vaddr \in Nat /\ s.p_memsz \in Nat
    BY <1>1, <1>4, SegmentPlace
  <2> HIDE DEF s
  <2>3. ASSUME NEW v \in s.p_vaddr .. s.p_vaddr + s.p_memsz - 1
        PROVE  memory'[Bias + v] = ImagePage(s, v)
    <3>1. v \in Nat /\ Bias + v \in 0 .. mem_size - 1
      BY <1>4, <1>5, <2>1, <2>2, InSegment, SMTT(30)
    <3>2. PICK p \in DOMAIN memory : p = Bias + v
      BY <1>4, <3>1
    <3>3. kernel.relas # {} => p - start_address = v
      BY <1>5, <3>1, <3>2
    <3>4. memory[p] = IF v < s.p_vaddr + s.p_filesz THEN Page("file", v) ELSE Zero
      BY <1>1, <2>1, <3>2 DEF PageNow
    <3>5. memory'[p] = IF p - start_address \in kernel.relas
                       THEN Page("relocated", p - start_address) ELSE memory[p]
      BY <1>2
    <3>6. CASE v \in kernel.relas
      <4>1. p - start_address = v
        BY <3>3, <3>6
      <4> QED
        BY <3>2, <3>5, <3>6, <4>1 DEF ImagePage
    <3>7. CASE v \notin kernel.relas
      <4>1. p - start_address \notin kernel.relas
        BY <3>3, <3>7
      <4> QED
        BY <3>2, <3>4, <3>5, <3>7, <4>1 DEF ImagePage
    <3> QED
      BY <3>6, <3>7
  <2> QED
    BY <2>1, <2>3, SMTT(30) DEF s
<1>16. DoneInv'
  BY <1>1, <1>8, <1>10 DEF DoneInv
<1> QED
  BY <1>11, <1>13, <1>14, <1>15, <1>16 DEF BootInv

\* The first vCPU gets its registers.
LEMMA SetupLongModeInv == BootInv /\ setup_long_mode => BootInv'
<1> SUFFICES ASSUME BootInv, setup_long_mode PROVE BootInv'
  OBVIOUS
<1>1. /\ kernel' = kernel /\ mem_size' = mem_size /\ threads' = threads /\ i' = i
      /\ memory' = memory /\ boot_info' = boot_info
      /\ offset' = offset /\ entry_point' = entry_point
      /\ phase = "loaded" /\ phase' = "ready"
      /\ vcpu' = [rip |-> entry_point, rdi |-> BOOT_INFO_ADDR, cr3 |-> BOOT_PML4]
  BY DEF setup_long_mode, vmVars
<1>2. BootTypes /\ DomainInv /\ LowInv /\ TablesInv /\ InfoInv /\ SegmentsInv /\ DoneInv
  BY DEF BootInv
<1>3. start_address' = start_address /\ Bias' = Bias
  BY <1>1 DEF start_address, Bias
<1>4. BootTypes' /\ DomainInv'
  BY <1>1, <1>2, PhaseNames DEF BootTypes, DomainInv
<1>5. LowInv'
  BY <1>1, <1>2, <1>3, PhaseNames, SMTT(30) DEF LowInv
<1>6. TablesInv'
  BY <1>1, <1>2, PhaseNames, SMTT(30) DEF TablesInv, TablesInPlace
<1>7. InfoInv'
  BY <1>1, <1>2, <1>3, PhaseNames, SMTT(30) DEF InfoInv
<1>8. SegmentsInv'
  <2>1. \A s, v : PageNow(s, v)' = PageNow(s, v)
    BY <1>1 DEF PageNow, ImagePage
  <2> QED
    BY <1>1, <1>2, <1>3, <2>1, PhaseNames, SMTT(30) DEF SegmentsInv
<1>9. DoneInv'
  BY <1>1, <1>2, <1>3 DEF DoneInv
<1> QED
  BY <1>4, <1>5, <1>6, <1>7, <1>8, <1>9 DEF BootInv

\* Every step of Boot preserves the invariant.
LEMMA BootNextInv ==
    ASSUME BootInv, Next
    PROVE  BootInv'
  BY MapMemoryInv, CreateFailsInv, InitGuestMemInv, LoadHeaderInv, LoadSegmentInv,
     RelocateInv, SetupLongModeInv, InitRingInv DEF Next
=============================================================================
