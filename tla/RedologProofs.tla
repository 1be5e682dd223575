--------------------------- MODULE RedologProofs ---------------------------
(***************************************************************************)
(* Proofs about Redolog, for disks and extents of every size.              *)
(***************************************************************************)
EXTENDS Redolog, FiniteSetTheorems, TLAPS

-----------------------------------------------------------------------------
(* Addresses. *)

LEMMA Sizes ==
  /\ CatalogSize \in Nat /\ CatalogSize > 0 /\ ExtentBlocks \in Nat /\ ExtentBlocks > 0
  /\ DiskSize \in Nat /\ DiskSize > 0
<1>1. CatalogSize \in Nat /\ CatalogSize > 0 /\ ExtentBlocks \in Nat /\ ExtentBlocks > 0
  BY RedologAssumption
<1>2. CatalogSize * ExtentBlocks \in Nat /\ CatalogSize * ExtentBlocks > 0
  BY <1>1
<1> QED BY <1>1, <1>2 DEF DiskSize

LEMMA Division ==
  ASSUME NEW s \in Nat
  PROVE  /\ ExtentOf(s) \in Nat /\ BlockOf(s) \in Blocks
         /\ s = ExtentBlocks * ExtentOf(s) + BlockOf(s)
<1>1. ExtentBlocks \in Nat /\ ExtentBlocks > 0
  BY Sizes
<1>2. /\ s \div ExtentBlocks \in Nat /\ s % ExtentBlocks \in 0 .. ExtentBlocks - 1
      /\ s = ExtentBlocks * (s \div ExtentBlocks) + (s % ExtentBlocks)
  BY <1>1
<1> QED BY <1>2 DEF ExtentOf, BlockOf, Blocks

\* The sectors are the blocks of the extents ...
LEMMA InDisk ==
  ASSUME NEW s \in Nat
  PROVE  s \in Sectors <=> ExtentOf(s) \in Extents
<1> DEFINE q == ExtentOf(s)
           r == BlockOf(s)
           C == CatalogSize
           K == ExtentBlocks
<1>1. q \in Nat /\ r \in 0 .. K - 1 /\ s = K * q + r /\ C \in Nat /\ K \in Nat /\ K > 0
  BY Division, Sizes DEF Blocks
<1> HIDE DEF q, r, C, K
<1>2. ASSUME q < C PROVE s < C * K
  <2>1. q + 1 <= C /\ (C - (q + 1)) \in Nat
    BY <1>1, <1>2
  <2>2. (C - (q + 1)) * K >= 0
    BY <1>1, <2>1
  <2>3. (C - (q + 1)) * K = C * K - K * q - K
    BY <1>1
  <2>4. K * q \in Nat /\ C * K \in Nat
    BY <1>1
  <2> QED BY <1>1, <2>2, <2>3, <2>4
<1>3. ASSUME ~(q < C) PROVE ~(s < C * K)
  <2>1. (q - C) \in Nat
    BY <1>1, <1>3
  <2>2. (q - C) * K >= 0
    BY <1>1, <2>1
  <2>3. (q - C) * K = K * q - C * K
    BY <1>1
  <2>4. K * q \in Nat /\ C * K \in Nat
    BY <1>1
  <2> QED BY <1>1, <2>2, <2>3, <2>4
<1>4. s \in Sectors <=> s < C * K
  BY <1>1 DEF Sectors, DiskSize, C, K
<1>5. q \in Extents <=> q < C
  BY <1>1 DEF Extents, C
<1> QED BY <1>2, <1>3, <1>4, <1>5 DEF q

\* ... and an extent and a block in it tell the sector.
LEMMA SameAddress ==
  ASSUME NEW s \in Nat, NEW t \in Nat, ExtentOf(s) = ExtentOf(t), BlockOf(s) = BlockOf(t)
  PROVE  s = t
<1>1. /\ s = ExtentBlocks * ExtentOf(s) + BlockOf(s)
      /\ t = ExtentBlocks * ExtentOf(t) + BlockOf(t)
  BY Division
<1> QED BY <1>1

LEMMA Address ==
  ASSUME NEW s \in Sectors
  PROVE  s \in Nat /\ ExtentOf(s) \in Extents /\ BlockOf(s) \in Blocks
<1>1. s \in Nat
  BY Sizes DEF Sectors
<1> QED BY <1>1, Division, InDisk

-----------------------------------------------------------------------------
(* Catalogs. *)

\* The catalog c has given away the extents of the file below n, each once.
Packed(c, n) ==
  /\ \A e, f \in Extents : c[e] = c[f] /\ c[e] # NotAllocated => e = f
  /\ \A e \in Extents : c[e] < n
  /\ \A x \in 0 .. n - 1 : \E e \in Extents : c[e] = x

CatalogType == [Extents -> Extents \union {NotAllocated}]

\* A catalog with a free entry has room in the file.
LEMMA PackedRoom ==
  ASSUME NEW c \in CatalogType, NEW n \in 0 .. CatalogSize, Packed(c, n),
         NEW e \in Extents, c[e] = NotAllocated
  PROVE  n < CatalogSize
<1>1. CatalogSize \in Nat /\ CatalogSize > 0
  BY Sizes
<1>2. SUFFICES ASSUME n = CatalogSize PROVE FALSE
  BY <1>1
<1> DEFINE S == Extents \ {e}
           g == [f \in S |-> c[f]]
           h == [f \in S |-> IF g[f] \in Extents THEN g[f] ELSE 0]
<1>3. IsFiniteSet(Extents) /\ Cardinality(Extents) = CatalogSize
  BY <1>1, FS_Interval DEF Extents
<1>4. IsFiniteSet(S) /\ Cardinality(S) = CatalogSize - 1
  BY <1>3, FS_RemoveElement
<1>5. h \in [S -> Extents]
  BY <1>1 DEF Extents
<1>6. ASSUME NEW x \in Extents PROVE \E f \in S : h[f] = x
  <2>1. PICK f \in Extents : c[f] = x
    BY <1>2, <1>6 DEF Packed, Extents
  <2>2. f # e
    BY <1>1, <2>1 DEF NotAllocated, Extents
  <2> QED BY <2>1, <2>2
<1>7. h \in Surjection(S, Extents)
  BY <1>5, <1>6 DEF Surjection
<1>8. Cardinality(Extents) <= Cardinality(S)
  BY <1>4, <1>7, FS_Surjection
<1> QED BY <1>1, <1>3, <1>4, <1>8

LEMMA PackedEmpty == Packed([e \in Extents |-> NotAllocated], 0)
BY Sizes DEF Packed, NotAllocated

\* The next free extent of the file is given to the entry e.
LEMMA PackedAdd ==
  ASSUME NEW c \in CatalogType, NEW n \in Nat, Packed(c, n), NEW e \in Extents,
         c[e] = NotAllocated
  PROVE  Packed([c EXCEPT ![e] = n], n + 1)
<1> DEFINE d == [c EXCEPT ![e] = n]
<1>1. d[e] = n /\ \A f \in Extents \ {e} : d[f] = c[f]
  BY DEF CatalogType
<1> HIDE DEF d
<1>2. \A f \in Extents : c[f] \in Int /\ c[f] < n
  BY Sizes DEF Packed, CatalogType, Extents, NotAllocated
<1>3. \A f, g \in Extents : d[f] = d[g] /\ d[f] # NotAllocated => f = g
  BY <1>1, <1>2 DEF Packed
<1>4. \A f \in Extents : d[f] < n + 1
  BY <1>1, <1>2
<1>5. ASSUME NEW x \in 0 .. n PROVE \E f \in Extents : d[f] = x
  <2>1. CASE x = n
    BY <1>1, <2>1
  <2>2. CASE x # n
    <3>1. x \in 0 .. n - 1
      BY <2>2
    <3>2. PICK f \in Extents : c[f] = x
      BY <3>1 DEF Packed
    <3>3. f # e
      BY <3>1, <3>2 DEF NotAllocated
    <3> QED BY <1>1, <3>2, <3>3
  <2> QED BY <2>1, <2>2
<1>6. \A x \in 0 .. (n + 1) - 1 : \E f \in Extents : d[f] = x
  BY <1>5
<1> QED BY <1>3, <1>4, <1>6 DEF Packed, d

\* open finds the end of what is given away.
LEMMA PackedNext ==
  ASSUME NEW n \in Nat, disk_catalog \in CatalogType, Packed(disk_catalog, n)
  PROVE  NextExtent = n
<1>1. \A e \in Extents : disk_catalog[e] \in Int /\ disk_catalog[e] < n
  BY Sizes DEF Packed, CatalogType, Extents, NotAllocated
<1>2. CASE \A e \in Extents : disk_catalog[e] = NotAllocated
  <2>1. ~(0 \in 0 .. n - 1)
    BY <1>2 DEF Packed, NotAllocated
  <2> QED BY <1>2, <2>1 DEF NextExtent
<1>3. CASE \E e \in Extents : disk_catalog[e] # NotAllocated
  <2> DEFINE R == {disk_catalog[e] : e \in Extents}
  <2>1. n > 0
    <3>1. PICK e \in Extents : disk_catalog[e] # NotAllocated
      BY <1>3
    <3>2. disk_catalog[e] \in Extents
      BY <3>1 DEF CatalogType
    <3> QED BY <1>1, <3>2, Sizes DEF Extents
  <2>2. n - 1 \in R
    BY <2>1 DEF Packed
  <2>3. \A y \in R : y \in Int /\ y <= n - 1
    BY <1>1
  <2> HIDE DEF R
  <2>4. Max(R) \in R /\ \A y \in R : Max(R) >= y
    <3>1. \E x \in R : \A y \in R : x >= y
      BY <2>2, <2>3
    <3> QED BY <3>1 DEF Max
  <2>5. Max(R) = n - 1
    BY <2>2, <2>3, <2>4
  <2>6. NextExtent = Max(R) + 1
    BY <1>3 DEF NextExtent, R
  <2> QED BY <2>5, <2>6
<1> QED BY <1>2, <1>3

-----------------------------------------------------------------------------
(* The inductive invariant. *)

\* A request stays on the disk.  The redolog and the base follow it or fall
\* behind, but never in a write.
Requests ==
  /\ user # "bochs" => left = 0 /\ pc = "idle"
  /\ pc # "idle" => op = "write" /\ left > 0
  /\ left > 0 => /\ target + left <= DiskSize /\ imagepos <= target /\ ro_pos <= target
                 /\ op = "write" => imagepos = target

\* A write works on a mapped extent, with a bitmap of its own while the extent
\* is new.
Writing ==
  /\ pc \in {"zero_bitmap", "zero_extent", "catalog"} => update_catalog
  /\ pc # "idle" => Mapped # NotAllocated
  /\ update_catalog /\ pc \in {"zero_bitmap", "zero_extent", "data", "bitmap"} => bitmap_update

\* No extent of the file is lost or given away twice.
Catalogs ==
  /\ \E n \in 0 .. CatalogSize : Packed(disk_catalog, n)
  /\ user = "bochs" => Packed(catalog, extent_next)

CacheInv == TypeOK /\ Requests /\ Writing /\ CacheCoherent /\ Catalogs

\* While a request is served its position is on the disk.
LEMMA AtWork ==
  ASSUME TypeOK, Requests, left > 0
  PROVE  /\ user = "bochs" /\ imagepos \in Sectors /\ imagepos \in Nat
         /\ imagepos + 1 \in 0 .. DiskSize
         /\ ExtentOf(imagepos) \in Extents /\ BlockOf(imagepos) \in Blocks
         /\ Mapped \in Extents \union {NotAllocated}
         /\ Mapped # NotAllocated => CurrentBitmap \in SUBSET Blocks
<1>1. DiskSize \in Nat /\ left \in Nat /\ target \in Nat /\ imagepos \in Nat
  BY Sizes, RedologAssumption DEF TypeOK, Sectors
<1>2. user = "bochs" /\ imagepos <= target /\ target + left <= DiskSize
  BY DEF Requests
<1>3. imagepos \in Sectors /\ imagepos + 1 \in 0 .. DiskSize
  BY <1>1, <1>2 DEF Sectors
<1>4. ExtentOf(imagepos) \in Extents /\ BlockOf(imagepos) \in Blocks
  BY <1>3, Address
<1>5. Mapped \in Extents \union {NotAllocated}
  BY <1>4 DEF Mapped, TypeOK
<1>6. Mapped # NotAllocated => CurrentBitmap \in SUBSET Blocks
  BY <1>5 DEF CurrentBitmap, TypeOK
<1> QED BY <1>1, <1>2, <1>3, <1>4, <1>5, <1>6

\* NextBlock keeps the request on the disk.
LEMMA NextBlockKeeps ==
  ASSUME TypeOK, left > 0, target + left <= DiskSize, NEW p \in Nat, p <= target + 1,
         NextBlock(p)
  PROVE  /\ op' \in {"none", "read", "write"} /\ target' \in Sectors /\ ro_pos' \in Sectors
         /\ left' \in 0 .. Burst
         /\ left' > 0 => /\ op' = op /\ target' = target + 1 /\ left' = left - 1 /\ ro_pos' = p
                         /\ target' + left' <= DiskSize /\ left > 1
<1>1. DiskSize \in Nat /\ DiskSize > 0 /\ left \in Nat /\ target \in Nat /\ Burst \in Nat
      /\ left <= Burst
  BY Sizes, RedologAssumption DEF TypeOK, Sectors
<1>2. CASE left = 1
  BY <1>1, <1>2 DEF NextBlock, NoRequest, Sectors
<1>3. CASE left # 1
  BY <1>1, <1>3 DEF NextBlock, TypeOK, Sectors
<1> QED BY <1>2, <1>3

\* A bitmap that is kept is that of the new position.
LEMMA MoveToKeeps ==
  ASSUME NEW p \in 0 .. DiskSize, NEW update \in BOOLEAN, MoveTo(p, update)
  PROVE  /\ imagepos' = p /\ bitmap_update' \in BOOLEAN
         /\ ~bitmap_update' => ~update /\ ExtentOf(p) = ExtentOf(imagepos)
BY DEF MoveTo

LEMMA InitKeeps ==
  ASSUME Init
  PROVE  CacheInv
<1>1. 0 \in Sectors /\ 0 \in 0 .. DiskSize /\ 0 \in 0 .. CatalogSize /\ 0 \in 0 .. Burst
  BY Sizes, RedologAssumption DEF Sectors
<1>2. TypeOK
  BY <1>1, RedologAssumption DEF Init, TypeOK
<1>3. Requests /\ Writing /\ CacheCoherent
  BY DEF Init, Requests, Writing, CacheCoherent
<1>4. Packed(disk_catalog, 0)
  BY PackedEmpty DEF Init
<1>5. Catalogs
  BY <1>1, <1>4 DEF Catalogs, Init
<1> QED BY <1>2, <1>3, <1>5 DEF CacheInv

LEMMA OpenKeeps ==
  ASSUME CacheInv, Open
  PROVE  CacheInv'
<1> USE DEF CacheInv
<1>1. PICK n \in 0 .. CatalogSize : Packed(disk_catalog, n)
  BY DEF Catalogs
<1>2. n \in Nat /\ disk_catalog \in CatalogType
  BY Sizes, <1>1 DEF TypeOK, CatalogType
<1>3. NextExtent = n
  BY <1>1, <1>2, PackedNext
<1>4. /\ user = "nobody" /\ user' = "bochs" /\ catalog' = disk_catalog /\ extent_next' = n
      /\ imagepos' = 0 /\ bitmap_update' = TRUE
      /\ UNCHANGED <<file, base_image, bitmap, request, reply, pc, writing, committing>>
  BY <1>3 DEF Open
<1>5. TypeOK'
  BY <1>1, <1>4, Sizes
     DEF TypeOK, file, base_image, request, writing, committing
<1>6. Requests'
  BY <1>4 DEF Requests, request
<1>7. pc' = "idle"
  BY <1>4 DEF Requests
<1>8. Writing' /\ CacheCoherent'
  BY <1>4, <1>7 DEF Writing, CacheCoherent, Allocating, file
<1>9. Catalogs'
  BY <1>1, <1>4 DEF Catalogs, file, Packed
<1> QED BY <1>5, <1>6, <1>8, <1>9

LEMMA StopKeeps ==
  ASSUME CacheInv, Stop
  PROVE  CacheInv'
<1> USE DEF CacheInv
<1>1. 0 \in Sectors /\ 0 \in 0 .. DiskSize /\ 0 \in 0 .. CatalogSize /\ 0 \in 0 .. Burst
  BY Sizes, RedologAssumption DEF Sectors
<1>2. TypeOK'
  BY <1>1, RedologAssumption DEF Stop, NoRequest, NoWrite, TypeOK, file, base_image
<1>3. Requests' /\ Writing' /\ CacheCoherent'
  BY DEF Stop, NoRequest, NoWrite, Requests, Writing, CacheCoherent
<1>4. Catalogs'
  BY DEF Stop, Catalogs, file, Packed
<1> QED BY <1>2, <1>3, <1>4

LEMMA LseekKeeps ==
  ASSUME CacheInv, NEW o \in {"read", "write"}, NEW s \in Sectors, NEW n \in 1 .. Burst,
         Lseek(o, s, n)
  PROVE  CacheInv'
<1> USE DEF CacheInv
<1>1. /\ user = "bochs" /\ left = 0 /\ s + n <= DiskSize /\ op' = o /\ target' = s /\ left' = n
      /\ ro_pos' = s /\ reply' = None /\ MoveTo(s, bitmap_update)
      /\ UNCHANGED <<file, base_image, user, catalog, extent_next, bitmap, pc, writing,
                     committing>>
  BY DEF Lseek
<1>2. s \in 0 .. DiskSize /\ bitmap_update \in BOOLEAN /\ s \in Nat /\ n \in 0 .. Burst /\ n > 0
      /\ DiskSize \in Nat
  BY Sizes, RedologAssumption DEF Sectors, TypeOK
<1>3. /\ imagepos' = s /\ bitmap_update' \in BOOLEAN
      /\ ~bitmap_update' => ~bitmap_update /\ ExtentOf(s) = ExtentOf(imagepos)
  BY <1>1, <1>2, MoveToKeeps
<1>4. pc = "idle" /\ pc' = "idle"
  BY <1>1 DEF Requests, TypeOK
<1>5. TypeOK'
  BY <1>1, <1>2, <1>3 DEF TypeOK, file, base_image, writing, committing
<1>6. Requests' /\ Writing'
  BY <1>1, <1>2, <1>3, <1>4 DEF Requests, Writing
<1>7. CacheCoherent'
  <2>1. s < DiskSize
    BY <1>2 DEF Sectors
  <2> QED BY <1>1, <1>3, <1>4, <2>1 DEF CacheCoherent, Allocating, Mapped, file
<1>8. Catalogs'
  BY <1>1 DEF Catalogs, file, Packed
<1> QED BY <1>5, <1>6, <1>7, <1>8

\* Without an extent in the making, memory and file have the same catalog.
LEMMA SameCatalog ==
  ASSUME CacheInv, user = "bochs", ~Allocating
  PROVE  \A e \in Extents : catalog[e] = disk_catalog[e]
BY DEF CacheInv, CacheCoherent

LEMMA ReadBlockKeeps ==
  ASSUME CacheInv, ReadBlock
  PROVE  CacheInv'
<1> USE DEF CacheInv
<1>1. /\ user = "bochs" /\ op = "read" /\ left > 0
      /\ bitmap' = IF Mapped = NotAllocated THEN bitmap ELSE CurrentBitmap
      /\ UNCHANGED <<file, base_image, user, catalog, extent_next, pc, writing, committing>>
  BY DEF ReadBlock
<1>2. /\ imagepos \in Sectors /\ imagepos \in Nat /\ imagepos + 1 \in 0 .. DiskSize
      /\ ExtentOf(imagepos) \in Extents /\ BlockOf(imagepos) \in Blocks
      /\ Mapped \in Extents \union {NotAllocated}
      /\ Mapped # NotAllocated => CurrentBitmap \in SUBSET Blocks
  BY <1>1, AtWork
<1>3. reply' \in Replies
  <2> DEFINE v == IF Present THEN disk_block[Mapped][BlockOf(imagepos)] ELSE base[ro_pos]
  <2>1. v \in Data
    BY <1>2 DEF Present, TypeOK
  <2>2. reply' = [sector |-> target, data |-> v]
    BY DEF ReadBlock
  <2> HIDE DEF v
  <2> QED BY <2>1, <2>2 DEF Replies, TypeOK
<1>4. pc = "idle" /\ pc' = "idle"
  BY <1>1 DEF Requests
<1>5. /\ target + left <= DiskSize /\ imagepos <= target /\ ro_pos <= target
      /\ target \in Nat /\ ro_pos \in Nat /\ left \in Nat
      /\ bitmap_update \in BOOLEAN /\ bitmap \in SUBSET Blocks
      /\ ~bitmap_update => Mapped # NotAllocated /\ bitmap = disk_bitmap[Mapped]
  BY <1>1, RedologAssumption DEF Requests, TypeOK, Sectors, CacheCoherent
<1>6. Mapped # NotAllocated => CurrentBitmap = disk_bitmap[Mapped]
  BY <1>5 DEF CurrentBitmap
<1>7. /\ op' \in {"none", "read", "write"} /\ target' \in Sectors /\ ro_pos' \in Sectors
      /\ left' \in 0 .. Burst
      /\ left' > 0 => /\ op' = op /\ target' = target + 1 /\ left' = left - 1
                      /\ ro_pos' <= target + 1 /\ target' + left' <= DiskSize
  <2>1. ro_pos + 1 \in Nat /\ ro_pos + 1 <= target + 1 /\ ro_pos <= target + 1
    BY <1>5
  <2>2. CASE Present
    BY <1>1, <1>5, <2>1, <2>2, NextBlockKeeps DEF ReadBlock
  <2>3. CASE ~Present
    BY <1>1, <1>5, <2>1, <2>3, NextBlockKeeps DEF ReadBlock
  <2> QED BY <2>2, <2>3
<1>8. /\ imagepos' \in {imagepos, imagepos + 1} /\ bitmap_update' \in BOOLEAN
      /\ ~bitmap_update' => /\ ExtentOf(imagepos') = ExtentOf(imagepos)
                            /\ Mapped # NotAllocated
  <2>1. CASE Present
    <3>1. MoveTo(imagepos + 1, FALSE)
      BY <2>1 DEF ReadBlock
    <3> QED BY <1>2, <2>1, <3>1, MoveToKeeps DEF Present
  <2>2. CASE ~Present
    BY <1>5, <2>2 DEF ReadBlock
  <2> QED BY <2>1, <2>2
<1>9. imagepos' \in 0 .. DiskSize /\ imagepos' <= target + 1 /\ imagepos' \in Nat
  BY <1>2, <1>5, <1>8, Sizes DEF Sectors
<1>10. TypeOK'
  BY <1>1, <1>2, <1>3, <1>5, <1>7, <1>8, <1>9
     DEF TypeOK, file, base_image, writing, committing
<1>11. Requests' /\ Writing'
  BY <1>1, <1>4, <1>7, <1>9 DEF Requests, Writing
<1>12. CacheCoherent'
  <2>1. ASSUME ~bitmap_update'
        PROVE  imagepos' < DiskSize /\ Mapped' # NotAllocated /\ bitmap' = disk_bitmap'[Mapped']
    <3>1. ExtentOf(imagepos') = ExtentOf(imagepos) /\ Mapped # NotAllocated
      BY <1>8, <2>1
    <3>2. imagepos' \in Sectors
      BY <1>2, <1>9, <3>1, InDisk
    <3>3. Mapped' = Mapped
      BY <1>1, <3>1 DEF Mapped
    <3>4. disk_bitmap' = disk_bitmap
      BY <1>1 DEF file
    <3> QED BY <1>1, <1>6, <3>1, <3>2, <3>3, <3>4, Sizes DEF Sectors
  <2>2. \A e \in Extents : catalog'[e] = disk_catalog'[e]
    BY <1>1, <1>4, SameCatalog DEF Allocating, file
  <2>3. ~Allocating'
    BY <1>4 DEF Allocating
  <2> QED BY <2>1, <2>2, <2>3 DEF CacheCoherent
<1>13. Catalogs'
  BY <1>1 DEF Catalogs, file, Packed
<1> QED BY <1>10, <1>11, <1>12, <1>13

LEMMA BeginWriteKeeps ==
  ASSUME CacheInv, NEW v \in Data, BeginWrite(v)
  PROVE  CacheInv'
<1> USE DEF CacheInv
<1>1. /\ user = "bochs" /\ op = "write" /\ left > 0 /\ pc = "idle" /\ buf' = v
      /\ UNCHANGED <<file, base_image, user, bitmap, position, request, reply, written,
                     committing>>
  BY DEF BeginWrite
<1> DEFINE e == ExtentOf(imagepos)
<1>2. /\ imagepos \in Sectors /\ imagepos \in Nat /\ e \in Extents
      /\ Mapped \in Extents \union {NotAllocated} /\ catalog \in CatalogType
      /\ extent_next \in Nat /\ CatalogSize \in Nat
  BY <1>1, AtWork, Sizes DEF TypeOK, CatalogType
<1>3. ~Allocating /\ \A f \in Extents : catalog[f] = disk_catalog[f]
  BY <1>1, SameCatalog DEF Allocating
<1>4. CASE Mapped = NotAllocated
  <2>1. /\ catalog' = [catalog EXCEPT ![e] = extent_next] /\ extent_next' = extent_next + 1
        /\ extent_next < CatalogSize /\ update_catalog' = TRUE /\ pc' = "zero_bitmap"
    BY <1>4 DEF BeginWrite
  <2>2. catalog'[e] = extent_next /\ \A f \in Extents \ {e} : catalog'[f] = catalog[f]
    BY <1>2, <2>1 DEF CatalogType
  <2>3. extent_next \in Extents /\ extent_next # NotAllocated
    BY <1>2, <2>1 DEF Extents, NotAllocated
  <2>4. TypeOK'
    BY <1>1, <1>2, <2>1, <2>3
       DEF TypeOK, file, base_image, position, request, committing, Extents
  <2>5. bitmap_update = TRUE
    BY <1>1, <1>4 DEF CacheCoherent, TypeOK
  <2>6. imagepos' = imagepos /\ bitmap_update' = bitmap_update
    BY <1>1 DEF position
  <2>7. Mapped' = extent_next
    BY <2>2, <2>6 DEF Mapped
  <2>8. Requests'
    BY <1>1, <2>6 DEF Requests, request
  <2>9. Writing'
    BY <2>1, <2>3, <2>5, <2>6, <2>7 DEF Writing
  <2>10. CacheCoherent'
    <3>1. disk_catalog' = disk_catalog
      BY <1>1 DEF file
    <3>2. disk_catalog'[e] = NotAllocated
      BY <1>2, <1>3, <1>4, <3>1 DEF Mapped
    <3>3. Allocating' /\ ExtentOf(imagepos') = e /\ extent_next' - 1 = extent_next
      BY <1>2, <2>1, <2>6 DEF Allocating
    <3> QED BY <1>3, <2>2, <2>5, <2>6, <3>1, <3>2, <3>3 DEF CacheCoherent
  <2>11. Catalogs'
    <3>1. Packed(catalog', extent_next')
      BY <1>1, <1>2, <1>4, <2>1, PackedAdd DEF Catalogs, Mapped
    <3> QED BY <1>1, <3>1 DEF Catalogs, file, Packed
  <2> QED BY <2>4, <2>8, <2>9, <2>10, <2>11
<1>5. CASE Mapped # NotAllocated
  <2>1. /\ update_catalog' = FALSE /\ pc' = "data" /\ catalog' = catalog
        /\ extent_next' = extent_next /\ imagepos' = imagepos
        /\ bitmap_update' = bitmap_update
    BY <1>1, <1>5 DEF BeginWrite, position
  <2>2. TypeOK'
    BY <1>1, <2>1 DEF TypeOK, file, base_image, position, request, committing
  <2>3. Requests' /\ Writing'
    BY <1>1, <1>5, <2>1 DEF Requests, Writing, request, Mapped
  <2>4. CacheCoherent'
    BY <1>1, <1>3, <2>1 DEF CacheCoherent, Allocating, Mapped, file
  <2>5. Catalogs'
    BY <1>1, <2>1 DEF Catalogs, file, Packed
  <2> QED BY <2>2, <2>3, <2>4, <2>5
<1> QED BY <1>4, <1>5

LEMMA InWrite ==
  ASSUME CacheInv, pc # "idle"
  PROVE  /\ user = "bochs" /\ op = "write" /\ left > 0 /\ target = imagepos
         /\ imagepos \in Sectors /\ imagepos \in Nat /\ imagepos + 1 \in 0 .. DiskSize
         /\ ExtentOf(imagepos) \in Extents /\ BlockOf(imagepos) \in Blocks
         /\ Mapped \in Extents /\ CurrentBitmap = disk_bitmap[Mapped]
         /\ disk_bitmap[Mapped] \in SUBSET Blocks
<1>1. user = "bochs" /\ op = "write" /\ left > 0 /\ target = imagepos
  BY DEF CacheInv, Requests
<1>2. Mapped # NotAllocated
  BY DEF CacheInv, Writing
<1>3. CurrentBitmap = disk_bitmap[Mapped]
  BY <1>1 DEF CacheInv, CacheCoherent, CurrentBitmap
<1>4. disk_bitmap \in [Extents -> SUBSET Blocks]
  BY DEF CacheInv, TypeOK
<1> QED BY <1>1, <1>2, <1>3, <1>4, AtWork DEF CacheInv

LEMMA ZeroBitmapKeeps ==
  ASSUME CacheInv, ZeroBitmap
  PROVE  CacheInv'
<1> USE DEF CacheInv
<1>1. /\ pc = "zero_bitmap" /\ pc' = "zero_extent"
      /\ disk_bitmap' = [disk_bitmap EXCEPT ![Mapped] = {}]
      /\ UNCHANGED <<disk_catalog, disk_block, base_image, user, catalog, extent_next,
                     bitmap, position, request, reply, writing, committing>>
  BY DEF ZeroBitmap
<1>2. Mapped \in Extents /\ user = "bochs" /\ bitmap_update
  BY <1>1, InWrite DEF Writing
<1>3. TypeOK'
  BY <1>1, <1>2 DEF TypeOK, base_image, position, request, writing, committing
<1>4. Requests' /\ Writing'
  BY <1>1 DEF Requests, Writing, Mapped, position, request, writing
<1>5. CacheCoherent'
  BY <1>1, <1>2 DEF CacheCoherent, Writing, Allocating, position, writing
<1>6. Catalogs'
  BY <1>1 DEF Catalogs, Packed
<1> QED BY <1>3, <1>4, <1>5, <1>6

LEMMA ZeroExtentKeeps ==
  ASSUME CacheInv, ZeroExtent
  PROVE  CacheInv'
<1> USE DEF CacheInv
<1>1. /\ pc = "zero_extent" /\ pc' = "data"
      /\ disk_block' = [disk_block EXCEPT ![Mapped] = [b \in Blocks |-> Zero]]
      /\ UNCHANGED <<disk_catalog, disk_bitmap, base_image, user, catalog, extent_next,
                     bitmap, position, request, reply, writing, committing>>
  BY DEF ZeroExtent
<1>2. Mapped \in Extents /\ user = "bochs" /\ bitmap_update
  BY <1>1, InWrite DEF Writing
<1>3. [b \in Blocks |-> Zero] \in [Blocks -> Data]
  BY RedologAssumption
<1>4. TypeOK'
  BY <1>1, <1>2, <1>3 DEF TypeOK, base_image, position, request, writing, committing
<1>5. Requests' /\ Writing'
  BY <1>1 DEF Requests, Writing, Mapped, position, request, writing
<1>6. CacheCoherent'
  BY <1>1, <1>2 DEF CacheCoherent, Writing, Allocating, position, writing
<1>7. Catalogs'
  BY <1>1 DEF Catalogs, Packed
<1> QED BY <1>4, <1>5, <1>6, <1>7

LEMMA WriteDataKeeps ==
  ASSUME CacheInv, NEW ok \in BOOLEAN, WriteData(ok)
  PROVE  CacheInv'
<1> USE DEF CacheInv
<1>1. /\ pc = "data" /\ pc' = "bitmap" /\ written' = ok
      /\ UNCHANGED <<disk_catalog, disk_bitmap, base_image, user, catalog, extent_next,
                     bitmap, position, request, reply, buf, update_catalog, committing>>
  BY DEF WriteData
<1>2. Mapped \in Extents /\ user = "bochs" /\ BlockOf(imagepos) \in Blocks
  BY <1>1, InWrite
<1>3. disk_block' \in [Extents -> [Blocks -> Data]]
  BY <1>2 DEF WriteData, TypeOK
<1>4. TypeOK'
  BY <1>1, <1>3 DEF TypeOK, base_image, position, request, committing
<1>5. Requests' /\ Writing'
  BY <1>1 DEF Requests, Writing, Mapped, position, request
<1>6. CacheCoherent'
  BY <1>1, <1>2 DEF CacheCoherent, Writing, Allocating, Mapped, position
<1>7. Catalogs'
  BY <1>1 DEF Catalogs, Packed
<1> QED BY <1>4, <1>5, <1>6, <1>7

LEMMA WriteBitmapKeeps ==
  ASSUME CacheInv, WriteBitmap
  PROVE  CacheInv' /\ disk_bitmap' = [disk_bitmap EXCEPT ![Mapped] = @ \union {BlockOf(imagepos)}]
<1> USE DEF CacheInv
<1>1. /\ pc = "bitmap" /\ pc' = (IF update_catalog THEN "catalog" ELSE "return")
      /\ bitmap' = CurrentBitmap \union {BlockOf(imagepos)} /\ bitmap_update' = FALSE
      /\ disk_bitmap' = IF Present THEN disk_bitmap
                        ELSE [disk_bitmap EXCEPT ![Mapped] = bitmap']
      /\ UNCHANGED <<disk_catalog, disk_block, base_image, user, catalog, extent_next,
                     imagepos, request, reply, writing, committing>>
  BY DEF WriteBitmap
<1>2. /\ Mapped \in Extents /\ user = "bochs" /\ imagepos \in Sectors
      /\ BlockOf(imagepos) \in Blocks
      /\ CurrentBitmap = disk_bitmap[Mapped] /\ disk_bitmap[Mapped] \in SUBSET Blocks
      /\ disk_bitmap \in [Extents -> SUBSET Blocks] /\ Mapped # NotAllocated
  BY <1>1, InWrite DEF TypeOK, Writing
<1>3. bitmap' \in SUBSET Blocks /\ bitmap' = disk_bitmap[Mapped] \union {BlockOf(imagepos)}
  BY <1>1, <1>2
<1>4. disk_bitmap' = [disk_bitmap EXCEPT ![Mapped] = bitmap']
  BY <1>1, <1>2, <1>3 DEF Present
<1>5. disk_bitmap' \in [Extents -> SUBSET Blocks] /\ disk_bitmap'[Mapped] = bitmap'
  BY <1>2, <1>3, <1>4
<1>6. TypeOK'
  BY <1>1, <1>3, <1>5 DEF TypeOK, base_image, request, writing, committing
<1>7. Mapped' = Mapped
  BY <1>1 DEF Mapped
<1>8. Requests' /\ Writing'
  BY <1>1, <1>2, <1>7 DEF Requests, Writing, request, writing
<1>9. CacheCoherent'
  <2>1. imagepos' < DiskSize
    BY <1>1, <1>2, Sizes DEF Sectors
  <2>2. Allocating' <=> Allocating
    BY <1>1 DEF Allocating, writing
  <2> QED BY <1>1, <1>2, <1>5, <1>7, <2>1, <2>2 DEF CacheCoherent
<1>10. Catalogs'
  BY <1>1 DEF Catalogs, Packed
<1> QED BY <1>3, <1>4, <1>6, <1>8, <1>9, <1>10

LEMMA WriteCatalogKeeps ==
  ASSUME CacheInv, WriteCatalog
  PROVE  CacheInv' /\ disk_catalog' = catalog
<1> USE DEF CacheInv
<1> DEFINE e == ExtentOf(imagepos)
<1>1. /\ pc = "catalog" /\ pc' = "return"
      /\ disk_catalog' = [disk_catalog EXCEPT ![e] = Mapped]
      /\ UNCHANGED <<disk_bitmap, disk_block, base_image, user, catalog, extent_next,
                     bitmap, position, request, reply, writing, committing>>
  BY DEF WriteCatalog
<1>2. /\ Mapped \in Extents /\ user = "bochs" /\ e \in Extents /\ update_catalog /\ Allocating
      /\ disk_catalog \in CatalogType /\ catalog \in CatalogType
      /\ extent_next \in 0 .. CatalogSize
  BY <1>1, InWrite DEF Writing, TypeOK, CatalogType, Allocating
<1>3. disk_catalog' = catalog
  <2>1. \A f \in Extents \ {e} : disk_catalog[f] = catalog[f]
    BY <1>2 DEF CacheCoherent
  <2>2. disk_catalog' \in CatalogType
    BY <1>1, <1>2 DEF CatalogType
  <2>3. \A f \in Extents : disk_catalog'[f] = catalog[f]
    BY <1>1, <1>2, <2>1 DEF Mapped, CatalogType
  <2> QED BY <1>2, <2>2, <2>3 DEF CatalogType
<1>4. TypeOK'
  BY <1>1, <1>3 DEF TypeOK, base_image, position, request, writing, committing
<1>5. Requests' /\ Writing'
  BY <1>1 DEF Requests, Writing, Mapped, position, request, writing
<1>6. CacheCoherent'
  BY <1>1, <1>2, <1>3 DEF CacheCoherent, Allocating, Mapped, position
<1>7. Catalogs'
  <2>1. Packed(disk_catalog', extent_next') /\ Packed(catalog', extent_next')
    BY <1>1, <1>2, <1>3 DEF Catalogs
  <2> QED BY <1>1, <1>2, <2>1 DEF Catalogs
<1> QED BY <1>3, <1>4, <1>5, <1>6, <1>7

LEMMA ReturnKeeps ==
  ASSUME CacheInv, Return
  PROVE  CacheInv'
<1> USE DEF CacheInv
<1>1. /\ pc = "return" /\ pc' = "idle" /\ NoWrite
      /\ UNCHANGED <<file, base_image, user, catalog, extent_next, bitmap, reply, committing>>
  BY DEF Return
<1>2. /\ user = "bochs" /\ op = "write" /\ left > 0 /\ target = imagepos
      /\ imagepos \in Sectors /\ imagepos \in Nat /\ imagepos + 1 \in 0 .. DiskSize
      /\ ExtentOf(imagepos) \in Extents /\ bitmap_update \in BOOLEAN
      /\ target + left <= DiskSize /\ ro_pos <= target /\ ro_pos \in Nat /\ target \in Nat
  BY <1>1, InWrite DEF Requests, TypeOK, Sectors
<1>3. /\ op' \in {"none", "read", "write"} /\ target' \in Sectors /\ ro_pos' \in Sectors
      /\ left' \in 0 .. Burst
      /\ left' > 0 => /\ written /\ target' = target + 1
                      /\ ro_pos' <= target' /\ target' + left' <= DiskSize
  <2>1. CASE written
    <3>1. NextBlock(ro_pos) /\ ro_pos <= target + 1
      BY <1>2, <2>1 DEF Return
    <3> QED BY <1>2, <2>1, <3>1, NextBlockKeeps
  <2>2. CASE ~written
    BY <2>2, Sizes, RedologAssumption DEF Return, NoRequest, Sectors
  <2> QED BY <2>1, <2>2
<1>4. /\ imagepos' = (IF written THEN imagepos + 1 ELSE imagepos) /\ bitmap_update' \in BOOLEAN
      /\ ~bitmap_update' => ~bitmap_update /\ ExtentOf(imagepos') = ExtentOf(imagepos)
  <2>1. CASE written
    <3>1. MoveTo(imagepos + 1, bitmap_update)
      BY <2>1 DEF Return
    <3> QED BY <1>2, <2>1, <3>1, MoveToKeeps
  <2>2. CASE ~written
    BY <1>2, <2>2 DEF Return, position
  <2> QED BY <2>1, <2>2
<1>5. imagepos' \in 0 .. DiskSize /\ imagepos' \in Nat
  BY <1>2, <1>4, Sizes DEF Sectors
<1>6. TypeOK'
  BY <1>1, <1>3, <1>4, <1>5, RedologAssumption
     DEF TypeOK, NoWrite, file, base_image, committing
<1>7. Requests' /\ Writing'
  BY <1>1, <1>2, <1>3, <1>4 DEF Requests, Writing, NoWrite
<1>8. CacheCoherent'
  <2>1. ASSUME ~bitmap_update'
        PROVE  imagepos' < DiskSize /\ Mapped' # NotAllocated /\ bitmap' = disk_bitmap'[Mapped']
    <3>1. ExtentOf(imagepos') = ExtentOf(imagepos) /\ ~bitmap_update
      BY <1>4, <2>1
    <3>2. imagepos' \in Sectors
      BY <1>2, <1>5, <3>1, InDisk
    <3>3. Mapped' = Mapped /\ disk_bitmap' = disk_bitmap
      BY <1>1, <3>1 DEF Mapped, file
    <3>4. Mapped # NotAllocated /\ bitmap = disk_bitmap[Mapped]
      BY <1>2, <3>1 DEF CacheCoherent
    <3> QED BY <1>1, <3>2, <3>3, <3>4, Sizes DEF Sectors
  <2>2. \A f \in Extents : catalog'[f] = disk_catalog'[f]
    BY <1>1, <1>2, SameCatalog DEF Allocating, file
  <2>3. ~Allocating'
    BY <1>1 DEF Allocating
  <2> QED BY <2>1, <2>2, <2>3 DEF CacheCoherent
<1>9. Catalogs'
  BY <1>1 DEF Catalogs, file, Packed
<1> QED BY <1>6, <1>7, <1>8, <1>9

LEMMA CommitKeeps ==
  ASSUME CacheInv,
         BeginCommit \/ (\E s \in Sectors, ok \in BOOLEAN : CommitBlock(s, ok)) \/ EndCommit
  PROVE  CacheInv'
<1> USE DEF CacheInv
<1>1. CASE BeginCommit
  <2>1. TypeOK'
    BY <1>1 DEF BeginCommit, TypeOK, file, base_image, position, request, writing
  <2>2. Requests' /\ Writing' /\ CacheCoherent' /\ Catalogs'
    BY <1>1 DEF BeginCommit, Requests, Writing, CacheCoherent, Catalogs, Packed, Mapped,
                file, position, request, writing
  <2> QED BY <2>1, <2>2
<1>2. ASSUME NEW s \in Sectors, NEW ok \in BOOLEAN, CommitBlock(s, ok) PROVE CacheInv'
  <2>1. Content(s) \in Data
    BY Address DEF Content, InFile, TypeOK
  <2>2. TypeOK'
    BY <1>2, <2>1 DEF CommitBlock, TypeOK, file, position, request, writing
  <2>3. Requests' /\ Writing' /\ CacheCoherent' /\ Catalogs'
    BY <1>2 DEF CommitBlock, Requests, Writing, CacheCoherent, Catalogs, Packed, Mapped,
                file, position, request, writing
  <2> QED BY <2>2, <2>3
<1>3. CASE EndCommit
  <2>1. TypeOK'
    BY <1>3 DEF EndCommit, TypeOK, position, request, writing
  <2>2. Requests' /\ Writing' /\ CacheCoherent'
    BY <1>3 DEF EndCommit, Requests, Writing, CacheCoherent, Mapped, position, request, writing
  <2>3. Catalogs'
    <3>1. CASE failed
      BY <1>3, <3>1 DEF EndCommit, Catalogs, Packed
    <3>2. CASE ~failed
      <4>1. disk_catalog' = [e \in Extents |-> NotAllocated] /\ user' # "bochs"
        BY <1>3, <3>2 DEF EndCommit
      <4>2. Packed(disk_catalog', 0) /\ 0 \in 0 .. CatalogSize
        BY <4>1, PackedEmpty, Sizes
      <4> QED BY <4>1, <4>2 DEF Catalogs
    <3> QED BY <3>1, <3>2
  <2> QED BY <2>1, <2>2, <2>3
<1> QED BY <1>1, <1>2, <1>3

LEMMA CacheStep ==
  ASSUME CacheInv, [Next]_vars
  PROVE  CacheInv'
<1>1. CASE UNCHANGED vars
  <2> USE <1>1 DEF vars
  <2>1. TypeOK'
    BY DEF CacheInv, TypeOK, file, base_image, position, request, writing, committing
  <2>2. Requests' /\ Writing'
    BY DEF CacheInv, Requests, Writing, Mapped, position, request, writing
  <2>3. CacheCoherent' /\ Catalogs'
    BY DEF CacheInv, CacheCoherent, Allocating, Catalogs, Packed, Mapped, file, position, writing
  <2> QED BY <2>1, <2>2, <2>3 DEF CacheInv
<1>2. CASE Next
  BY <1>2, OpenKeeps, StopKeeps, LseekKeeps, ReadBlockKeeps, BeginWriteKeeps, ZeroBitmapKeeps,
     ZeroExtentKeeps, WriteDataKeeps, WriteBitmapKeeps, WriteCatalogKeeps, ReturnKeeps,
     CommitKeeps DEF Next
<1> QED BY <1>1, <1>2

LEMMA AlwaysCached == Spec => []CacheInv
<1>1. Init => CacheInv
  BY InitKeeps
<1>2. CacheInv /\ [Next]_vars => CacheInv'
  BY CacheStep
<1> QED BY <1>1, <1>2, PTL DEF Spec

\* Positions, catalogs and bitmaps keep their types for requests of any
\* length, kills at any moment and every error of the host.
THEOREM TypesHold == Spec => []TypeOK
<1>1. CacheInv => TypeOK
  BY DEF CacheInv
<1> QED BY <1>1, AlwaysCached, PTL

\* The catalog and the bitmap in memory agree with the file, also where a
\* request crosses from one extent to the next.
THEOREM CacheCoherentHolds == Spec => []CacheCoherent
<1>1. CacheInv => CacheCoherent
  BY DEF CacheInv
<1> QED BY <1>1, AlwaysCached, PTL

\* However often the program is killed between the allocation of an extent
\* and the write of the catalog, the file has room for every extent.
THEOREM NeverFullHolds == Spec => []NeverFull
<1>1. ASSUME CacheInv, user = "bochs", left > 0, Mapped = NotAllocated
      PROVE  extent_next < CatalogSize
  <2>1. ExtentOf(imagepos) \in Extents
    BY <1>1, AtWork DEF CacheInv
  <2>2. /\ catalog \in CatalogType /\ extent_next \in 0 .. CatalogSize
        /\ Packed(catalog, extent_next) /\ catalog[ExtentOf(imagepos)] = NotAllocated
    BY <1>1 DEF CacheInv, TypeOK, CatalogType, Catalogs, Mapped
  <2> QED BY <2>1, <2>2, PackedRoom
<1>2. CacheInv => NeverFull
  BY <1>1 DEF NeverFull
<1> QED BY <1>2, AlwaysCached, PTL

-----------------------------------------------------------------------------
(* The refinement of BlockDevice. *)

\* What the file holds of the write in progress: the bitmap of a new extent is
\* clean, and the block is there before its bit.
Stored ==
  /\ update_catalog /\ pc \in {"zero_extent", "data", "bitmap"} => disk_bitmap[Mapped] = {}
  /\ pc = "catalog" => disk_bitmap[Mapped] = {BlockOf(imagepos)}
  /\ pc \in {"bitmap", "catalog", "return"} /\ written =>
       disk_block[Mapped][BlockOf(imagepos)] = buf
  /\ pc = "return" => BlockOf(imagepos) \in disk_bitmap[Mapped]

\* A commit that met no error has copied all that is not left to do.
Copied ==
  user = "bximage" =>
    /\ \A s \in todo : InFile(s)
    /\ ~failed => \A s \in Sectors : s \in todo \/ base[s] = Content(s)

\* What is read is read one block at a time.
SingleReads == op = "read" => left <= 1

\* A block to read is where redolog and base were positioned.
Aligned == left > 0 /\ op = "read" => imagepos = target /\ ro_pos = target

DeviceInv == CacheInv /\ Stored /\ Copied /\ Aligned

Contents == [s \in Sectors |-> Content(s)]

\* The states of a write.
Write(t, v, d, k) == [sector |-> t, data |-> v, done |-> d, ok |-> k]

LEMMA PendingNow ==
  /\ user # "bochs" \/ pc = "idle" => pending = None
  /\ user = "bochs" /\ pc # "idle" =>
       /\ pc \notin {"bitmap", "catalog", "return"} \/ ~InFile(target) =>
            pending = Write(target, buf, FALSE, TRUE)
       /\ pc \in {"bitmap", "catalog", "return"} /\ InFile(target) /\ written =>
            pending = Write(target, buf, TRUE, TRUE)
       /\ pc \in {"bitmap", "catalog", "return"} /\ InFile(target) /\ ~written =>
            pending = Write(target, buf, TRUE, FALSE)
<1> DEFINE d == pc \in {"bitmap", "catalog", "return"} /\ InFile(target)
           k == d => written
<1>1. user # "bochs" \/ pc = "idle" => pending = None
  BY DEF pending
<1>2. user = "bochs" /\ pc # "idle" => pending = Write(target, buf, d, k)
  BY DEF pending, Write
<1>3. pc \notin {"bitmap", "catalog", "return"} \/ ~InFile(target) => d = FALSE /\ k = TRUE
  OBVIOUS
<1>4. pc \in {"bitmap", "catalog", "return"} /\ InFile(target) /\ written => d = TRUE /\ k = TRUE
  OBVIOUS
<1>5. pc \in {"bitmap", "catalog", "return"} /\ InFile(target) /\ ~written => d = TRUE /\ k = FALSE
  OBVIOUS
<1> HIDE DEF d, k
<1> QED BY <1>1, <1>2, <1>3, <1>4, <1>5

LEMMA PendingNext ==
  /\ user' # "bochs" \/ pc' = "idle" => pending' = None
  /\ user' = "bochs" /\ pc' # "idle" =>
       /\ pc' \notin {"bitmap", "catalog", "return"} \/ ~InFile(target)' =>
            pending' = Write(target', buf', FALSE, TRUE)
       /\ pc' \in {"bitmap", "catalog", "return"} /\ InFile(target)' /\ written' =>
            pending' = Write(target', buf', TRUE, TRUE)
       /\ pc' \in {"bitmap", "catalog", "return"} /\ InFile(target)' /\ ~written' =>
            pending' = Write(target', buf', TRUE, FALSE)
<1> DEFINE d == pc' \in {"bitmap", "catalog", "return"} /\ InFile(target)'
           k == d => written'
<1>1. user' # "bochs" \/ pc' = "idle" => pending' = None
  BY DEF pending
<1>2. user' = "bochs" /\ pc' # "idle" => pending' = Write(target', buf', d, k)
  BY DEF pending, Write
<1>3. pc' \notin {"bitmap", "catalog", "return"} \/ ~InFile(target)' => d = FALSE /\ k = TRUE
  OBVIOUS
<1>4. pc' \in {"bitmap", "catalog", "return"} /\ InFile(target)' /\ written' => d = TRUE /\ k = TRUE
  OBVIOUS
<1>5. pc' \in {"bitmap", "catalog", "return"} /\ InFile(target)' /\ ~written' => d = TRUE /\ k = FALSE
  OBVIOUS
<1> HIDE DEF d, k
<1> QED BY <1>1, <1>2, <1>3, <1>4, <1>5

\* Nothing that a user of the device can see changes.
LEMMA DeviceStutters ==
  ASSUME \A s \in Sectors : Content(s)' = Content(s), pending' = pending, reply' = reply
  PROVE  UNCHANGED BD!abstractVars
<1>1. Contents' = Contents
  BY DEF Contents
<1> QED BY <1>1 DEF BD!abstractVars, Contents

LEMMA WriteEdits ==
  ASSUME NEW t \in Sectors, NEW v \in Data
  PROVE  /\ \A d, k \in BOOLEAN : Write(t, v, d, k) # None
         /\ [Write(t, v, FALSE, TRUE) EXCEPT !.done = TRUE] = Write(t, v, TRUE, TRUE)
         /\ [Write(t, v, FALSE, TRUE) EXCEPT !.done = TRUE, !.ok = FALSE]
              = Write(t, v, TRUE, FALSE)
<1> DEFINE W == [sector : Sectors, data : Data, done : BOOLEAN, ok : BOOLEAN]
<1>1. ASSUME NEW d \in BOOLEAN, NEW k \in BOOLEAN
      PROVE  Write(t, v, d, k) \in W /\ Write(t, v, d, k) # None
  <2>1. Write(t, v, d, k) \in W
    BY DEF Write
  <2> QED BY <2>1, RedologAssumption
<1>2. ASSUME NEW w \in W PROVE w = Write(w.sector, w.data, w.done, w.ok)
  BY DEF Write
<1>3. ASSUME NEW d \in BOOLEAN, NEW k \in BOOLEAN, NEW x \in BOOLEAN, NEW y \in BOOLEAN
      PROVE  /\ [Write(t, v, d, k) EXCEPT !.done = x] = Write(t, v, x, k)
             /\ [Write(t, v, d, k) EXCEPT !.done = x, !.ok = y] = Write(t, v, x, y)
  <2> DEFINE o == Write(t, v, d, k)
             p == [o EXCEPT !.done = x]
             q == [o EXCEPT !.done = x, !.ok = y]
  <2>1. o \in W /\ o.sector = t /\ o.data = v /\ o.ok = k
    BY <1>1 DEF Write
  <2> HIDE DEF o
  <2>2. p \in W /\ p.sector = t /\ p.data = v /\ p.done = x /\ p.ok = k
    BY <2>1
  <2>3. q \in W /\ q.sector = t /\ q.data = v /\ q.done = x /\ q.ok = y
    BY <2>1
  <2> HIDE DEF p, q, W
  <2>4. p = Write(t, v, x, k)
    BY <1>2, <2>2
  <2>5. q = Write(t, v, x, y)
    BY <1>2, <2>3
  <2> QED BY <2>4, <2>5 DEF o, p, q
<1> QED BY <1>1, <1>3

\* A write takes effect, or the host has refused its data.
LEMMA WriteTakesEffect ==
  ASSUME NEW t \in Sectors, NEW v \in Data, NEW k \in BOOLEAN,
         pending = Write(t, v, FALSE, TRUE), pending' = Write(t, v, TRUE, k),
         \A s \in Sectors \ {t} : Content(s)' = Content(s),
         Content(t)' \in Data, k => Content(t)' = v, reply' = reply
  PROVE  BD!AbstractNext
<1>1. Contents' = [Contents EXCEPT ![t] = Content(t)']
  BY DEF Contents
<1>2. pending.sector = t /\ pending.data = v /\ pending.done = FALSE
  BY DEF Write
<1>3. pending # None
  BY WriteEdits
<1>4. CASE k = TRUE
  <2>1. pending' = [pending EXCEPT !.done = TRUE]
    BY <1>4, WriteEdits
  <2>2. Contents' = [Contents EXCEPT ![pending.sector] = pending.data]
    BY <1>1, <1>2, <1>4
  <2>3. BD!Take
    BY <1>2, <1>3, <2>1, <2>2 DEF BD!Take, Contents
  <2> QED BY <2>3 DEF BD!AbstractNext
<1>5. CASE k = FALSE
  <2>1. pending' = [pending EXCEPT !.done = TRUE, !.ok = FALSE]
    BY <1>5, WriteEdits
  <2>2. \E w \in Data : Contents' = [Contents EXCEPT ![pending.sector] = w]
    BY <1>1, <1>2
  <2>3. BD!Spoil
    BY <1>2, <1>3, <2>1, <2>2 DEF BD!Spoil, Contents
  <2> QED BY <2>3 DEF BD!AbstractNext
<1> QED BY <1>4, <1>5

\* No other sector of the disk lies in the extent being written.
LEMMA OnlyHere ==
  ASSUME CacheInv, pc # "idle"
  PROVE  /\ \A f \in Extents : disk_catalog[f] = Mapped => f = ExtentOf(imagepos) /\ ~Allocating
         /\ ~Allocating => disk_catalog[ExtentOf(imagepos)] = Mapped
         /\ Allocating => disk_catalog[ExtentOf(imagepos)] = NotAllocated
         /\ Mapped \in Extents /\ Mapped # NotAllocated
<1> DEFINE e == ExtentOf(imagepos)
<1>1. /\ user = "bochs" /\ e \in Extents /\ Mapped \in Extents /\ Mapped = catalog[e]
  BY InWrite DEF Mapped
<1>2. Mapped # NotAllocated
  BY DEF CacheInv, Writing
<1>3. \A f \in Extents : catalog[f] = Mapped => f = e
  BY <1>1, <1>2 DEF CacheInv, Catalogs, Packed
<1>4. \A f \in Extents \ {e} : catalog[f] = disk_catalog[f]
  BY <1>1 DEF CacheInv, CacheCoherent
<1>5. Allocating => disk_catalog[e] = NotAllocated
  BY <1>1 DEF CacheInv, CacheCoherent
<1>6. ~Allocating => disk_catalog[e] = Mapped
  BY <1>1 DEF CacheInv, CacheCoherent
<1> QED BY <1>1, <1>2, <1>3, <1>4, <1>5, <1>6

\* Contents have the type of data.
LEMMA ContentType ==
  ASSUME TypeOK, NEW s \in Sectors
  PROVE  Content(s) \in Data
BY Address DEF Content, InFile, TypeOK

\* What lies in extents that no sector uses does not matter.
LEMMA UnusedExtent ==
  ASSUME TypeOK, disk_catalog' = disk_catalog, base' = base, NEW x,
         \A f \in Extents : disk_catalog[f] # x,
         \A y \in Extents \ {x} : disk_bitmap'[y] = disk_bitmap[y] /\ disk_block'[y] = disk_block[y],
         NEW s \in Sectors
  PROVE  (InFile(s)' <=> InFile(s)) /\ Content(s)' = Content(s)
<1>1. ExtentOf(s) \in Extents
  BY Address
<1> DEFINE y == disk_catalog[ExtentOf(s)]
<1>2. y # x /\ (y # NotAllocated => y \in Extents)
  BY <1>1 DEF TypeOK
<1>3. y # NotAllocated => disk_bitmap'[y] = disk_bitmap[y] /\ disk_block'[y] = disk_block[y]
  BY <1>2
<1>4. InFile(s)' <=> InFile(s)
  BY <1>3 DEF InFile
<1> QED BY <1>3, <1>4 DEF Content, InFile

LEMMA SameFile ==
  ASSUME UNCHANGED file, base' = base
  PROVE  \A s : (InFile(s)' <=> InFile(s)) /\ Content(s)' = Content(s)
BY DEF file, InFile, Content

\* A block written at the position of a write is seen there or nowhere.
LEMMA BlockWritten ==
  ASSUME DeviceInv, pc # "idle", disk_catalog' = disk_catalog, base' = base,
         NEW b, b = BlockOf(imagepos),
         \A y \in Extents \ {Mapped} :
           disk_bitmap'[y] = disk_bitmap[y] /\ disk_block'[y] = disk_block[y],
         \A k \in Blocks \ {b} : /\ disk_block'[Mapped][k] = disk_block[Mapped][k]
                                 /\ k \in disk_bitmap'[Mapped] <=> k \in disk_bitmap[Mapped],
         NEW s \in Sectors, s # imagepos
  PROVE  Content(s)' = Content(s)
<1> DEFINE y == disk_catalog[ExtentOf(s)]
<1>1. /\ ExtentOf(s) \in Extents /\ BlockOf(s) \in Blocks /\ s \in Nat /\ imagepos \in Nat
      /\ CacheInv
  BY Address, InWrite DEF DeviceInv
<1>2. y # NotAllocated => y \in Extents
  BY <1>1 DEF CacheInv, TypeOK
<1>3. CASE y = Mapped
  <2>1. ExtentOf(s) = ExtentOf(imagepos)
    BY <1>1, <1>3, OnlyHere
  <2>2. BlockOf(s) # b
    BY <1>1, <2>1, SameAddress
  <2>3. InFile(s)' <=> InFile(s)
    BY <1>1, <1>3, <2>2 DEF InFile
  <2> QED BY <1>1, <1>3, <2>2, <2>3 DEF Content
<1>4. CASE y # Mapped
  <2>1. InFile(s)' <=> InFile(s)
    BY <1>2, <1>4 DEF InFile
  <2> QED BY <1>2, <1>4, <2>1 DEF Content, InFile
<1> QED BY <1>3, <1>4

\* A step of the device, or none.
Seen == BD!AbstractNext \/ UNCHANGED BD!abstractVars

LEMMA OpenSeen ==
  ASSUME DeviceInv, Open
  PROVE  Seen /\ Stored' /\ Copied' /\ Aligned'
<1>1. /\ user = "nobody" /\ user' = "bochs" /\ pc = "idle" /\ pc' = "idle" /\ left' = 0
      /\ UNCHANGED file /\ base' = base /\ reply' = reply
  BY DEF Open, DeviceInv, CacheInv, Requests, request, base_image
<1>2. pending = None /\ pending' = None
  BY <1>1, PendingNow, PendingNext
<1>3. Seen
  BY <1>1, <1>2, SameFile, DeviceStutters DEF Seen
<1> QED BY <1>1, <1>3 DEF Stored, Copied, Aligned

LEMMA StopSeen ==
  ASSUME DeviceInv, Stop
  PROVE  Seen /\ Stored' /\ Copied' /\ Aligned'
<1>1. /\ user' = "nobody" /\ pc' = "idle" /\ left' = 0
      /\ UNCHANGED file /\ base' = base /\ reply' = None
  BY DEF Stop, NoRequest, base_image
<1>2. pending' = None
  BY <1>1, PendingNow, PendingNext
<1>3. Contents' = Contents
  BY <1>1, SameFile DEF Contents
<1>4. BD!Stop
  BY <1>1, <1>2, <1>3 DEF BD!Stop, Contents
<1>5. Seen
  BY <1>4 DEF Seen, BD!AbstractNext
<1> QED BY <1>1, <1>5 DEF Stored, Copied, Aligned

LEMMA LseekSeen ==
  ASSUME DeviceInv, NEW o, NEW s \in Sectors, NEW n \in 1 .. Burst, Lseek(o, s, n)
  PROVE  Seen /\ Stored' /\ Copied' /\ Aligned'
<1>1. /\ user' = "bochs" /\ pc = "idle" /\ pc' = "idle" /\ imagepos' = s
      /\ target' = s /\ ro_pos' = s
      /\ UNCHANGED file /\ base' = base /\ reply' = None
  BY DEF Lseek, MoveTo, DeviceInv, CacheInv, Requests, base_image, TypeOK
<1>2. pending = None /\ pending' = None
  BY <1>1, PendingNow, PendingNext
<1>3. Contents' = Contents
  BY <1>1, SameFile DEF Contents
<1>4. BD!Seek
  BY <1>1, <1>2, <1>3 DEF BD!Seek, Contents
<1>5. Seen
  BY <1>4 DEF Seen, BD!AbstractNext
<1> QED BY <1>1, <1>5 DEF Stored, Copied, Aligned

\* The cached catalog and bitmap lead to the block that the file has.
LEMMA ReadBlockSeen ==
  ASSUME DeviceInv, SingleReads, ReadBlock
  PROVE  Seen /\ Stored' /\ Copied' /\ Aligned'
<1>1. /\ user = "bochs" /\ user' = "bochs" /\ pc = "idle" /\ pc' = "idle" /\ op = "read"
      /\ left > 0 /\ left = 1 /\ imagepos = target /\ ro_pos = target
      /\ UNCHANGED file /\ base' = base
  BY DEF ReadBlock, SingleReads, DeviceInv, CacheInv, TypeOK, Requests, Aligned, base_image
<1>2. pending = None /\ pending' = None
  BY <1>1, PendingNow, PendingNext
<1>3. /\ imagepos \in Sectors /\ ExtentOf(imagepos) \in Extents
  BY <1>1, AtWork DEF DeviceInv, CacheInv
<1>4. Mapped = disk_catalog[ExtentOf(imagepos)]
  BY <1>1, <1>3, SameCatalog DEF DeviceInv, Mapped, Allocating
<1>5. Mapped # NotAllocated => CurrentBitmap = disk_bitmap[Mapped]
  BY <1>1 DEF CurrentBitmap, DeviceInv, CacheInv, CacheCoherent
<1>6. Present <=> InFile(target)
  BY <1>1, <1>4, <1>5 DEF Present, InFile
<1>7. (IF Present THEN disk_block[Mapped][BlockOf(imagepos)] ELSE base[ro_pos]) = Content(target)
  BY <1>1, <1>4, <1>6 DEF Content
<1>8. reply' = [sector |-> target, data |-> Contents[target]]
  BY <1>1, <1>3, <1>7 DEF ReadBlock, Contents
<1>9. Contents' = Contents
  BY <1>1, SameFile DEF Contents
<1>10. BD!Read(target)
  BY <1>2, <1>8, <1>9 DEF BD!Read, Contents
<1>11. Seen
  BY <1>1, <1>3, <1>10 DEF Seen, BD!AbstractNext
<1>12. left' = 0
  BY <1>1 DEF ReadBlock, NextBlock, NoRequest
<1> QED BY <1>1, <1>11, <1>12 DEF Stored, Copied, Aligned

LEMMA BeginWriteSeen ==
  ASSUME DeviceInv, NEW v \in Data, BeginWrite(v)
  PROVE  Seen /\ Stored' /\ Copied' /\ Aligned'
<1>1. /\ user = "bochs" /\ user' = "bochs" /\ pc = "idle" /\ left > 0 /\ buf' = v
      /\ UNCHANGED file /\ base' = base /\ reply' = reply /\ target' = target
      /\ op' = op /\ left' = left /\ imagepos' = imagepos /\ ro_pos' = ro_pos
      /\ pc' \in {"zero_bitmap", "data"} /\ (pc' = "data" => update_catalog' = FALSE)
  BY DEF BeginWrite, base_image, request, position
<1>2. target \in Sectors
  BY DEF DeviceInv, CacheInv, TypeOK
<1>3. pending = None /\ pending' = Write(target, v, FALSE, TRUE)
  BY <1>1, PendingNow, PendingNext
<1>4. Contents' = Contents
  BY <1>1, SameFile DEF Contents
<1>5. BD!Begin(target, v)
  BY <1>1, <1>3, <1>4 DEF BD!Begin, Contents, Write
<1>6. Seen
  BY <1>2, <1>5 DEF Seen, BD!AbstractNext
<1> QED BY <1>1, <1>6 DEF Stored, Copied, Aligned, DeviceInv

\* What the file says of the sector being written.
LEMMA HereInFile ==
  ASSUME CacheInv, pc # "idle"
  PROVE  /\ InFile(target) <=> ~Allocating /\ BlockOf(imagepos) \in disk_bitmap[Mapped]
         /\ InFile(target) => Content(target) = disk_block[Mapped][BlockOf(imagepos)]
<1>1. target = imagepos
  BY InWrite
<1>2. /\ ~Allocating => disk_catalog[ExtentOf(imagepos)] = Mapped
      /\ Allocating => disk_catalog[ExtentOf(imagepos)] = NotAllocated
      /\ Mapped # NotAllocated
  BY OnlyHere
<1>3. InFile(target) <=> ~Allocating /\ BlockOf(imagepos) \in disk_bitmap[Mapped]
  BY <1>1, <1>2 DEF InFile
<1> QED BY <1>1, <1>2, <1>3 DEF Content

\* Nobody sees the extent being allocated.
LEMMA ZeroBitmapSeen ==
  ASSUME DeviceInv, ZeroBitmap
  PROVE  Seen /\ Stored' /\ Copied' /\ Aligned'
<1>1. /\ pc = "zero_bitmap" /\ pc' = "zero_extent"
      /\ disk_bitmap' = [disk_bitmap EXCEPT ![Mapped] = {}]
      /\ UNCHANGED <<disk_catalog, disk_block, base, user, catalog, imagepos, op, target, left,
                     ro_pos, reply, buf, update_catalog, written>>
  BY DEF ZeroBitmap, base_image, position, request, writing
<1>2. CacheInv /\ TypeOK /\ Allocating
  BY <1>1 DEF DeviceInv, CacheInv, Writing, Allocating
<1>3. /\ user = "bochs" /\ Mapped \in Extents /\ target \in Sectors
      /\ \A f \in Extents : disk_catalog[f] # Mapped
  BY <1>1, <1>2, InWrite, OnlyHere
<1>4. Mapped' = Mapped /\ disk_bitmap'[Mapped] = {}
  BY <1>1, <1>2, <1>3 DEF Mapped, TypeOK
<1>5. \A y \in Extents \ {Mapped} : disk_bitmap'[y] = disk_bitmap[y] /\ disk_block'[y] = disk_block[y]
  BY <1>1, <1>2 DEF TypeOK
<1>6. \A s \in Sectors : Content(s)' = Content(s)
  BY <1>1, <1>2, <1>3, <1>5, UnusedExtent
<1>7. pending' = pending
  BY <1>1, <1>3, PendingNow, PendingNext
<1>8. Seen
  BY <1>1, <1>6, <1>7, DeviceStutters DEF Seen
<1> QED BY <1>1, <1>3, <1>4, <1>8 DEF Stored, Copied, Aligned, DeviceInv

LEMMA ZeroExtentSeen ==
  ASSUME DeviceInv, ZeroExtent
  PROVE  Seen /\ Stored' /\ Copied' /\ Aligned'
<1>1. /\ pc = "zero_extent" /\ pc' = "data"
      /\ disk_block' = [disk_block EXCEPT ![Mapped] = [b \in Blocks |-> Zero]]
      /\ UNCHANGED <<disk_catalog, disk_bitmap, base, user, catalog, imagepos, op, target, left,
                     ro_pos, reply, buf, update_catalog, written>>
  BY DEF ZeroExtent, base_image, position, request, writing
<1>2. CacheInv /\ TypeOK /\ Allocating /\ update_catalog
  BY <1>1 DEF DeviceInv, CacheInv, Writing, Allocating
<1>3. /\ user = "bochs" /\ Mapped \in Extents /\ target \in Sectors
      /\ \A f \in Extents : disk_catalog[f] # Mapped
  BY <1>1, <1>2, InWrite, OnlyHere
<1>4. Mapped' = Mapped /\ disk_bitmap[Mapped] = {}
  BY <1>1, <1>2 DEF Mapped, DeviceInv, Stored
<1>5. \A y \in Extents \ {Mapped} : disk_bitmap'[y] = disk_bitmap[y] /\ disk_block'[y] = disk_block[y]
  BY <1>1, <1>2 DEF TypeOK
<1>6. \A s \in Sectors : Content(s)' = Content(s)
  BY <1>1, <1>2, <1>3, <1>5, UnusedExtent
<1>7. pending' = pending
  BY <1>1, <1>3, PendingNow, PendingNext
<1>8. Seen
  BY <1>1, <1>6, <1>7, DeviceStutters DEF Seen
<1> QED BY <1>1, <1>3, <1>4, <1>8 DEF Stored, Copied, Aligned, DeviceInv

\* The data of a block that the file has are the write's effect; those of
\* another block wait for the bitmap and the catalog.
LEMMA WriteDataSeen ==
  ASSUME DeviceInv, NEW ok \in BOOLEAN, WriteData(ok)
  PROVE  Seen /\ Stored' /\ Copied' /\ Aligned'
<1> DEFINE b == BlockOf(imagepos)
<1>1. /\ pc = "data" /\ pc' = "bitmap" /\ written' = ok
      /\ disk_block' = IF ok THEN [disk_block EXCEPT ![Mapped][b] = buf] ELSE disk_block
      /\ UNCHANGED <<disk_catalog, disk_bitmap, base, user, catalog, imagepos, op, target, left,
                     ro_pos, reply, buf, update_catalog>>
  BY DEF WriteData, base_image, position, request
<1>2. CacheInv /\ TypeOK /\ CacheInv' /\ TypeOK'
  BY WriteDataKeeps DEF DeviceInv, CacheInv
<1>3. /\ user = "bochs" /\ Mapped \in Extents /\ target \in Sectors /\ target = imagepos
      /\ b \in Blocks /\ buf \in Data
  BY <1>1, <1>2, InWrite DEF TypeOK
<1>4. Mapped' = Mapped /\ (Allocating' <=> Allocating)
  BY <1>1 DEF Mapped, Allocating
<1>5. disk_block \in [Extents -> [Blocks -> Data]]
  BY <1>2 DEF TypeOK
<1>6. \A y \in Extents \ {Mapped} : disk_bitmap'[y] = disk_bitmap[y] /\ disk_block'[y] = disk_block[y]
  BY <1>1, <1>3, <1>5
<1>7. \A k \in Blocks \ {b} : disk_block'[Mapped][k] = disk_block[Mapped][k]
  BY <1>1, <1>3, <1>5
<1>8. ok => disk_block'[Mapped][b] = buf
  BY <1>1, <1>3, <1>5
<1>9. \A s \in Sectors \ {target} : Content(s)' = Content(s)
  BY <1>1, <1>3, <1>6, <1>7, BlockWritten
<1>10. InFile(target)' <=> InFile(target)
  BY <1>1, <1>3 DEF InFile
<1>11. pending = Write(target, buf, FALSE, TRUE)
  BY <1>1, <1>3, PendingNow
<1>12. Seen
  <2>1. CASE InFile(target)
    <3>1. pending' = Write(target, buf, TRUE, ok)
      BY <1>1, <1>3, <1>10, <2>1, PendingNext
    <3>2. Content(target)' = disk_block'[Mapped][b]
      BY <1>1, <1>2, <1>4, <1>10, <2>1, HereInFile, OnlyHere, <1>3 DEF Content
    <3>3. Content(target)' \in Data
      BY <1>3, <1>2, <3>2 DEF TypeOK
    <3>4. BD!AbstractNext
      BY <1>1, <1>3, <1>8, <1>9, <1>11, <3>1, <3>2, <3>3, WriteTakesEffect
    <3> QED BY <3>4 DEF Seen
  <2>2. CASE ~InFile(target)
    <3>1. Content(target)' = Content(target)
      BY <1>1, <1>10, <2>2 DEF Content
    <3>2. pending' = pending
      BY <1>1, <1>3, <1>10, <1>11, <2>2, PendingNext
    <3> QED BY <1>1, <1>9, <3>1, <3>2, DeviceStutters DEF Seen
  <2> QED BY <2>1, <2>2
<1> QED BY <1>1, <1>3, <1>4, <1>8, <1>12 DEF Stored, Copied, Aligned, DeviceInv

\* The bitmap makes a new block of a known extent visible.
LEMMA WriteBitmapSeen ==
  ASSUME DeviceInv, WriteBitmap
  PROVE  Seen /\ Stored' /\ Copied' /\ Aligned'
<1> DEFINE b == BlockOf(imagepos)
<1>1. /\ pc = "bitmap" /\ pc' = (IF update_catalog THEN "catalog" ELSE "return")
      /\ UNCHANGED <<disk_catalog, disk_block, base, user, catalog, imagepos, op, target, left,
                     ro_pos, reply, buf, update_catalog, written>>
  BY DEF WriteBitmap, base_image, request, writing
<1>2. CacheInv /\ TypeOK /\ CacheInv' /\ TypeOK'
      /\ disk_bitmap' = [disk_bitmap EXCEPT ![Mapped] = @ \union {b}]
  BY WriteBitmapKeeps DEF DeviceInv, CacheInv
<1>3. /\ user = "bochs" /\ Mapped \in Extents /\ target \in Sectors /\ target = imagepos
      /\ b \in Blocks /\ buf \in Data /\ written \in BOOLEAN
  BY <1>1, <1>2, InWrite DEF TypeOK
<1>4. Mapped' = Mapped /\ (Allocating' <=> Allocating)
  BY <1>1 DEF Mapped, Allocating
<1>5. disk_bitmap \in [Extents -> SUBSET Blocks]
  BY <1>2 DEF TypeOK
<1>6. \A y \in Extents \ {Mapped} : disk_bitmap'[y] = disk_bitmap[y] /\ disk_block'[y] = disk_block[y]
  BY <1>1, <1>2, <1>3, <1>5
<1>7. disk_bitmap'[Mapped] = disk_bitmap[Mapped] \union {b}
  BY <1>2, <1>3, <1>5
<1>8. \A s \in Sectors \ {target} : Content(s)' = Content(s)
  BY <1>1, <1>3, <1>6, <1>7, BlockWritten
<1>9. /\ InFile(target) <=> ~Allocating /\ b \in disk_bitmap[Mapped]
      /\ ~Allocating => disk_catalog[ExtentOf(target)] = Mapped
      /\ Allocating => disk_catalog[ExtentOf(target)] = NotAllocated
      /\ Mapped # NotAllocated
  BY <1>1, <1>2, <1>3, HereInFile, OnlyHere
<1>10. InFile(target)' <=> ~Allocating
  BY <1>1, <1>3, <1>7, <1>9 DEF InFile
<1>11. Seen
  <2>1. CASE InFile(target) <=> ~Allocating
    <3>1. InFile(target)' <=> InFile(target)
      BY <1>10, <2>1
    <3>2. Content(target)' = Content(target)
      BY <1>1, <3>1 DEF Content
    <3>3. pending' = pending
      BY <1>1, <1>3, <3>1, PendingNow, PendingNext
    <3> QED BY <1>1, <1>8, <3>2, <3>3, DeviceStutters DEF Seen
  <2>2. CASE ~InFile(target) /\ ~Allocating
    <3>1. pending = Write(target, buf, FALSE, TRUE)
      BY <1>1, <1>3, <2>2, PendingNow
    <3>2. pending' = Write(target, buf, TRUE, written)
      BY <1>1, <1>3, <1>10, <2>2, PendingNext
    <3>3. Content(target)' = disk_block[Mapped][b]
      BY <1>1, <1>3, <1>9, <1>10, <2>2 DEF Content
    <3>4. Content(target)' \in Data
      BY <1>2, <1>3, <3>3 DEF TypeOK
    <3>5. written => Content(target)' = buf
      BY <1>1, <3>3 DEF DeviceInv, Stored
    <3>6. BD!AbstractNext
      BY <1>1, <1>3, <1>8, <3>1, <3>2, <3>4, <3>5, WriteTakesEffect
    <3> QED BY <3>6 DEF Seen
  <2> QED BY <1>9, <2>1, <2>2
<1>12. Stored'
  <2>1. update_catalog => disk_bitmap'[Mapped] = {b}
    BY <1>1, <1>7 DEF DeviceInv, Stored
  <2> QED BY <1>1, <1>4, <1>7, <2>1 DEF Stored, DeviceInv
<1> QED BY <1>1, <1>3, <1>11, <1>12 DEF Copied, Aligned, DeviceInv

\* The catalog makes the first block of a new extent visible, and no other:
\* the bitmap was cleared.
LEMMA WriteCatalogSeen ==
  ASSUME DeviceInv, WriteCatalog
  PROVE  Seen /\ Stored' /\ Copied' /\ Aligned'
<1> DEFINE e == ExtentOf(imagepos)
           b == BlockOf(imagepos)
<1>1. /\ pc = "catalog" /\ pc' = "return"
      /\ UNCHANGED <<disk_bitmap, disk_block, base, user, catalog, imagepos, op, target, left,
                     ro_pos, reply, buf, update_catalog, written>>
  BY DEF WriteCatalog, base_image, position, request, writing
<1>2. CacheInv /\ TypeOK /\ CacheInv' /\ TypeOK' /\ disk_catalog' = catalog /\ Allocating
  BY <1>1, WriteCatalogKeeps DEF DeviceInv, CacheInv, Writing, Allocating
<1>3. /\ user = "bochs" /\ Mapped \in Extents /\ target \in Sectors /\ target = imagepos
      /\ e \in Extents /\ b \in Blocks /\ buf \in Data /\ written \in BOOLEAN
      /\ imagepos \in Nat
  BY <1>1, <1>2, InWrite DEF TypeOK
<1>4. /\ disk_catalog'[e] = Mapped /\ disk_catalog[e] = NotAllocated /\ Mapped # NotAllocated
      /\ \A f \in Extents \ {e} : disk_catalog'[f] = disk_catalog[f]
  BY <1>1, <1>2, <1>3, OnlyHere DEF CacheInv, CacheCoherent, Mapped
<1>5. disk_bitmap[Mapped] = {b} /\ (written => disk_block[Mapped][b] = buf)
  BY <1>1 DEF DeviceInv, Stored
<1>6. ASSUME NEW s \in Sectors \ {target} PROVE Content(s)' = Content(s)
  <2>1. s \in Nat /\ ExtentOf(s) \in Extents
    BY Address
  <2>2. CASE ExtentOf(s) = e
    <3>1. BlockOf(s) # b
      BY <1>3, <2>1, <2>2, SameAddress
    <3>2. ~InFile(s) /\ ~InFile(s)'
      BY <1>1, <1>4, <1>5, <2>2, <3>1 DEF InFile
    <3> QED BY <1>1, <3>2 DEF Content
  <2>3. CASE ExtentOf(s) # e
    <3>1. disk_catalog'[ExtentOf(s)] = disk_catalog[ExtentOf(s)]
      BY <1>4, <2>1, <2>3
    <3>2. InFile(s)' <=> InFile(s)
      BY <1>1, <3>1 DEF InFile
    <3> QED BY <1>1, <3>1, <3>2 DEF Content
  <2> QED BY <2>2, <2>3
<1>7. ~InFile(target) /\ InFile(target)' /\ Content(target)' = disk_block[Mapped][b]
  BY <1>1, <1>3, <1>4, <1>5 DEF InFile, Content
<1>8. pending = Write(target, buf, FALSE, TRUE) /\ pending' = Write(target, buf, TRUE, written)
  BY <1>1, <1>3, <1>7, PendingNow, PendingNext
<1>9. Content(target)' \in Data
  BY <1>2, <1>3, <1>7 DEF TypeOK
<1>10. BD!AbstractNext
  BY <1>1, <1>3, <1>5, <1>6, <1>7, <1>8, <1>9, WriteTakesEffect
<1>11. Mapped' = Mapped
  BY <1>1 DEF Mapped
<1> QED BY <1>1, <1>3, <1>5, <1>10, <1>11 DEF Seen, Stored, Copied, Aligned, DeviceInv

LEMMA ReturnSeen ==
  ASSUME DeviceInv, Return
  PROVE  Seen /\ Stored' /\ Copied' /\ Aligned'
<1>1. /\ pc = "return" /\ pc' = "idle"
      /\ UNCHANGED file /\ base' = base /\ reply' = reply /\ user' = user
  BY DEF Return, base_image
<1>2. user = "bochs" /\ CacheInv /\ target \in Sectors /\ buf \in Data /\ op = "write"
  BY <1>1, InWrite DEF DeviceInv, CacheInv, TypeOK
<1>3. op' # "read"
  BY <1>2 DEF Return, NextBlock, NoRequest
<1>4. InFile(target)
  BY <1>1, <1>2, HereInFile DEF DeviceInv, Stored, Allocating
<1>5. pending = Write(target, buf, TRUE, TRUE) \/ pending = Write(target, buf, TRUE, FALSE)
  BY <1>1, <1>2, <1>4, PendingNow
<1>6. pending # None /\ pending.done
  <2>1. Write(target, buf, TRUE, TRUE) # None /\ Write(target, buf, TRUE, FALSE) # None
    BY <1>2, WriteEdits, Zenon
  <2>2. Write(target, buf, TRUE, TRUE).done /\ Write(target, buf, TRUE, FALSE).done
    BY DEF Write
  <2> QED BY <1>5, <2>1, <2>2
<1>7. pending' = None
  BY <1>1, PendingNext
<1>8. Contents' = Contents
  BY <1>1, SameFile DEF Contents
<1>9. BD!Return
  BY <1>1, <1>6, <1>7, <1>8 DEF BD!Return, Contents
<1> QED BY <1>1, <1>2, <1>3, <1>9 DEF Seen, BD!AbstractNext, Stored, Copied, Aligned

-----------------------------------------------------------------------------
(* The commit changes nothing that a user can see. *)

LEMMA BeginCommitSeen ==
  ASSUME DeviceInv, BeginCommit
  PROVE  Seen /\ Stored' /\ Copied' /\ Aligned'
<1>1. /\ user = "nobody" /\ user' = "bximage" /\ pc = "idle" /\ pc' = "idle" /\ left' = 0
      /\ UNCHANGED file /\ base' = base /\ reply' = reply
      /\ todo' = {s \in Sectors : InFile(s)}
  BY DEF BeginCommit, DeviceInv, CacheInv, Requests, request, base_image
<1>2. pending = None /\ pending' = None
  BY <1>1, PendingNow, PendingNext
<1>3. \A s : (InFile(s)' <=> InFile(s)) /\ Content(s)' = Content(s)
  BY <1>1, SameFile
<1>4. Seen
  BY <1>1, <1>2, <1>3, DeviceStutters DEF Seen
<1>5. \A s \in todo' : InFile(s)'
  BY <1>1, <1>3
<1>6. \A s \in Sectors : s \in todo' \/ base'[s] = Content(s)'
  BY <1>1, <1>3 DEF Content
<1>7. Copied'
  BY <1>5, <1>6 DEF Copied, InFile, Content
<1> QED BY <1>1, <1>4, <1>7 DEF Stored, Aligned

LEMMA CommitBlockSeen ==
  ASSUME DeviceInv, NEW s \in Sectors, NEW ok \in BOOLEAN, CommitBlock(s, ok)
  PROVE  Seen /\ Stored' /\ Copied' /\ Aligned'
<1>1. /\ user = "bximage" /\ user' = "bximage" /\ pc = "idle" /\ pc' = "idle"
      /\ left = 0 /\ left' = 0 /\ s \in todo /\ todo' = todo \ {s} /\ failed' = (failed \/ ~ok)
      /\ UNCHANGED file /\ reply' = reply
      /\ base' = IF ok THEN [base EXCEPT ![s] = Content(s)] ELSE base
  BY DEF CommitBlock, DeviceInv, CacheInv, Requests, request
<1>2. pending = None /\ pending' = None
  BY <1>1, PendingNow, PendingNext
<1>3. \A t : InFile(t)' <=> InFile(t)
  BY <1>1 DEF InFile, file
<1>4. InFile(s) /\ base \in [Sectors -> Data]
  BY <1>1 DEF DeviceInv, Copied, CacheInv, TypeOK
<1>5. \A t \in Sectors \ {s} : base'[t] = base[t]
  BY <1>1, <1>4
<1>6. \A t \in Sectors : Content(t)' = Content(t)
  BY <1>1, <1>3, <1>4, <1>5 DEF Content, file
<1>7. Seen
  BY <1>1, <1>2, <1>6, DeviceStutters DEF Seen
<1>8. ok => base'[s] = Content(s)
  BY <1>1, <1>4
<1>9. \A t \in todo' : InFile(t)'
  BY <1>1, <1>3 DEF DeviceInv, Copied
<1>10. ~failed' => \A t \in Sectors : t \in todo' \/ base'[t] = Content(t)'
  BY <1>1, <1>5, <1>6, <1>8 DEF DeviceInv, Copied
<1>11. Copied'
  BY <1>9, <1>10 DEF Copied, InFile, Content
<1> QED BY <1>1, <1>7, <1>11 DEF Stored, Aligned

\* The redolog is removed only when the base has everything.
LEMMA EndCommitSeen ==
  ASSUME DeviceInv, EndCommit
  PROVE  Seen /\ Stored' /\ Copied' /\ Aligned'
<1>1. /\ user = "bximage" /\ user' = "nobody" /\ pc = "idle" /\ pc' = "idle" /\ left' = 0
      /\ todo = {} /\ base' = base /\ reply' = reply
      /\ UNCHANGED <<disk_bitmap, disk_block>>
      /\ \/ ~failed /\ disk_catalog' = [e \in Extents |-> NotAllocated]
         \/ disk_catalog' = disk_catalog
  BY DEF EndCommit, DeviceInv, CacheInv, Requests, request
<1>2. pending = None /\ pending' = None
  BY <1>1, PendingNow, PendingNext
<1>3. ASSUME NEW s \in Sectors PROVE Content(s)' = Content(s)
  <2>1. CASE ~failed /\ disk_catalog' = [e \in Extents |-> NotAllocated]
    <3>1. ~InFile(s)'
      BY <2>1, Address DEF InFile
    <3>2. base[s] = Content(s)
      BY <1>1, <2>1 DEF DeviceInv, Copied
    <3> QED BY <1>1, <3>1, <3>2 DEF Content
  <2>2. CASE disk_catalog' = disk_catalog
    BY <1>1, <2>2 DEF Content, InFile
  <2> QED BY <1>1, <2>1, <2>2
<1>4. Seen
  BY <1>1, <1>2, <1>3, DeviceStutters DEF Seen
<1> QED BY <1>1, <1>4 DEF Stored, Copied, Aligned

LEMMA StutterSeen ==
  ASSUME DeviceInv, UNCHANGED vars
  PROVE  Seen /\ Stored' /\ Copied' /\ Aligned'
<1>1. /\ UNCHANGED file /\ base' = base /\ reply' = reply
      /\ UNCHANGED <<user, catalog, imagepos, op, target, left, ro_pos, pc, buf, update_catalog,
                     written, todo, failed>>
  BY DEF vars, base_image, position, request, writing, committing
<1>2. \A s : (InFile(s)' <=> InFile(s)) /\ Content(s)' = Content(s)
  BY <1>1, SameFile
<1>3. pending' = pending
  BY <1>1, <1>2, PendingNow, PendingNext DEF DeviceInv, CacheInv, TypeOK
<1>4. Seen
  BY <1>1, <1>2, <1>3, DeviceStutters DEF Seen
<1>5. Stored' /\ Aligned'
  BY <1>1 DEF DeviceInv, Stored, Aligned, Mapped, file
<1>6. Copied'
  BY <1>1, <1>2 DEF DeviceInv, Copied, Content, InFile
<1> QED BY <1>4, <1>5, <1>6

LEMMA DeviceStep ==
  ASSUME DeviceInv, SingleReads, [Next]_vars
  PROVE  Seen /\ DeviceInv'
<1>1. CacheInv'
  BY CacheStep DEF DeviceInv
<1>2. Seen /\ Stored' /\ Copied' /\ Aligned'
  BY OpenSeen, StopSeen, LseekSeen, ReadBlockSeen, BeginWriteSeen, ZeroBitmapSeen,
     ZeroExtentSeen, WriteDataSeen, WriteBitmapSeen, WriteCatalogSeen, ReturnSeen,
     BeginCommitSeen, CommitBlockSeen, EndCommitSeen, StutterSeen DEF Next
<1> QED BY <1>1, <1>2 DEF DeviceInv

LEMMA DeviceInit ==
  ASSUME Init
  PROVE  DeviceInv /\ BD!AbstractInit
<1>1. CacheInv /\ TypeOK
  BY InitKeeps DEF CacheInv
<1>2. user = "nobody" /\ pc = "idle" /\ left = 0 /\ reply = None
  BY DEF Init
<1>3. Contents \in [Sectors -> Data]
  BY <1>1, ContentType DEF Contents
<1>4. BD!AbstractInit
  BY <1>2, <1>3, PendingNow DEF BD!AbstractInit, Contents
<1> QED BY <1>1, <1>2, <1>4 DEF DeviceInv, Stored, Copied, Aligned

\* An image that is read block by block, each after its own lseek, and written
\* in requests of any length implements the block device: whatever kills,
\* refused writes and commits happen, a read returns what was written last, a
\* write takes effect at one moment before it returns, and no other sector
\* changes.
THEOREM SingleReadsRefine == Spec /\ []SingleReads => ImplementsBlockDevice
<1>1. Init => DeviceInv /\ BD!AbstractInit
  BY DeviceInit
<1>2. DeviceInv /\ SingleReads /\ [Next]_vars => DeviceInv' /\ [BD!AbstractNext]_(BD!abstractVars)
  BY DeviceStep DEF Seen
<1> QED BY <1>1, <1>2, PTL DEF Spec, ImplementsBlockDevice, BD!Device

\* The ATA disk seeks for every sector: used like that, an undoable, growing or
\* volatile image keeps the promise of device_image_t.
THEOREM Refinement ==
  ASSUME Burst = 1
  PROVE  Spec => ImplementsBlockDevice
<1>1. TypeOK => SingleReads
  BY DEF TypeOK, SingleReads
<1> QED BY <1>1, TypesHold, SingleReadsRefine, PTL
=============================================================================
