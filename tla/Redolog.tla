------------------------------- MODULE Redolog -------------------------------
(***************************************************************************)
(* redolog_t and the images built on it (iodev/hdimage/hdimage.cc): an     *)
(* undoable image is a read-only base and a redolog file that holds every  *)
(* block ever written; a growing image is the case of a base of zeros      *)
(* without commit, a volatile one is never reopened.                       *)
(*                                                                         *)
(* The file holds a catalog (extent of the disk -> extent of the file),    *)
(* and per extent of the file a bitmap of the blocks present and the       *)
(* blocks.  write() does its host writes one by one, and the emulator may  *)
(* be killed between any two of them; what was written stays (the host     *)
(* itself does not crash).  bximage commits a redolog to its base.         *)
(* Positions count blocks of 512 bytes.                                    *)
(***************************************************************************)
EXTENDS Integers, FiniteSetsExt

CONSTANTS
  CatalogSize,   \* header.specific.catalog: extents of the disk
  ExtentBlocks,  \* blocks of one extent
  Data, Zero,    \* contents of a block
  Bases,         \* the base images
  Burst,         \* blocks that a user transfers after one lseek
  None

Extents == 0 .. CatalogSize - 1
Blocks == 0 .. ExtentBlocks - 1
DiskSize == CatalogSize * ExtentBlocks
Sectors == 0 .. DiskSize - 1
NotAllocated == -1   \* REDOLOG_PAGE_NOT_ALLOCATED

ASSUME RedologAssumption ==
  /\ CatalogSize \in Nat \ {0} /\ ExtentBlocks \in Nat \ {0} /\ Burst \in Nat \ {0}
  /\ Zero \in Data
  /\ Bases \subseteq [Sectors -> Data]
  /\ None \notin [sector : Sectors, data : Data]
  /\ None \notin [sector : Sectors, data : Data, done : BOOLEAN, ok : BOOLEAN]

VARIABLES
  disk_catalog, disk_bitmap, disk_block,  \* the redolog file
  base,             \* the base image file
  coherent,         \* the time stamp in the redolog is that of the base
  user,             \* who has the files open: "nobody", "bochs" or "bximage"
  catalog, extent_next, bitmap, bitmap_update, imagepos,   \* redolog_t
  op, target, left, \* the request: what, the next block, how many are left
  ro_pos,           \* the position in the base image
  reply,            \* the last block read
  pc,               \* inside redolog_t::write
  buf, update_catalog, written,
  todo, failed      \* commit: blocks to copy, an error was met

file == <<disk_catalog, disk_bitmap, disk_block>>
base_image == <<base, coherent>>
position == <<imagepos, bitmap_update>>
request == <<op, target, left, ro_pos>>
writing == <<buf, update_catalog, written>>
committing == <<todo, failed>>
vars == <<file, base_image, user, catalog, extent_next, bitmap, position,
          request, reply, pc, writing, committing>>

-----------------------------------------------------------------------------
(* What the file says. *)

ExtentOf(s) == s \div ExtentBlocks
BlockOf(s) == s % ExtentBlocks

\* The block of sector s is in the redolog file.
InFile(s) ==
  LET x == disk_catalog[ExtentOf(s)]
  IN  x # NotAllocated /\ BlockOf(s) \in disk_bitmap[x]

Content(s) ==
  IF InFile(s) THEN disk_block[disk_catalog[ExtentOf(s)]][BlockOf(s)] ELSE base[s]

-----------------------------------------------------------------------------
(* Opening and closing. *)

\* Mutant of NextExtent: the first free extent is taken for the next one.
NextExtentTooFar ==
  IF \A e \in Extents : disk_catalog[e] = NotAllocated THEN 0
  ELSE Max({disk_catalog[e] : e \in Extents}) + 2

\* open: "check last used extent".
NextExtent ==
  IF \A e \in Extents : disk_catalog[e] = NotAllocated THEN 0
  ELSE Max({disk_catalog[e] : e \in Extents}) + 1

\* open of the image; coherency_check compares the time stamps.
Open ==
  /\ user = "nobody" /\ coherent
  /\ user' = "bochs"
  /\ catalog' = disk_catalog
  /\ extent_next' = NextExtent
  /\ imagepos' = 0 /\ bitmap_update' = TRUE
  /\ UNCHANGED <<file, base_image, bitmap, request, reply, pc, writing, committing>>

\* Variables of a request and of a write that are not in use.
NoRequest == op' = "none" /\ target' = 0 /\ left' = 0 /\ ro_pos' = 0
NoWrite == buf' = Zero /\ update_catalog' = FALSE /\ written' = TRUE

\* close writes nothing: closing the image and killing the program, at any
\* moment, are the same for the files.
Stop ==
  /\ user # "nobody"
  /\ user' = "nobody"
  /\ catalog' = [e \in Extents |-> NotAllocated] /\ extent_next' = 0
  /\ bitmap' = {} /\ bitmap_update' = TRUE /\ imagepos' = 0
  /\ NoRequest /\ NoWrite /\ pc' = "idle" /\ reply' = None
  /\ todo' = {} /\ failed' = FALSE
  /\ UNCHANGED <<file, base_image>>

-----------------------------------------------------------------------------
(* Positions and reading. *)

\* Mutant of MoveTo: the bitmap of another extent is not read.
MoveToSameBitmap(p, update) == imagepos' = p /\ bitmap_update' = update

\* redolog_t::lseek: another extent has another bitmap.
MoveTo(p, update) ==
  /\ imagepos' = p
  /\ bitmap_update' = (update \/ ExtentOf(p) # ExtentOf(imagepos))

\* A user (ATA, SCSI or USB disk) starts a request: lseek of the image
\* positions the redolog and the base.
Lseek(o, s, n) ==
  /\ user = "bochs" /\ left = 0
  /\ s + n <= DiskSize
  /\ op' = o /\ target' = s /\ left' = n /\ ro_pos' = s
  /\ MoveTo(s, bitmap_update)
  /\ reply' = None
  /\ UNCHANGED <<file, base_image, user, catalog, extent_next, bitmap, pc, writing,
                 committing>>

\* A block of the request is done.
NextBlock(base_pos) ==
  IF left = 1 THEN NoRequest
  ELSE target' = target + 1 /\ left' = left - 1 /\ ro_pos' = base_pos /\ UNCHANGED op

Mapped == catalog[ExtentOf(imagepos)]

\* The bitmap of a mapped extent, read from the file when it is another's.
CurrentBitmap == IF bitmap_update THEN disk_bitmap[Mapped] ELSE bitmap

Present == Mapped # NotAllocated /\ BlockOf(imagepos) \in CurrentBitmap

\* One round of the read loops of the images: redolog_t::read, which moves on
\* only when it has the block, and else the base image, which then moves on.
ReadBlock ==
  /\ user = "bochs" /\ op = "read" /\ left > 0
  /\ reply' = [sector |-> target,
               data |-> IF Present THEN disk_block[Mapped][BlockOf(imagepos)]
                                   ELSE base[ro_pos]]
  /\ bitmap' = IF Mapped = NotAllocated THEN bitmap ELSE CurrentBitmap
  /\ IF Present
     THEN MoveTo(imagepos + 1, FALSE) /\ NextBlock(ro_pos)
     ELSE /\ bitmap_update' = (bitmap_update /\ Mapped = NotAllocated)
          /\ UNCHANGED imagepos
          /\ NextBlock(ro_pos + 1)
  /\ UNCHANGED <<file, base_image, user, catalog, extent_next, pc, writing, committing>>

-----------------------------------------------------------------------------
(* redolog_t::write. *)

BeginWrite(v) ==
  /\ user = "bochs" /\ op = "write" /\ left > 0 /\ pc = "idle"
  /\ buf' = v
  /\ \/ /\ Mapped = NotAllocated /\ extent_next < CatalogSize
        /\ catalog' = [catalog EXCEPT ![ExtentOf(imagepos)] = extent_next]
        /\ extent_next' = extent_next + 1
        /\ update_catalog' = TRUE /\ pc' = "zero_bitmap"
     \/ /\ Mapped # NotAllocated
        /\ update_catalog' = FALSE /\ pc' = "data"
        /\ UNCHANGED <<catalog, extent_next>>
  /\ UNCHANGED <<file, base_image, user, bitmap, position, request, reply, written,
                 committing>>

\* Mutant of ZeroBitmap: the space of the extent is taken as it is.
ZeroNothing ==
  /\ pc = "zero_bitmap" /\ pc' = "zero_extent"
  /\ UNCHANGED <<file, base_image, user, catalog, extent_next,
                 bitmap, position, request, reply, writing, committing>>

ZeroBitmap ==
  /\ pc = "zero_bitmap" /\ pc' = "zero_extent"
  /\ disk_bitmap' = [disk_bitmap EXCEPT ![Mapped] = {}]
  /\ UNCHANGED <<disk_catalog, disk_block, base_image, user, catalog, extent_next,
                 bitmap, position, request, reply, writing, committing>>

ZeroExtent ==
  /\ pc = "zero_extent" /\ pc' = "data"
  /\ disk_block' = [disk_block EXCEPT ![Mapped] = [b \in Blocks |-> Zero]]
  /\ UNCHANGED <<disk_catalog, disk_bitmap, base_image, user, catalog, extent_next,
                 bitmap, position, request, reply, writing, committing>>

\* The host may refuse the data; the bitmap and the catalog are written
\* nevertheless.
WriteData(ok) ==
  /\ pc = "data" /\ pc' = "bitmap"
  /\ written' = ok
  /\ disk_block' = IF ok THEN [disk_block EXCEPT ![Mapped][BlockOf(imagepos)] = buf]
                         ELSE disk_block
  /\ UNCHANGED <<disk_catalog, disk_bitmap, base_image, user, catalog, extent_next,
                 bitmap, position, request, reply, buf, update_catalog, committing>>

WriteBitmap ==
  /\ pc = "bitmap" /\ pc' = IF update_catalog THEN "catalog" ELSE "return"
  /\ bitmap' = CurrentBitmap \union {BlockOf(imagepos)}
  /\ bitmap_update' = FALSE
  /\ disk_bitmap' = IF Present THEN disk_bitmap
                    ELSE [disk_bitmap EXCEPT ![Mapped] = bitmap']
  /\ UNCHANGED <<disk_catalog, disk_block, base_image, user, catalog, extent_next,
                 imagepos, request, reply, writing, committing>>

WriteCatalog ==
  /\ pc = "catalog" /\ pc' = "return"
  /\ disk_catalog' = [disk_catalog EXCEPT ![ExtentOf(imagepos)] = Mapped]
  /\ UNCHANGED <<disk_bitmap, disk_block, base_image, user, catalog, extent_next,
                 bitmap, position, request, reply, writing, committing>>

\* write returns; the loop of the image goes on, or leaves after an error.
Return ==
  /\ pc = "return" /\ pc' = "idle"
  /\ IF written
     THEN MoveTo(imagepos + 1, bitmap_update) /\ NextBlock(ro_pos)
     ELSE NoRequest /\ UNCHANGED position
  /\ NoWrite
  /\ UNCHANGED <<file, base_image, user, catalog, extent_next, bitmap, reply, committing>>

-----------------------------------------------------------------------------
(* bximage: commit_redolog and redolog_t::commit. *)

BeginCommit ==
  /\ user = "nobody" /\ coherent
  /\ user' = "bximage"
  /\ todo' = {s \in Sectors : InFile(s)} /\ failed' = FALSE
  /\ UNCHANGED <<file, base_image, catalog, extent_next, bitmap, position, request,
                 reply, pc, writing>>

\* A block is copied, which changes the time stamp of the base, or skipped
\* after an error.
CommitBlock(s, ok) ==
  /\ user = "bximage" /\ s \in todo
  /\ todo' = todo \ {s}
  /\ failed' = (failed \/ ~ok)
  /\ base' = IF ok THEN [base EXCEPT ![s] = Content(s)] ELSE base
  /\ coherent' = (coherent /\ ~ok)
  /\ UNCHANGED <<file, user, catalog, extent_next, bitmap, position, request, reply,
                 pc, writing>>

\* The redolog is removed, and the next open creates an empty one; after an
\* error it stays.
EndCommit ==
  /\ user = "bximage" /\ todo = {}
  /\ user' = "nobody" /\ failed' = FALSE
  /\ \/ ~failed /\ disk_catalog' = [e \in Extents |-> NotAllocated] /\ coherent' = TRUE
     \/ failed /\ UNCHANGED <<disk_catalog, coherent>>
  /\ UNCHANGED <<disk_bitmap, disk_block, base, catalog, extent_next, bitmap,
                 position, request, reply, pc, writing, todo>>

-----------------------------------------------------------------------------
Init ==
  /\ disk_catalog = [e \in Extents |-> NotAllocated]
  /\ disk_bitmap = [x \in Extents |-> {}]
  /\ disk_block = [x \in Extents |-> [b \in Blocks |-> Zero]]
  /\ base \in Bases /\ coherent = TRUE
  /\ user = "nobody"
  /\ catalog = disk_catalog /\ extent_next = 0
  /\ bitmap = {} /\ bitmap_update = TRUE /\ imagepos = 0
  /\ op = "none" /\ target = 0 /\ left = 0 /\ ro_pos = 0 /\ reply = None
  /\ pc = "idle" /\ buf = Zero /\ update_catalog = FALSE /\ written = TRUE
  /\ todo = {} /\ failed = FALSE

Next ==
  \/ Open \/ Stop
  \/ \E o \in {"read", "write"}, s \in Sectors, n \in 1 .. Burst : Lseek(o, s, n)
  \/ ReadBlock
  \/ \E v \in Data : BeginWrite(v)
  \/ ZeroBitmap \/ ZeroExtent
  \/ \E ok \in BOOLEAN : WriteData(ok)
  \/ WriteBitmap \/ WriteCatalog \/ Return
  \/ BeginCommit
  \/ \E s \in Sectors, ok \in BOOLEAN : CommitBlock(s, ok)
  \/ EndCommit

Spec == Init /\ [][Next]_vars

-----------------------------------------------------------------------------
(* Properties. *)

Replies == [sector : Sectors, data : Data]

\* Types of the variables.
TypeOK ==
  /\ disk_catalog \in [Extents -> Extents \union {NotAllocated}]
  /\ disk_bitmap \in [Extents -> SUBSET Blocks]
  /\ disk_block \in [Extents -> [Blocks -> Data]]
  /\ base \in [Sectors -> Data] /\ coherent \in BOOLEAN
  /\ user \in {"nobody", "bochs", "bximage"}
  /\ catalog \in [Extents -> Extents \union {NotAllocated}]
  /\ extent_next \in 0 .. CatalogSize
  /\ bitmap \subseteq Blocks /\ bitmap_update \in BOOLEAN /\ imagepos \in 0 .. DiskSize
  /\ op \in {"none", "read", "write"} /\ target \in Sectors /\ ro_pos \in Sectors
  /\ left \in 0 .. Burst
  /\ reply \in Replies \union {None}
  /\ pc \in {"idle", "zero_bitmap", "zero_extent", "data", "bitmap", "catalog", "return"}
  /\ buf \in Data /\ update_catalog \in BOOLEAN /\ written \in BOOLEAN
  /\ todo \subseteq Sectors /\ failed \in BOOLEAN

\* The extent that write() has allocated in memory and not yet in the file.
Allocating == update_catalog /\ pc \in {"zero_bitmap", "zero_extent", "data", "bitmap", "catalog"}

\* What redolog_t has in memory about the file is true: the catalog but for
\* the extent being allocated, and the cached bitmap, which lseek has to drop
\* whenever a request or the step from block to block enters another extent.
CacheCoherent ==
  user = "bochs" =>
    /\ \A e \in Extents :
         IF Allocating /\ e = ExtentOf(imagepos)
         THEN disk_catalog[e] = NotAllocated /\ catalog[e] = extent_next - 1
         ELSE catalog[e] = disk_catalog[e]
    /\ ~bitmap_update => /\ imagepos < DiskSize /\ Mapped # NotAllocated
                          /\ bitmap = disk_bitmap[Mapped]

\* An extent that has to be allocated always finds room in the catalog: space
\* lost by a kill between allocation and catalog write is taken again.
NeverFull ==
  user = "bochs" /\ op = "write" /\ left > 0 /\ pc = "idle" /\ Mapped = NotAllocated
    => extent_next < CatalogSize

\* The images keep the promise of device_image_t (hdimage.h): what redolog,
\* bitmap cache and base return is what was written, a write is in the files
\* when it returns, and a kill at any moment of a write or of a commit leaves
\* every other sector alone.
pending ==
  IF user = "bochs" /\ pc # "idle"
  THEN LET done == pc \in {"bitmap", "catalog", "return"} /\ InFile(target)
       IN  [sector |-> target, data |-> buf, done |-> done, ok |-> done => written]
  ELSE None
BD == INSTANCE BlockDevice WITH content <- [s \in Sectors |-> Content(s)]
ImplementsBlockDevice == BD!Device

\* device_image_t::read: "Read count bytes to the buffer buf" from the position
\* of the last lseek.
ReadsAreContent == reply # None => reply.data = Content(reply.sector)
=============================================================================
