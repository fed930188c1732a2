------------------------------ MODULE HeapSetup ------------------------------
(***************************************************************************)
(* Backing the kernel heap with physical frames: BootInfoFrameAllocator    *)
(* (memory.rs) and init_heap (hardware/allocator.rs).  map_to of the page  *)
(* table library takes frames from the same allocator for the tables that  *)
(* are missing.                                                            *)
(***************************************************************************)
EXTENDS Integers, Sequences, Functions

CONSTANTS Pages,       \* the number of pages of the heap
          Levels,      \* the most tables that map_to creates for a page
          MemoryMaps,  \* memory maps: sequences of regions, see IsMemoryMap
          FrameSize    \* 4096 in the code

\* A memory map as the boot loader is assumed to pass it: regions in ascending
\* order that do not overlap, each on frame boundaries.
IsMemoryMap(map) ==
  /\ map \in Seq([kind : STRING, start : Nat, end : Nat])
  /\ \A i \in DOMAIN map : /\ map[i].start % FrameSize = 0
                           /\ map[i].end % FrameSize = 0
                           /\ map[i].start < map[i].end
  /\ \A i, j \in DOMAIN map : i < j => map[i].end <= map[j].start

ASSUME HeapAssumption ==
  /\ Pages \in Nat /\ Levels \in Nat /\ FrameSize \in Nat \ {0}
  /\ \A map \in MemoryMaps : IsMemoryMap(map)

VARIABLES memory_map, next,  \* the frame allocator
          page_table,        \* the frames of the heap pages mapped so far
          tables,            \* the frames used for page tables
          missing,           \* tables still to create for the current page
          frame,             \* the frame for the current page
          heap               \* "allocate", "map", "ok" or "failed"

heap_vars == <<memory_map, next, page_table, tables, missing, frame, heap>>

\* The frames of a region, a frame for each step of FrameSize.
FramesOf(r) ==
  [k \in 1..((r.end - r.start + FrameSize - 1) \div FrameSize) |->
     (r.start + (k - 1) * FrameSize) \div FrameSize]

\* The frames of the usable ones among the first regions of a memory map.
FramesUpTo(map) ==
  LET frames[i \in 0..Len(map)] ==
        IF i = 0 THEN <<>>
        ELSE IF map[i].kind = "Usable" THEN frames[i - 1] \o FramesOf(map[i])
        ELSE frames[i - 1]
  IN  frames

usable_frames == FramesUpTo(memory_map)[Len(memory_map)]

HeapInit ==
  /\ memory_map \in MemoryMaps
  /\ next = 0
  /\ page_table = <<>>
  /\ tables = <<>>
  /\ missing = 0 /\ frame = 0
  /\ heap = IF Pages = 0 THEN "ok" ELSE "allocate"

\* Mutant: the allocator does not move on.
allocate_frame_Again(f) ==
  /\ f = IF next < Len(usable_frames) THEN usable_frames[next + 1] ELSE -1
  /\ next' = next

\* Mutant: the allocator moves on by two.
allocate_frame_Skip(f) ==
  /\ f = IF next < Len(usable_frames) THEN usable_frames[next + 1] ELSE -1
  /\ next' = next + 2

\* The frame that is allocated, -1 for None; next moves on in any case.
allocate_frame(f) ==
  /\ f = IF next < Len(usable_frames) THEN usable_frames[next + 1] ELSE -1
  /\ next' = next + 1

Frames == Range(usable_frames) \cup {-1}

Fail == heap' = "failed" /\ UNCHANGED <<page_table, tables, missing, frame>>

\* The frame for the next page; map_to then finds some tables missing.
AllocatePage ==
  /\ heap = "allocate"
  /\ \E f \in Frames :
       /\ allocate_frame(f)
       /\ IF f = -1 THEN Fail
          ELSE /\ frame' = f
               /\ missing' \in 0..Levels
               /\ heap' = "map"
               /\ UNCHANGED <<page_table, tables>>
  /\ UNCHANGED memory_map

\* map_to creates a missing table.
CreateTable ==
  /\ heap = "map" /\ missing > 0
  /\ \E f \in Frames :
       /\ allocate_frame(f)
       /\ IF f = -1 THEN Fail
          ELSE /\ tables' = Append(tables, f)
               /\ missing' = missing - 1
               /\ UNCHANGED <<page_table, frame, heap>>
  /\ UNCHANGED memory_map

\* The page is mapped; after the last one the allocator gets the heap.
MapPage ==
  /\ heap = "map" /\ missing = 0
  /\ page_table' = Append(page_table, frame)
  /\ heap' = IF Len(page_table') = Pages THEN "ok" ELSE "allocate"
  /\ UNCHANGED <<memory_map, next, tables, missing, frame>>

init_heap == AllocatePage \/ CreateTable \/ MapPage

-----------------------------------------------------------------------------
(* Properties.                                                             *)

\* Frames in use: heap pages and tables, and the frame about to be mapped.
InUse == page_table \o tables \o (IF heap = "map" THEN <<frame>> ELSE <<>>)

\* A frame backs one heap page or one page table, never two (the page tables
\* that map_to creates come from the allocator that also backs the heap), and
\* every byte of it belongs to a region that the boot loader marked usable
\* (memory.rs usable_frames).
FramesSound ==
  /\ IsInjective(InUse)
  /\ \A f \in Range(InUse) :
       \E i \in DOMAIN memory_map :
         /\ memory_map[i].kind = "Usable"
         /\ memory_map[i].start <= f * FrameSize
         /\ (f + 1) * FrameSize <= memory_map[i].end

\* Two heap pages that follow each other lie in two frames that do, unless
\* map_to took the frame in between for a table or the usable region ends
\* there.  The driver relies on it: the card gets the physical address where a
\* buffer or a ring begins and goes on from there, across the end of the page.
HeapContiguous ==
  \A i \in 1..Len(page_table) - 1 :
    LET f == page_table[i] + 1
    IN  page_table[i + 1] = f \/ f \in Range(tables) \/ f \notin Range(usable_frames)
=============================================================================
