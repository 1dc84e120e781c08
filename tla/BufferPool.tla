----------------------------- MODULE BufferPool -----------------------------
(***************************************************************************)
(* The storage layer of the RMDB engine: storage/buffer_pool_manager.{h,   *)
(* cpp}, replacer/lru_replacer.cpp, the page numbers of storage/           *)
(* disk_manager.cpp, and the opening, closing and extending of a record    *)
(* file (record/rm_manager.h, rm_file_handle.{h,cpp}).                     *)
(*                                                                         *)
(* Worker threads fetch pages, or make new ones, write them while they are *)
(* pinned and unpin them.  The flush thread writes dirty pages back.  One  *)
(* DDL thread closes files and opens others, while no worker uses them.    *)
(* One step is one critical section of a shard latch, or of the free page  *)
(* list.  The content of a page is a number; a write makes a new one.      *)
(* Page 0 of a file is its header, which does not pass through the pool.   *)
(* Ghost variables: latest, born, early, raced, recycled, writes, opens.   *)
(***************************************************************************)
EXTENDS Integers, Sequences, SequencesExt

CONSTANTS
    Worker,     \* threads that execute statements
    File,       \* record files
    Fd,         \* file descriptors, as numbers: open() returns the lowest free one
    NShards,    \* shards_.size()
    Frame,      \* frames of the pool
    FrameShard, \* frame -> the shard that owns it
    Nil,
    MaxPage,    \* bound: highest page number
    MaxWrites,  \* bound: page writes
    MaxOpens    \* bound: openings of files

Shard == 0 .. NShards - 1
PageNo == 1 .. MaxPage
PageId == Fd \X PageNo
Data == 0 .. MaxWrites
NoPage == <<Nil, Nil>>

ASSUME BoundsAssumption ==
    /\ NShards \in Nat \ {0} /\ MaxPage \in Nat \ {0} /\ MaxWrites \in Nat /\ MaxOpens \in Nat
    /\ Fd \subseteq Nat /\ Nil \notin Frame \cup File \cup Fd
    /\ FrameShard \in [Frame -> Shard]
ASSUME FiniteAssumption == IsFiniteSet(Worker) /\ IsFiniteSet(Frame)

VARIABLES
    file_of,    \* fd2path_: fd -> the file it is open on
    num_pages,  \* fd -> file_hdr_.num_pages of its handle
    hdr,        \* file -> num_pages in its header page on disk
    disk,       \* file -> [size, data]: length in pages, content of its pages
    fd2pageno,  \* fd2pageno_: fd -> next page number
    free_pages, \* free_pages_: fd -> page numbers to hand out again
    page_table, \* page id -> frame
    frames,     \* frame -> [id, data, dirty, pin]
    free_list,  \* shard -> its free frames
    lru,        \* shard -> its evictable frames, most recently used first
    pc,         \* worker -> idle, alloc (has a page number), pinned
    page,       \* worker -> page id it works on
    frame,      \* worker -> frame it has pinned (Page*)
    wrote,      \* worker -> it will unpin with is_dirty
    bg,         \* flush thread: [shard, todo]
    ddl,        \* DDL thread: [pc, fd, shard, todo]
    latest,     \* ghost: file -> content of each page by its last write
    born,       \* ghost: file -> pages that new_page has given a frame
    early,      \* ghost: a page was fetched before its creator had a frame
    raced,      \* ghost: two workers counted a new page at once
    recycled,   \* ghost: a page number came from free_pages
    writes,     \* bound: number of writes
    opens       \* bound: number of openings

diskvars == <<file_of, num_pages, hdr, fd2pageno, free_pages>>
poolvars == <<page_table, frames, free_list, lru>>
workers == <<pc, page, frame, wrote>>
ghosts == <<latest, born, early, raced, recycled, writes, opens>>
vars == <<diskvars, disk, poolvars, workers, bg, ddl, ghosts>>

Free == [id |-> NoPage, data |-> 0, dirty |-> FALSE, pin |-> 0]
EmptyFile == [size |-> 1, data |-> [p \in PageNo |-> 0]]
Idle == [pc |-> "idle", fd |-> Nil, shard |-> 0, todo |-> {}]

shard_of(id) == id[2] % NShards
Resident(id) == page_table[id] # Nil
FdOf(f) == {fd \in Fd : file_of[fd] = f}
Users(fd) == {w \in Worker : pc[w] # "idle" /\ page[w][1] = fd}

Init ==
    /\ file_of = [fd \in Fd |-> Nil]
    /\ num_pages = [fd \in Fd |-> 1]
    /\ hdr = [f \in File |-> 1]
    /\ disk = [f \in File |-> EmptyFile]
    /\ fd2pageno = [fd \in Fd |-> 0]
    /\ free_pages = [fd \in Fd |-> <<>>]
    /\ page_table = [id \in PageId |-> Nil]
    /\ frames = [x \in Frame |-> Free]
    /\ free_list = [s \in Shard |-> SetToSeq({x \in Frame : FrameShard[x] = s})]
    /\ lru = [s \in Shard |-> <<>>]
    /\ pc = [w \in Worker |-> "idle"]
    /\ page = [w \in Worker |-> NoPage]
    /\ frame = [w \in Worker |-> Nil]
    /\ wrote = [w \in Worker |-> FALSE]
    /\ bg = [shard |-> 0, todo |-> {}]
    /\ ddl = Idle
    /\ latest = [f \in File |-> [p \in PageNo |-> 0]]
    /\ born = [f \in File |-> {}]
    /\ early = FALSE /\ raced = FALSE /\ recycled = FALSE
    /\ writes = 0 /\ opens = 0

-----------------------------------------------------------------------------
(* Disk and replacer *)

\* write_page: pwrite at the page's offset, which may extend the file.
write_page(d, id, v) ==
    LET f == file_of[id[1]] IN
    [d EXCEPT ![f] = [size |-> IF @.size <= id[2] THEN id[2] + 1 ELSE @.size,
                      data |-> [@.data EXCEPT ![id[2]] = v]]]

\* Mutant: the victim's dirty page is not written.
DropDirty(x) == UNCHANGED disk

\* A dirty victim is written before its frame is used for another page.
WriteBack(x) ==
    disk' = IF frames[x].dirty THEN write_page(disk, frames[x].id, frames[x].data) ELSE disk

\* LRUReplacer::pin and unpin.
ReplacerPin(q, x) ==
    IF x \in ToSet(q) THEN RemoveAt(q, CHOOSE i \in DOMAIN q : q[i] = x) ELSE q
ReplacerUnpin(q, x) == IF x \in ToSet(q) THEN q ELSE <<x>> \o q

\* find_victim_page: the head of the free list, else the least recently used.
find_victim_page(s, x) ==
    IF free_list[s] # <<>>
    THEN /\ x = Head(free_list[s])
         /\ free_list' = [free_list EXCEPT ![s] = Tail(@)]
         /\ UNCHANGED lru
    ELSE /\ lru[s] # <<>>
         /\ x = Last(lru[s])
         /\ lru' = [lru EXCEPT ![s] = Front(@)]
         /\ UNCHANGED free_list

\* Frame x stops holding its page and is mapped to id.
Remap(x, id) ==
    page_table' = [i \in PageId |-> IF i = id THEN x
                                    ELSE IF i = frames[x].id THEN Nil
                                    ELSE page_table[i]]

-----------------------------------------------------------------------------
(* fetch_page.  A worker fetches pages below num_pages (fetch_page_handle)   *)
(* of files that are open.                                                   *)

Fetchable(w, id) ==
    /\ pc[w] = "idle"
    /\ file_of[id[1]] # Nil /\ ddl.fd # id[1]
    /\ id[2] < num_pages[id[1]]

Pinned(w, id, x) ==
    /\ pc' = [pc EXCEPT ![w] = "pinned"]
    /\ page' = [page EXCEPT ![w] = id]
    /\ frame' = [frame EXCEPT ![w] = x]
    /\ wrote' = [wrote EXCEPT ![w] = FALSE]

\* A fetch of a page whose creator has the number but no frame yet.
Early(id) == early' = (early \/ id[2] \notin born[file_of[id[1]]])

FetchHit(w, id) ==
    /\ Fetchable(w, id)
    /\ Resident(id)
    /\ LET x == page_table[id] IN
           /\ frames' = [frames EXCEPT ![x].pin = @ + 1]
           /\ lru' = [lru EXCEPT ![shard_of(id)] = ReplacerPin(@, x)]
           /\ Pinned(w, id, x)
    /\ Early(id)
    /\ UNCHANGED <<diskvars, disk, page_table, free_list, bg, ddl, latest, born, raced,
                   recycled, writes, opens>>

FetchMiss(w, id) ==
    /\ Fetchable(w, id)
    /\ ~Resident(id)
    /\ id[2] < disk[file_of[id[1]]].size
    /\ \E x \in Frame :
           /\ find_victim_page(shard_of(id), x)
           /\ WriteBack(x)
           /\ Remap(x, id)
           /\ frames' = [frames EXCEPT ![x] =
                  [id |-> id, data |-> disk'[file_of[id[1]]].data[id[2]],
                   dirty |-> FALSE, pin |-> 1]]
           /\ Pinned(w, id, x)
    /\ Early(id)
    /\ UNCHANGED <<diskvars, bg, ddl, latest, born, raced, recycled, writes, opens>>

\* The file is shorter: read_page throws after the frame has been mapped to the
\* page.  The frame is zero, unpinned, and on neither the free list nor the LRU
\* list.  The statement fails.
FetchShortRead(w, id) ==
    /\ Fetchable(w, id)
    /\ ~Resident(id)
    /\ \E x \in Frame :
           /\ find_victim_page(shard_of(id), x)
           /\ WriteBack(x)
           /\ id[2] >= disk'[file_of[id[1]]].size
           /\ Remap(x, id)
           /\ frames' = [frames EXCEPT ![x] = [Free EXCEPT !.id = id]]
    /\ Early(id)
    /\ UNCHANGED <<diskvars, workers, bg, ddl, latest, born, raced, recycled, writes, opens>>

-----------------------------------------------------------------------------
(* new_page, called by create_new_page_handle *)

\* Page::reset_memory.
reset_memory(x) == 0

\* Mutant: the counter is incremented before it is read.
next_page_no_pre(fd) == fd2pageno[fd] + 1

\* fd2pageno_[fd]++.
next_page_no(fd) == fd2pageno[fd]

\* allocate_page: the last freed number of the descriptor, else a new one.
NewPageNumber(w, fd) ==
    /\ pc[w] = "idle"
    /\ file_of[fd] # Nil /\ ddl.fd # fd
    /\ IF free_pages[fd] # <<>>
       THEN /\ page' = [page EXCEPT ![w] = <<fd, Last(free_pages[fd])>>]
            /\ free_pages' = [free_pages EXCEPT ![fd] = Front(@)]
            /\ recycled' = TRUE
            /\ UNCHANGED fd2pageno
       ELSE /\ fd2pageno[fd] <= MaxPage
            /\ page' = [page EXCEPT ![w] = <<fd, next_page_no(fd)>>]
            /\ fd2pageno' = [fd2pageno EXCEPT ![fd] = @ + 1]
            /\ UNCHANGED <<free_pages, recycled>>
    /\ pc' = [pc EXCEPT ![w] = "alloc"]
    /\ UNCHANGED <<file_of, num_pages, hdr, disk, poolvars, frame, wrote, bg, ddl,
                   latest, born, early, raced, writes, opens>>

\* num_pages++ of the handle, which no latch protects: the increment is lost when
\* another worker is creating a page of the file too.
CountPage(w, fd) ==
    \/ num_pages' = [num_pages EXCEPT ![fd] = @ + 1] /\ UNCHANGED raced
    \/ /\ \E u \in Worker \ {w} : pc[u] = "alloc" /\ page[u][1] = fd
       /\ raced' = TRUE /\ UNCHANGED num_pages

\* The shard maps the number to a zeroed, pinned frame, whether or not the page
\* is mapped already; then num_pages counts it.  A new page is unpinned dirty.
NewPageFrame(w) ==
    /\ pc[w] = "alloc"
    /\ LET id == page[w] IN
           /\ \E x \in Frame :
                  /\ find_victim_page(shard_of(id), x)
                  /\ WriteBack(x)
                  /\ Remap(x, id)
                  /\ frames' = [frames EXCEPT ![x] =
                         [id |-> id, data |-> reset_memory(x), dirty |-> FALSE, pin |-> 1]]
                  /\ frame' = [frame EXCEPT ![w] = x]
           /\ CountPage(w, id[1])
           /\ born' = [born EXCEPT ![file_of[id[1]]] = @ \cup {id[2]}]
    /\ pc' = [pc EXCEPT ![w] = "pinned"]
    /\ wrote' = [wrote EXCEPT ![w] = TRUE]
    /\ UNCHANGED <<file_of, hdr, fd2pageno, free_pages, page, bg, ddl, latest, early,
                   recycled, writes, opens>>

-----------------------------------------------------------------------------
(* Use of a pinned page *)

Write(w) ==
    /\ pc[w] = "pinned"
    /\ writes < MaxWrites
    /\ writes' = writes + 1
    /\ frames' = [frames EXCEPT ![frame[w]].data = writes']
    /\ wrote' = [wrote EXCEPT ![w] = TRUE]
    /\ latest' = [latest EXCEPT ![file_of[page[w][1]]][page[w][2]] = writes']
    /\ UNCHANGED <<diskvars, disk, page_table, free_list, lru, pc, page, frame, bg, ddl,
                   born, early, raced, recycled, opens>>

\* Mutant: is_dirty_ is assigned, not accumulated.
DirtyAfterForgets(w, x) == wrote[w]

\* is_dirty_ of the frame after a worker has unpinned it.
DirtyAfter(w, x) == frames[x].dirty \/ wrote[w]

\* Mutant: the frame becomes evictable although others have it pinned.
LastPinAlways(x) == TRUE

LastPin(x) == frames[x].pin = 1

\* unpin_page, by page id.
Unpin(w) ==
    /\ pc[w] = "pinned"
    /\ LET id == page[w]
           x == page_table[id]
       IN  IF Resident(id) /\ frames[x].pin > 0
           THEN /\ frames' = [frames EXCEPT ![x].pin = @ - 1,
                                            ![x].dirty = DirtyAfter(w, x)]
                /\ lru' = IF LastPin(x)
                          THEN [lru EXCEPT ![shard_of(id)] = ReplacerUnpin(@, x)] ELSE lru
           ELSE UNCHANGED <<frames, lru>>
    /\ pc' = [pc EXCEPT ![w] = "idle"]
    /\ page' = [page EXCEPT ![w] = NoPage]
    /\ frame' = [frame EXCEPT ![w] = Nil]
    /\ wrote' = [wrote EXCEPT ![w] = FALSE]
    /\ UNCHANGED <<diskvars, disk, page_table, free_list, bg, ddl, ghosts>>

-----------------------------------------------------------------------------
(* The flush thread *)

\* collect_dirty_pages of the next shard.
FlushCollect ==
    /\ bg.todo = {}
    /\ bg' = [shard |-> (bg.shard + 1) % NShards,
              todo  |-> {id \in PageId : /\ shard_of(id) = bg.shard /\ Resident(id)
                                         /\ frames[page_table[id]].dirty
                                         /\ frames[page_table[id]].pin = 0}]
    /\ UNCHANGED <<diskvars, disk, poolvars, workers, ddl, ghosts>>

\* flush_page of one of them, wherever it is by now, pinned or not.
FlushPage(id) ==
    /\ id \in bg.todo
    /\ bg' = [bg EXCEPT !.todo = @ \ {id}]
    /\ IF Resident(id)
       THEN /\ disk' = write_page(disk, id, frames[page_table[id]].data)
            /\ frames' = [frames EXCEPT ![page_table[id]].dirty = FALSE]
       ELSE UNCHANGED <<disk, frames>>
    /\ UNCHANGED <<diskvars, page_table, free_list, lru, workers, ddl, ghosts>>

-----------------------------------------------------------------------------
(* Files.  create_table, drop_table and the index DDL create, open and close *)
(* them; a closed file may be dropped and created anew.                      *)

OpenFile(f) ==
    /\ ddl = Idle /\ opens < MaxOpens
    /\ FdOf(f) = {}
    /\ \E fd \in Fd :
           /\ file_of[fd] = Nil /\ \A n \in Fd : n < fd => file_of[n] # Nil
           /\ file_of' = [file_of EXCEPT ![fd] = f]
           /\ num_pages' = [num_pages EXCEPT ![fd] = hdr[f]]
           /\ fd2pageno' = [fd2pageno EXCEPT ![fd] = hdr[f]]
    /\ opens' = opens + 1
    /\ UNCHANGED <<hdr, disk, free_pages, poolvars, workers, bg, ddl, latest, born,
                   early, raced, recycled, writes>>

\* destroy_file and create_file.
ReplaceFile(f) ==
    /\ ddl = Idle
    /\ FdOf(f) = {} /\ disk[f] # EmptyFile
    /\ hdr' = [hdr EXCEPT ![f] = 1]
    /\ disk' = [disk EXCEPT ![f] = EmptyFile]
    /\ latest' = [latest EXCEPT ![f] = [p \in PageNo |-> 0]]
    /\ born' = [born EXCEPT ![f] = {}]
    /\ UNCHANGED <<file_of, num_pages, fd2pageno, free_pages, poolvars, workers, bg, ddl,
                   early, raced, recycled, writes, opens>>

\* Mutant: the header is not written back.
header_at_close_old(fd) == hdr[file_of[fd]]

header_at_close(fd) == num_pages[fd]

\* close_file begins with the header page.
CloseBegin(fd) ==
    /\ ddl = Idle
    /\ file_of[fd] # Nil /\ Users(fd) = {}
    /\ hdr' = [hdr EXCEPT ![file_of[fd]] = header_at_close(fd)]
    /\ ddl' = [pc |-> "flush", fd |-> fd, shard |-> 0, todo |-> {}]
    /\ UNCHANGED <<file_of, num_pages, fd2pageno, free_pages, disk, poolvars, workers, bg,
                   ghosts>>

OfShard(fd, s) == {id \in PageId : id[1] = fd /\ shard_of(id) = s /\ Resident(id)}

\* flush_all_pages, shard by shard.
CloseFlush ==
    /\ ddl.pc = "flush"
    /\ LET ids == OfShard(ddl.fd, ddl.shard) IN
           /\ disk' = [disk EXCEPT ![file_of[ddl.fd]] =
                  [size |-> CHOOSE n \in 1 .. MaxPage + 1 :
                                /\ @.size <= n /\ \A id \in ids : id[2] < n
                                /\ n = @.size \/ \E id \in ids : n = id[2] + 1,
                   data |-> [p \in PageNo |-> IF <<ddl.fd, p>> \in ids
                                              THEN frames[page_table[<<ddl.fd, p>>]].data
                                              ELSE @.data[p]]]]
           /\ frames' = [x \in Frame |-> [frames[x] EXCEPT
                  !.dirty = @ /\ \A id \in ids : page_table[id] # x]]
    /\ ddl' = IF ddl.shard + 1 < NShards THEN [ddl EXCEPT !.shard = @ + 1]
              ELSE [ddl EXCEPT !.pc = "collect", !.shard = 0]
    /\ UNCHANGED <<diskvars, page_table, free_list, lru, workers, bg, ghosts>>

\* discard_pages, shard by shard: collect the pages under the latch ...
DiscardCollect ==
    /\ ddl.pc = "collect"
    /\ ddl' = [ddl EXCEPT !.pc = "delete", !.todo = OfShard(ddl.fd, ddl.shard)]
    /\ UNCHANGED <<diskvars, disk, poolvars, workers, bg, ghosts>>

\* Mutant: the deleted page stays in the page table.
UnmapSkipped(id) == page_table

Unmap(id) == [page_table EXCEPT ![id] = Nil]

\* ... then delete_page each, which also gives its number back.
DeletePage(id) ==
    /\ ddl.pc = "delete" /\ id \in ddl.todo
    /\ ddl' = [ddl EXCEPT !.todo = @ \ {id}]
    /\ LET x == page_table[id] IN
       IF Resident(id) /\ frames[x].pin = 0
       THEN /\ WriteBack(x)
            /\ frames' = [frames EXCEPT ![x] = Free]
            /\ page_table' = Unmap(id)
            /\ lru' = [lru EXCEPT ![shard_of(id)] = ReplacerPin(@, x)]
            /\ free_list' = [free_list EXCEPT ![shard_of(id)] = Append(@, x)]
            /\ free_pages' = [free_pages EXCEPT ![id[1]] = Append(@, id[2])]
       ELSE UNCHANGED <<disk, poolvars, free_pages>>
    /\ UNCHANGED <<file_of, num_pages, hdr, fd2pageno, workers, bg, ghosts>>

DiscardNext ==
    /\ ddl.pc = "delete" /\ ddl.todo = {}
    /\ ddl.shard + 1 < NShards
    /\ ddl' = [ddl EXCEPT !.pc = "collect", !.shard = @ + 1]
    /\ UNCHANGED <<diskvars, disk, poolvars, workers, bg, ghosts>>

CloseEnd ==
    /\ ddl.pc = "delete" /\ ddl.todo = {}
    /\ ddl.shard + 1 = NShards
    /\ file_of' = [file_of EXCEPT ![ddl.fd] = Nil]
    /\ ddl' = Idle
    /\ UNCHANGED <<num_pages, hdr, fd2pageno, free_pages, disk, poolvars, workers, bg, ghosts>>

-----------------------------------------------------------------------------
WorkerStep(w) ==
    \/ \E id \in PageId : FetchHit(w, id) \/ FetchMiss(w, id) \/ FetchShortRead(w, id)
    \/ \E fd \in Fd : NewPageNumber(w, fd)
    \/ NewPageFrame(w) \/ Write(w) \/ Unpin(w)

DdlStep ==
    \/ \E f \in File : OpenFile(f) \/ ReplaceFile(f)
    \/ \E fd \in Fd : CloseBegin(fd)
    \/ CloseFlush \/ DiscardCollect \/ DiscardNext \/ CloseEnd
    \/ \E id \in PageId : DeletePage(id)

Next ==
    \/ \E w \in Worker : WorkerStep(w)
    \/ FlushCollect \/ \E id \in PageId : FlushPage(id)
    \/ DdlStep

Spec == Init /\ [][Next]_vars

-----------------------------------------------------------------------------
(* Properties *)

TypeOK ==
    /\ file_of \in [Fd -> File \cup {Nil}]
    /\ num_pages \in [Fd -> Nat \ {0}] /\ hdr \in [File -> Nat \ {0}]
    /\ disk \in [File -> [size : 1 .. MaxPage + 1, data : [PageNo -> Data]]]
    /\ fd2pageno \in [Fd -> Nat] /\ free_pages \in [Fd -> Seq(PageNo)]
    /\ page_table \in [PageId -> Frame \cup {Nil}]
    /\ frames \in [Frame -> [id : PageId \cup {NoPage}, data : Data, dirty : BOOLEAN, pin : Nat]]
    /\ free_list \in [Shard -> Seq(Frame)] /\ lru \in [Shard -> Seq(Frame)]
    /\ pc \in [Worker -> {"idle", "alloc", "pinned"}]
    /\ page \in [Worker -> PageId \cup {NoPage}]
    /\ frame \in [Worker -> Frame \cup {Nil}]
    /\ wrote \in [Worker -> BOOLEAN]
    /\ bg \in [shard : Shard, todo : SUBSET PageId]
    /\ ddl \in [pc : {"idle", "flush", "collect", "delete"}, fd : Fd \cup {Nil},
                shard : Shard, todo : SUBSET PageId]
    /\ latest \in [File -> [PageNo -> Data]] /\ born \in [File -> SUBSET PageNo]
    /\ early \in BOOLEAN /\ raced \in BOOLEAN /\ recycled \in BOOLEAN
    /\ writes \in 0 .. MaxWrites /\ opens \in 0 .. MaxOpens

\* No page was fetched before it existed, no page was left uncounted and no page
\* number was handed out twice.  (All three do happen: see the README.)
Sound == ~early /\ ~raced /\ ~recycled

\* Every frame is in one place: on its shard's free list, on its LRU list
\* (mapped and unpinned), or mapped and pinned by that many workers.  None is
\* lost and none is in two places.
Listed(s) == ToSet(free_list[s]) \cup ToSet(lru[s])
FramesArePartitioned ==
    Sound =>
        /\ \A s \in Shard : /\ IsInjective(free_list[s]) /\ IsInjective(lru[s])
                            /\ \A x \in Listed(s) : FrameShard[x] = s
        /\ \A x \in Frame : LET s == FrameShard[x] IN
            \/ frames[x] = Free /\ x \in ToSet(free_list[s]) \ ToSet(lru[s])
            \/ /\ frames[x].id # NoPage /\ page_table[frames[x].id] = x
               /\ x \notin ToSet(free_list[s])
               /\ x \in ToSet(lru[s]) <=> frames[x].pin = 0

\* The frame a worker has pinned goes on holding its page: it is not evicted,
\* discarded or remapped under the worker.
PinnedStays ==
    Sound =>
        \A w \in Worker : pc[w] = "pinned" =>
            /\ page_table[page[w]] = frame[w]
            /\ frames[frame[w]].id = page[w]
            /\ frames[frame[w]].pin > 0

\* The current content of a page: in its frame if it is resident, else on disk.
Current(f, p) ==
    LET at == {id \in PageId : id[2] = p /\ file_of[id[1]] = f /\ Resident(id)} IN
    IF at = {} THEN disk[f].data[p]
    ELSE frames[page_table[CHOOSE id \in at : TRUE]].data

\* No write is lost, whatever is evicted, flushed, closed and reopened since.
NoLostWrite ==
    Sound => \A f \in File, p \in PageNo : Current(f, p) = latest[f][p]

\* RmScan walks the pages 1 .. num_pages - 1 of a file and expects each to be a
\* page of it: so it is, whenever nobody is between allocate_page and new_page.
\* discard_pages, which is to "evict all pages for fd without disk deallocation"
\* (buffer_pool_manager.h), gives their numbers back all the same, and the next
\* file to get the descriptor is handed them.
PagesAreDense ==
    \A fd \in Fd :
        file_of[fd] # Nil /\ Users(fd) = {} => born[file_of[fd]] = 1 .. num_pages[fd] - 1

PagesAreDenseWhenSound == Sound => PagesAreDense

Store == INSTANCE PageStore WITH
    Zero <- 0,
    store <- [f \in File |-> [p \in PageNo |-> Current(f, p)]],
    open <- {f \in File : FdOf(f) # {}},
    written <- 1 .. writes,
    fault <- ~Sound

\* The pool is invisible: with the current contents as its store, every step of
\* every thread writes one page of an open file with a new value, opens, closes or
\* replaces a file, or changes nothing.
ImplementsPageStore == Store!Spec

=============================================================================
