# MuPDF in TLA+

This directory holds TLA+ models of MuPDF's core. One half is what threads share:
the resource store and its reference counts, the exception stack, the life of
contexts, the glyph cache, the hash table, and the order of the locks around
all of them. The other half is what makes PDF documents hard: the journal that
undoes and redoes changes, and the interpreter that turns a page's content into
balanced calls of a device. TLC checks the models on small instances; the safety of
the first half and of the journal is, but for a few properties, also proved with
TLAPS, for any number of objects, contexts, threads and changes.

`PROJECT.json` lists, for every definition, the source lines it models, for
every run its properties, and for every property a mutant, that is, a plausible
bug in one definition that makes TLC report the property violated.

Contents:

1. The system: components, their state, how they interact, what is hard
2. The modules, and how they correspond to the code
3. The runs: what each shows, with which bounds, and why they are enough
4. Disagreements between the code and its documentation
5. What is proved, and how
6. What is not modelled, and why
7. Plan

## 1. The system

MuPDF is a C library that opens documents (PDF, XPS, EPUB, ...), interprets
their pages into calls of a *device*, and renders, extracts or rewrites them.
It has no threads of its own. An application may call it from many threads if
it gives each thread an `fz_context` cloned from one master context, supplies
mutexes for the locks `FZ_LOCK_ALLOC`, `FZ_LOCK_FREETYPE` and
`FZ_LOCK_GLYPHCACHE`, and uses a document in one thread at a time. Display
lists, images and fonts are shared between threads.

| component | where | state | operations |
|---|---|---|---|
| reference counting | `store.c`, `store.h`, `context.h` | `refs` of an `fz_storable`, `store_key_refs` of an `fz_key_storable` | init, keep, drop, keep and drop *as part of a key* |
| resource store | `store.c`, `pdf-store.c` | a list in order of use, a hash table, `size`/`max`, `defer_reap_count`, `needs_reaping`, `scavenging` | find, store, remove, empty, shrink, scavenge, filter, defer, reap |
| images and tiles | `image.c`, `pdf-image.c` | an image is both a value of the store and a part of the keys of its own decoded tiles | load, get pixmap, keep, drop |
| allocator | `memory.c` | none of its own | malloc, with scavenging of the store when there is no memory |
| hash table | `hash.c` | open addressing array, `size`, `load` | find, insert (resize), remove, filter |
| exception stack | `error.c`, `context.h` | slots with a jump buffer, a state and a code; `errcode` | try, always, catch, throw, rethrow, morph, convert, report, ignore |
| contexts | `context.c` | the shared parts and their counts; `context_count` in the master | new, clone, drop |
| glyph cache | `draw-glyph.c` | entries in order of use, hash buckets, `total` | render glyph (look up, render, insert, evict), purge |
| locks | `context.h`, `context.c` | which are held, in debug builds | lock, unlock, with an order |
| fonts | `font.c` | counted FreeType and type 3 fonts | keep, drop, metrics, outlines |
| documents and pages | `document.c` | list of open pages, chapters | open, count, load, drop |
| devices | `device.c`, `list-device.c`, `draw-device.c` | container stack; display list nodes | clips, groups, tiles, fills; record and replay |
| PDF objects | `pdf-xref.c`, `pdf-object.c` | xref sections, incremental sections, local xref, `xref_index`; the journal's pending and finished entries | look up, alter, create, update; begin, end, abandon; undo, redo |
| PDF repair | `pdf-repair.c` | the rebuilt xref | repair on a failed lookup |
| PDF interpreter | `pdf-interpret.c`, `pdf-op-run.c`, `pdf-run.c` | graphics states, marked content, `nest_mark`, pending layers | operators; run an XObject; close |
| PDF writer | `pdf-write.c` | use lists, renumber maps | save, garbage collect, linearize |
| streams, buffers | `stream-*.c`, `buffer.c`, `filter-*.c` | `rp`, `wp`, position, eof, error | read, seek, refill; `FZ_ERROR_TRYLATER` |
| trees, cmaps | `tree.c`, `heap.h`, `pdf-cmap.c` | balanced trees, splay tree of ranges | insert, look up, optimise |
| command line tools | `mudraw.c` | worker threads that draw bands | render, in parallel |

How they interact. Everything is called by value of a context and shares memory
under `FZ_LOCK_ALLOC`, which guards every reference count, the store's list and
its hash table. A drop function is called *after* the lock has been released:
between "the count has reached zero" and "the memory is gone" other threads run.
The store calls back into the code that owns the keys (`make_hash_key`,
`keep_key`, `drop_key`, `cmp_key`, `needs_reap`); the allocator calls the store
when memory runs out, and the store calls the allocator; dropping an image may
reap its tiles out of the store, which drops their keys, which drop the image.
Errors travel by `longjmp` through all of this.

Which behaviours are hard. (a) Critical sections that let go of the lock in the
middle: `evict`, `ensure_space`, `fz_store_item`, `fz_resize_hash`,
`fz_render_glyph`. (b) Two counters on one object, compared to decide that a
cycle between an image and the keys of its tiles is garbage. (c) Races of equals:
two threads decode the same tile or render the same glyph. (d) Limits: a store,
a cache, an exception stack or a table that is full. (e) A failed allocation
between any two steps. (f) An order of drops nobody tried: the master context
before its clones, a document before its images. (g) Calls that call back
under a lock: FreeType allocates, the allocation evicts a font, the font closes
its FreeType face. (h) Long sequences of legal calls: operations that nest, fail,
are undone and redone; operators of a content stream in any order a file may
hold. `PROJECT.json` lists each of them under "hazards" at its line.

What makes each component correct:

- *reference counting*: nothing that is referred to is destroyed, what nobody
  refers to is destroyed, and both counters count what they say they count;
- *store*: list, hash table and size agree whatever else is going on; no item is
  freed under someone who will still use it, freed twice or lost; images that
  only keys refer to are reaped; the size comes down again; every call returns;
- *hash table*: it is a dictionary, in each thread's view, and a probe ends;
- *exception stack*: always blocks run once, an error reaches the innermost
  catch with its code, jump buffers belong to live statements, no overrun;
- *contexts*: no use after free, no double free, no leak, in every order of drops;
- *glyph cache*: one entry per glyph, exact references to glyphs and fonts, the
  right font's glyph although keys are addresses, least recently used eviction;
- *locks*: taken in the order of context.h, so that some thread can always go on;
  FreeType allocates with the right context; a face is open while it is used;
- *journal*: undo and redo lead to exactly the documents that were there, through
  failures, nesting, a local xref and the death of the program; what was signed
  is never changed;
- *interpreter and device*: the device's containers nest and are all ended,
  whatever the order of the operators; what is painted is in the layers of its
  marked content, and no other; a form leaves its caller's state alone;
- *documents*: no page outlives its list entry; *streams*: no byte is skipped or
  read twice across refills (both planned, section 7).

## 2. The modules

### Storable: what the store promises

`Storable.tla` is the abstract specification of reference counting. A *handle* is
one C pointer that owns a reference; `ptr[h]` is what it refers to. `refs` and
`keyRefs` are the two counters, `mem` says whether an object is free, live or
`dying`: its count is 0 and its drop function, called outside the lock, has not
run yet. Each action is a critical section:

| action | code |
|---|---|
| `New` | `FZ_INIT_STORABLE`, `FZ_INIT_KEY_STORABLE` |
| `TakeStatic` | a pointer to an object built with `refs = -1` |
| `Keep` | `fz_keep_storable`, `fz_keep_key_storable` |
| `Release` | `fz_drop_storable`, `fz_drop_key_storable`, and the places that release several values in one section |
| `KeepKey`, `DropKey` | `fz_keep_key_storable_key`, `fz_drop_key_storable_key` |
| `Destroy` | `s->drop(ctx, s)`, after the unlock |

`store_key_refs` is a C `short` and keeps its width (`Short`).
`StorableProofs.tla` holds the theorems, `MCStorable.tla` the instance for TLC.

### Store: the store with its clients

`Store.tla` is the detailed specification. A state has the list (`lru`, most
recently used first), the hash table (`hash`; keys of direct objects are not
hashed, like `make_hash_key` returning 0), the accounts and flags of `fz_store`,
the items (`item[id]`: alive, referring to a value, with a key that is an image
and an area, or a PDF object), the values with their counters, what each thread
holds (an image, a tile, and the duplicate an insertion returned) and
`agenda[t]`, what remains of the C call thread t is in. An action is one critical
section, or one piece of work between two of them. `lock` is the thread that keeps
`FZ_LOCK_ALLOC` between two consecutive actions of one longer section (for
instance from the decision to reap until `do_reap` has unlinked its items).

| actions | code |
|---|---|
| `Find`/`Hit` | `fz_find_item` |
| `StoreItem`, `Room`, `RoomAgain`, `EnsureSpace`, `FreeVictim`, `Finish`, `ReturnExisting` | `fz_store_item`, `ensure_space` |
| `ChainStep`, `DropKeyImage`, `Destroy` | the loops after the unlock that destroy values, drop keys and free items |
| `Reap`, `DropImage`, `DropList`, `DeferEnd` | `do_reap`, `fz_drop_key_storable`, `fz_defer_reap_start`, `fz_defer_reap_end` |
| `DropTile`, `Scavenge`, `Shrink` | `fz_drop_storable`, `scavenge`, `fz_shrink_store` |
| `RemoveItem`, `EmptyStore`/`EvictHead`, `Filter` | `fz_remove_item`, `fz_empty_store`, `fz_filter_store` |
| `Malloc`, `TryMalloc`, `ScavengePhases`, `OutOfMemory` | `do_scavenging_malloc`, `fz_store_scavenge` |
| `LoadImage`, `CreateImage`, `Purge`, `CloseDocument` | `pdf_load_image`, `pdf_purge_object_from_store`, `pdf_drop_document_imp` |
| `GetTile`, `Decode`, `MakeKey`, `DropOwn`, `DropKey` | `fz_get_pixmap_from_image` |

Sizes are small numbers, pixels do not exist, areas of an image are names. The
allocator is free to succeed or fail. `size_t` and `short` keep a width
(`SizeMax`, `ShortMax`). An item address that is in use cannot be allocated: with
few `Ids` a thread that needs one waits for another to free it, so `Ids` bounds
the number of items and keys in existence.

`RefinesStorable` composes the two modules: with the handles being the variables
of the threads and the val and key pointers of the items, every behaviour of
`Store` is a behaviour of `Storable`. `StoreInvariant.tla` has the inductive
invariants and `StoreProofs.tla` the theorems, that one among them.

### Dictionary and HashTable

`Dictionary.tla` is the promise of `hash.h`: a partial function, an insertion
keeps what is there and returns it. `HashTable.tla` is the code: linear probing
(`Probe`), `do_removal` with its three cases (`Moves`, `Shift`, `Removed`), the
load limit of 80%, and `fz_resize_hash`, which gives up the lock to allocate
(`StartResize`) and looks again afterwards (`AlreadyResized`, `ResizeFails`,
`Resize`), after which `InsertLate` inserts without looking at the load.
`fz_hash_filter` is `Filter`, the scan from the start after every removal. The
hash function is a constant. `IsDictionary` is the refinement. `HashTableProofs.tla`
holds the theorems.

### ErrorStack

`ErrorStack.tla` has two halves. `frames` is the C stack seen through its try
statements; `stack` and `errcode` are `ctx->error`. The macros appear as their
steps: `Begin` is `fz_try` with `fz_push_try` (which, at the end of the stack,
starts the statement as if an error had been thrown), `EndTry`, `EndAlways` and
`EndCatch` are the ends of the blocks, `DoAlways` and `DoCatch` are `fz_do_always`
and `fz_do_catch`, with the state numbers of the code; `Throw`, `Rethrow`,
`Handle`, `Morph` are the functions of that name. A `longjmp` cuts `frames` to the
statement whose jump buffer is on top. `Habits` says what the catch blocks of the
program do beyond the rules that `context.h` gives. `ErrorStackProofs.tla` holds the
theorems.

### Context

`Context.tla` is the life of a family: `fz_new_context` filling in its parts,
which may fail half way; `fz_clone_context` in its three lock sections;
`fz_drop_context` with the section on `context_count`, the possible free of the
master, the drops of the parts and the end, where a master that has children left
only forgets that it is one. `Overlap` says whether the application drops another
context while the master's own drop is running. `ContextProofs.tla` holds the
theorems.

### GlyphCache

`GlyphCache.tla` is `fz_render_glyph`, in one lock section for outline fonts and
in two for type 3 fonts, whose procedures are run without the lock
(`StartType3`, then `FinishType3` or `ThrowType3`); insertion and eviction
(`InsertWith`, `Kept`), `fz_purge_glyph_cache`, and around them a document that
loads and drops fonts. Keys contain the address of a font, so addresses are
reused: `made[f]` counts the fonts that have lived at f, and a glyph remembers
which one it shows. `GlyphCacheProofs.tla` holds the theorems.

### History, Journal and JournalHistory

`History.tla` is what an editor expects of undo: `past` and `future` are lists of
whole documents, an operation remembers the document at its beginning, undo and
redo step through the lists, and a snapshot keeps it all.

`Journal.tla` is the code. `sections` are `doc->xref_sections`, newest first, each
with an entry per object number; the first `incs` of them are incremental; `index` is
`doc->xref_index`, the section an object was last seen in; `local` is the local
xref that hides generated appearances. The journal keeps for each operation a list
of *fragments*, the inactive value of one object each, and undo and redo
exchange a whole list with the incremental section (`SwapIn`).

| actions | code |
|---|---|
| `Alter`, `AlterFails` | `prepare_object_for_alteration`, and memory running out in it |
| `Add`, `AddFails`, `Update` | `pdf_add_object`, `pdf_create_object`, `pdf_update_object` |
| `Begin`, `BeginFails`, `EndInner`, `EndEmpty`, `EndNamed`, `EndImplicit`, `Abandon` | `do_begin_operation`, memory running out for its title, the ways through `pdf_end_operation`, `pdf_abandon_operation` |
| `Undo`, `Redo` | `pdf_undo`, `pdf_redo` with `swap_fragments` |
| `Load`, `Sign` | `pdf_get_xref_entry_aux`, `pdf_xref_store_unsaved_signature` |
| `Push`, `EnsureLocal`, `LocalAlter`, `LocalAdd`, `Pop`, `PopAndDiscard` | the local xref of pdf-appearance.c and pdf-xref.c |
| `Snapshot`, `SnapshotAsStream`, `Reopen` | `pdf_save_snapshot` and `pdf_save_journal`, for a file whose last cross reference is a table or a stream (`XrefStream`); a new process that opens both |

The history operations begin, end, undo and so on are calls of one thread, so an
action is one call. The clients keep to habits which the callers in the code base
have and the API does not enforce: they pop the local xref before they abandon,
undo or redo; they use `pdf_update_object` on objects the open operation has
stashed or created; what an implicit operation adds it links from an object it
alters (`LinksWhatItAdds`); they end or abandon an operation only if it began; a
snapshot is taken when no operation is open and nothing is signed. `lost` counts the
levels of `nesting` that a failed begin leaves behind, which no caller will end.

A snapshot changes the document when the cross reference is written as a stream. The
stream is an object that the writer creates, in an operation of its own ("Save
document"), and deletes when it has been written. The object's number is used up, and a
journal has one more step and nothing left to redo. With a table the operation stays
empty and leaves no trace.

`JournalHistory.tla` is the refinement. For every state of the journal it computes
the documents that its fragments stand for, by swapping them into a copy of the
table one entry after the other, and holds them in variables of their own.
`JournalProofs.tla` holds the theorems.

### Locks

`Locks.tla` is about three locks and nothing else. A thread's C stack is a sequence
of frames; a frame is a region of code that takes a lock, or calls those that do: an
`ft` region (`fz_ft_lock` to `fz_ft_unlock`, with the context FreeType allocates
with), a `section` under ALLOC that may evict (an allocation, a drop, an insertion
into the store), an eviction that has let go of ALLOC to destroy a value, a
`dropfont`, the glyph cache's `render`, `type3` and `purge`, and `load`, which opens
a face. A critical section that calls nothing is a single step under `Briefly`.
Values of the store are fonts, whose destruction closes a FreeType face, and others.
The counters of fonts are sets: who owns the description (`owners`), which
descriptions (`descs`) and cache entries (`cached`) refer to the font.
`LocksProofs.tla` holds the theorems.

`Listed` are the other values whose destruction closes a face too, such as a tile
whose key is the last thing to refer to a display list with a font in it. It is empty
in the run and in the theorems: section 4 says what happens otherwise.

### Content

`Content.tla` is `pdf_run_processor` with the device it draws on. `pr` has the stack
of graphics states with the number of clips in each (`gs`, `gbot`), the marked
content (`mc`), the layers not yet begun (`pend`), `nest_mark` (`marks`, with `Clip`
for a clip and a positive depth for a layer), and what the device has been told to
begin and not to end (`open`). `gparent` is the graphics state that lends its matrix to
the XObject being run, so that patterns inside can find it; a matrix is known by the
stream it belongs to. `calls` are the streams being run: the page, and the
forms, groups and soft masks run inside it, each with the state its caller will
have back. The operators of a stream come in any order.

| actions | code |
|---|---|
| `op_q`, `op_Q`, `op_W`, `op_BDC`, `op_EMC`, `op_gs_SMask`, `op_f`, `op_f_masked` | the operators of these names, with `pdf_gsave`, `pdf_grestore`, `push_marked_content`, `pop_marked_content`, `flush_begin_layer` |
| `op_Do_form`, `RunMask`, `BeginGroup`, `Finish` | `pdf_run_xobject` up to its contents, with its soft mask and its group, and from the end of its contents on |
| `EndPage`, `CloseState`, `CloseRest`, `EndUnclosed` | `pdf_close_processor`, then the end of pdf-run.c |
| `Abort` | an error that nothing catches |

The colour space of an XObject's group, or its contents, may turn out not to have been
downloaded yet (`TryLater`, in `RunContents`): the error ends the stream that ran the
XObject, and is swallowed there. What the XObject began stays as it is; only its
marked content is put away. If it was the contents, `pdf_process_raw_contents` has also
taken the processor's close function away.

When the device throws at the end of a clip, `pdf_grestore` skips what it had left to
do, the mark in `nest_mark` stays (`PopMark`), and the stream goes on. The same error at
the end of a group or a mask gives up the page.

Some parts of `pr` have no counterpart in the code. `wrong` collects what a device may
not be told, `err` says that it has thrown, `failed` counts the XObjects that were given
up. `neat` says that the stream has so far nested its sections with its q, Q and clips,
`lost` that it met the fault of an empty /Layer section described in section 4; such a
stream is read no further.

## 3. The runs

Every action and every disjunct of every next-state relation is taken in some
passing run. Deadlock is checked, except in `ErrorStack` (a throw without a try
statement exits the process, and a program whose frames have reached their bound
and are all closed may stop), `Context` (a family whose contexts have all been
dropped is finished), `JournalUndo` and `JournalSign` (an editor whose budget is
spent may stop).

| run | states | what it shows |
|---|---|---|
| MCStorable | 399 | one key storable, one plain and one static object, three pointers and two keys: no dangling pointer, no leak, exact counters, the meaning of the reap test |
| StoreRender | 238 000 | two threads decode, share and drop two images and their tiles that do not fit into the store together; display lists defer reaping; a key cannot be allocated; `fz_malloc` of `SIZE_MAX` bytes scavenges, which meets both branches of its size computation |
| StoreDocument | 47 300 | the document's thread loads images under hashed and unhashed keys, purges objects and closes, while the other renders; every step of every thread is a step of `Storable`, or none |
| StoreSingle | 67 100 | one thread and all operations, removal, emptying, shrinking and scavenging included, on three tiles of very different sizes: the store is above its limit only by what evicting unused tiles would not make up for, every call returns, every dying object is destroyed |
| ErrorStack | 651 000 | five nested statements, with and without always blocks, that throw, rethrow, morph and deal with errors from every block, on a stack that overflows at the fourth level, repeatedly |
| Context | 958 | a master and three clones, clones of clones included, with two shared parts, created in part, cloned and dropped in every order |
| GlyphCache | 117 000 | two threads, a narrow and a wide outline font and a type 3 font whose address is used twice, and a cache that holds the glyphs of the narrow and the type 3 font, or the wide one alone |
| HashTable | 51 300 | two threads, six keys that collide and wrap around the end, a duplicate key with another value, a table that doubles from 6 slots |
| JournalUndo | 287 000 | one object of the file and one added to it, two entries of history, nested, implicit, failing and abandoned operations, local edits, undo, redo, snapshot to a file with a cross reference table, death: each step is a step of `History`, or none |
| JournalSign | 256 000 | signatures, lookups and snapshots, to a file with a cross reference stream, among the same operations, in up to three sections: an object once per entry, `xref_index` never past the newest definition, what was signed untouched |
| Locks | 188 000 | two threads load, share, use and drop a font and another value, render outline and type 3 glyphs, purge the cache, while any allocation may scavenge the store |
| Content | 723 000 | streams with q, Q, clips, two kinds of marked content, forms with and without layers and group, and soft masks, three deep, some of them not downloaded: balanced device calls, and each caller has its state back |

The bounds, and why they are enough:

- *Threads: 2.* Every race listed under the hazards is between two calls; the
  critical sections are serialised by one lock, so a third thread adds orders of
  the same pairs.
- *StoreMax 16 with images of 4 and tiles of 10.* A tile and an image fit, two
  tiles do not: making space, oversized stores and evictions of both kinds happen
  in a few steps. 16 is divisible into the sixteen phases of `fz_store_scavenge`.
  Two images let one be garbage, kept by a key while reaping is deferred, at the
  moment the other's tile needs its space. In StoreSingle an image has 8 and the
  tiles 2, 8 and 20: an insertion may find that it can free enough, and evict, or that
  an unused small tile would not do, and leave it in a store above its limit.
- *Ids: 3 or 4.* Room for an item in the store, one being stored, one being freed
  and, with 4, one key of a thread that has lost a race.
- *Objs, Direct.* One indirect object, and in StoreDocument and StoreSingle one
  direct one, whose item is in the list and not in the hash table.
- *LeakBound 32.* `fz_remove_item` leaves the size too large each time (section 4);
  the bound keeps `size` finite in the runs that call it.
- *Requests.* The document's thread asks for 8 bytes, which fit, or `SIZE_MAX`.
- *LastPhase 16.* The phases after the sixteenth all do the same, so the counter
  stops there.
- *MaxFrames 5 and N 5.* Statements in their catch block occupy no slot, so the
  overflow, which needs three statements in their try or always blocks, happens
  with and without such statements around. A slot's state only depends on the
  throws into its own statement, so more frames repeat what five show.
- *InitialSize 6, keys 1 to 6.* The table grows at its sixth insertion. The callers
  ask for 256 slots or more; a size below 6 would fill up before growing, which
  `HashTableAssumption` excludes.
- *MaxMade.* The address of the type 3 font is used twice, those of the others once.
- *Journal: two object numbers, two values, MaxNesting 2.* An object of the file and
  a new one, alone and together in an entry; an operation in another one.
- *Journal: Budget.* Added objects, history entries, open operations, the snapshot
  and the local xref share it: in `JournalUndo`, with 3, any two of them meet the third;
  in `JournalSign`, with 2 and up to three sections, any two meet. A level lost by a
  failing begin counts as an open operation.
- *Journal: MaxSections.* The file's section and an incremental one; a third comes
  with the first change after a signature. `JournalUndo` has two, since an undo
  across a signature leaves the signed section's value visible.
- *Locks: one font, one other value, MaxType3 1.* An eviction needs a value and the
  thread that evicts it; a second value is there so that a section can go on. One
  level of type 3 glyphs lets a thread call everything with a frame below it. The
  theorems are about any number of all of these.
- *Content: MaxOpen 2, MaxMarks 3, MaxForms 3, MaxFailed 1.* A q and a section, or two of
  either, in whichever streams; a clip inside a layer inside a clip. A form, a group in
  it, and the mask the group is drawn through have a clip each and the group's layer,
  which are three marks. Something painted through a mask in the contents of that group
  would need a fourth mark and is not reached, nor are more than two marks beside those
  of a form. The limit on marks is 1024 in the code and an exception when it is met.
  An XObject that was given up is counted as one q, one mark and one XObject. A second
  one would find a processor as unbalanced as the first one left it.
- *Symmetry* is declared over addresses of items, tiles and images, over clones,
  threads and glyphs where the specification treats them alike, and never in a
  run that checks liveness.

Fairness. `StoreSingle` and `Locks` use `FairSpec`: strong fairness of `Step(t)` for
each thread t, the next piece of a call it is already in. A thread inside a call
waits for nothing but a lock; its step is disabled while another thread has the
lock and enabled again when it is released, so what is assumed is that the
operating system runs every thread and that a mutex is handed to a waiter
eventually. Nothing is assumed about clients: they may stop calling at any time.
With two threads in the store, one could refill it for ever while another
scavenges or empties it; that starvation the code does not exclude, which is why
`CallsReturn` of the store is checked for one thread. `CallsReturn` of `Locks` says
so itself: every call returns, or some thread goes on evicting for ever.

`Content` assumes that a processor being closed goes on: weak fairness of
`CloseState` and `CloseRest`. It is written out with `CanClose`, the condition under
which one of them changes something, which TLC evaluates much faster than ENABLED.
What `Closes` excludes is a loop `while (pr->gtop) pdf_grestore()` in which
`pdf_grestore` refuses to go below `gbot`.

## 4. Disagreements between the code and its documentation

No run is expected to fail. The disagreements below were met while modelling. Each
is shown by changing one constant of a run or by adding a property to another run,
as its first line says; the passing runs keep the clients to habits that avoid
them, so that a failure of theirs would be something new.

Where a comment, an assertion or the documentation says otherwise:

- *Failing allocation* (StoreSingle with `INVARIANT MallocFailsOnlyWhenEmpty`).
  `fz_store_scavenge` skips a phase (`continue`, store.c:950) when `size +
  store->size > max`, which is when something has to go, and otherwise computes
  `size + store->size - max`, which wraps around. When every phase is skipped
  `fz_malloc` fails with evictable items in the store, although memory.c:37 says
  allocations "will only fail when scavenging cannot free up memory".
- *Cleanup before rethrow* (ErrorStack with `Habits = {"cleanup"}`, `CatchOnlyOnError`).
  `pdf_create_document` (pdf-xref.c:3662) drops the document in its catch block, which
  runs try statements of its own, and then rethrows: `FZ_ERROR_NONE`. context.h:95 allows
  a rethrow "as long as there has been no intervening use of fz_try/fz_catch".
- *Overlapping drops* (Context with `Overlap = TRUE`, `NoUseAfterFree`). If the last
  child is dropped while the master's own drop has passed its lock section, the child
  frees the master under it (context.c:204), and it is freed twice; context.c:223 means
  to delay "our freeing until all our children have died".
- *Snapshot after undo* (JournalUndo with `Careful = FALSE`, `RefinesHistory`).
  `swap_fragments` gives the entries it swaps in the type 'o', an object stream's
  (pdf-object.c:1355). A snapshot does not write such entries, so they are missing when
  it is reopened; a debug build stops at the assertion of pdf-write.c:1450 instead.
- *Lock order* (Locks with `Listed = {x}`, `OrderKept`). A tile's key may hold the last
  reference to an image made of a display list, and so to a font. If such a tile is
  evicted by an allocation of FreeType's, dropping the font locks FREETYPE again in
  the same thread, and context.h:264 says that never happens. It takes deferred
  reaping to keep such a tile in the store.
- *Contents not downloaded* (Content without `pr.failed = 0 =>` in `DeviceBalanced`).
  When the contents of a form cannot be opened yet, `pdf_process_raw_contents` takes
  the processor's close function away (pdf-interpret.c:1149), and the stream that
  ran the form swallows the error. What the form had begun stays begun:
  `pdf_close_processor` does nothing, and pdf-run.c pops the form's clip for its own. The
  device is left with clips and groups that never end, or throws, while
  docs/src/progressive-loading.rst:90 promises that "the error will be swallowed"
  and rendering continues. When it is the colour space of a group that is missing
  (pdf-op-run.c:2169) the close function stays, but the clip made of the mask does too.
  A Q after either may pop a clip where the group or mask is innermost: the device throws,
  `pdf_grestore` skips `nest_depth--` and only warns (pdf-op-run.c:550), and from then on
  `nest_mark` has a clip the graphics states do not count. What is in `MarksMatch` until
  then, that both agree, is false afterwards; that it has at least as many clips as
  they count stays true.
- *Lent matrix* (Content without `s.failed = was.failed =>` in `FormKeepsState`). An
  XObject given up while another one runs leaves `pr->gparent` at its own parent state.
  When the other one ends it gives the matrix it had borrowed to that state instead of
  the one below it (pdf-op-run.c:2239), which keeps the XObject's matrix: everything the
  caller draws after it is in the wrong place.
- *Empty /Layer section* (Content without `~pr.lost` in `PaintedInLayers`).
  `end_layer` (pdf-op-run.c:1658) does not flush pending layers as `end_oc` does: a
  /Layer section in which nothing is painted ends an outer layer instead of its own,
  and its own is begun later and stays.
- *Snapshot as a stream* (JournalUndo with `XrefStream = TRUE`, `RefinesHistory`). The
  cross reference stream that a snapshot writes is created by `pdf_create_object`
  (pdf-write.c:1311) in the operation "Save document", and is deleted afterwards, but
  its fragment stays: taking a snapshot of a journalled document adds a step that undoes
  nothing and discards what could be redone, and the snapshot holds an object the
  document has not. document.h:777 says that "the document in memory remains
  (essentially) unchanged".

And where nothing says what should happen:

- *A begin that fails* (action `BeginFails`): `do_begin_operation` counts the level and
  then copies the title (pdf-object.c:967), outside its try statement. If there is no
  memory the level stays: no operation ever ends as the outermost one again, undo and
  redo throw, and an alteration outside any operation is let through where the code asserts
  that there is one (pdf-object.c:1878; `MayAlter` leaves that to the callers).
- *Emptying while storing* (StoreRender with "empty" in `Ops`, `PendingWorkValid`):
  `fz_store_item` returns `existing->val` after the unlock (store.c:512), when
  another thread may have freed that item.
- *Purging* (StoreDocument with `ReapComplete`): `fz_filter_store` (store.c:1054)
  decrements counts itself and never looks at `store_key_refs`, so an image that is
  kept by the keys of its tiles alone stays, with the tiles, until some other
  image causes a reap.
- *Removal* (StoreSingle with `SizeAccounted`): `fz_remove_item` (store.c:667) does
  not subtract the item's size, so the store believes it is fuller than it is.
- *Oversize* (StoreRender with `OversizeUnavoidable`): `scavenge` (store.c:821) returns
  when another thread is scavenging, so a drop that should bring an oversized
  store down does nothing.
  A purge may do it too (StoreSingle with `StoreMax` 20): it takes items out of a
  store above its limit, after which evicting a small tile would be enough, and
  does not try. That small tiles stay at all is meant: `ensure_space` (store.c:343)
  frees nothing when it cannot free enough.
- *Lost tile* (action `MakeKey`): when the key of a decoded tile cannot be allocated
  the error is rethrown and nobody has the tile any more (image.c:1068).
- *Extra level* (`Habits = {"deeper"}`, `StackSound`): `fz_push_try` assumes room for
  one extra level (error.c:230), and uses it. A try statement inside the always
  block that then runs needs another one.
- *Swallowed errors* (`Habits = {"swallow"}`, `StackSound`): a catch block that
  simply ends, as in store.c:489, leaves `errcode` set, and a later throw or
  `fz_drop_context` reports it as an unhandled exception.
- *Layer and group of one form*: a form with both /OC and a transparency group has
  its layer begun inside the group, or inside the group's mask, when the form's clip is
  the first thing drawn, and ended after it. `EndContainer` allows the form's own
  layers there.
- *Undo before a signature* (JournalUndo with "sign" in `Ops` and `MaxSections` 3): the
  undone value is swapped into a new section whose emptiness lets the signed section's
  value show through.
- *Forgotten redo*: a named operation that only adds objects, after an undo, leaves the
  entries that could be redone in place until it ends, when they are unlinked without
  being freed (pdf-object.c:1219).

## 5. What is proved

`StorableProofs.tla` proves, for every value of the constants that satisfies
`StorableAssumption` (finitely many handles, key storables and static objects
disjoint, `Null` not an object), and under the hypothesis
`KeyRoom == Cardinality(KeyHandles) <= ShortMax`:

| theorem | property |
|---|---|
| `TypeCorrect` | `TypeOK`: no counter leaves its range, a static object is never counted |
| `NeverDangling` | `NoDangling`: what a handle refers to is live |
| `NeverLeaked` | `NoLeak`: a live object that is counted has an owner |
| `CountersCount` | `CountersExact`: refs is the number of owners, store_key_refs of those in keys |
| `AssertionsHold` | `KeyAssertHolds`: the assertion of `fz_drop_key_storable_key` |
| `ReapTestCorrect` | `ReapTestExact`: refs = store_key_refs exactly if all owners are keys |

`KeyRoom` is a hypothesis and not an assumption of the module because nothing in
the code enforces it: `store_key_refs` is a `short`, and with more than 32767 keys
for one image the counter becomes negative. Without it `CountersExact` is false.

None of the six is inductive as it stands. That no pointer dangles depends on
the count being right, since an object dies when its count, and not the set of its
owners, becomes empty. That the count is right depends in turn on no counted
object being referred to while its count is 0, since then a keep would not count.
The inductive invariant `IInv` therefore has six parts: `LooseTypeOK` (the types
with Int for the counters, since their ranges follow from the rest), `RefsExact`,
`KeyRefsExact` (each counter equals the cardinality of its set of owners),
`StaticUncounted` (a static object is live and has refs -1), `KeysPointToKeyVals`
(a key handle refers to key storables only) and `LiveIffCounted` (a counted object
is live exactly when refs > 0). The proof has one step per action; lemmas about
how the sets of owners, and their cardinalities, change when handles are added or
removed carry the arithmetic, using the finite set theorems of the library. The
six properties follow from `IInv` by lemmas on cardinalities of subsets.

`StoreProofs.tla` proves that the store implements this, so the theorems carry over
to it; `UsedIsLive` below does so for `NoDangling`.

`StoreProofs.tla` proves, for any number of threads, images, tiles, areas, items and
documents, any sizes and both widths of counter (`StoreAssumption`), under the
hypothesis `EmptiedAlone`, that a store is emptied by a program of one thread only,
and what the last column says:

| theorem | property | further hypothesis |
|---|---|---|
| `IndexIsConsistent` | `IndexConsistent`: the list and the hash table hold the same items, each found under its key | none |
| `PendingIsValid` | `PendingWorkValid`: what a call has yet to do concerns items and values that are still there, and is only its own to do | none |
| `NothingIsLost` | `NoItemLost`: an item that exists is in the list, or some call is on its way to free it | none |
| `CountsAsStorable` | `RefinesStorable`: every step of the store is one of Storable, or changes nothing there | `KeysAlways` |
| `UsedIsLive` | `Counting!NoDangling`: what a thread, a stored item or a key of one refers to is live | none |
| `ReapIsComplete` | `ReapComplete`: while nobody is in a critical section and nothing is deferred, no item is kept for an image only keys refer to | `OnlyUnused` |
| `SizeIsAccounted` | `SizeAccounted`: `size` is the sum of the sizes of the items accounted for | `"remove" \notin Ops` |

Each hypothesis leaves out one of the disagreements of section 4. Without `EmptiedAlone`,
`fz_store_item` reads an item after another thread emptied the store (*Emptying while
storing*). Without `KeysAlways`, which says that the allocation of a tile's key does
not fail, a reference disappears with the tile nobody has any more (*Lost tile*);
that is a leak, which Storable does not allow, but nothing dangles, so `UsedIsLive`
does without it. `OnlyUnused` leaves out the operations that take items out of the
store while somebody may use them, since `fz_filter_store` does not look whether an
image is left to keys alone (*Purging*); it implies `EmptiedAlone`. `fz_remove_item`
does not take the size off (*Removal*); every other operation does.

An action of Store is a short step of a long call, and what makes the step right was
established by the call's earlier ones, with other threads in between. The inductive
invariant `IInv` therefore says, for every entry of every agenda, what that entry
relies on (`Sound`): that the item it will free has left the list and the table, that
the value it will destroy has no reference left, that the references it will drop
are there to be dropped, that the thread keeps the lock if the entry needs it. What
makes this survive the steps of others is `Claimed`: each item to be finished or
freed, each value to be destroyed and each key to be dropped is so by one entry of one
thread. The rest are the types and the form of items (`Typed`, `SlotsGood`, `ItemsGood`),
the list and the table (`ListGood`, `HashGood`), the order of the entries of one agenda
(`AgendaOrdered`), `NothingLost`, and `Counted`: `refs` is at least the number of
owners of a value (more where a reference was lost), and `keyRefs` at most that of the
keys among them. The proof has a lemma for every action; under it,
`Advance` covers the agenda of the thread that moves, which loses its first entry and gets
some new ones, and `Spared` and `Passed` those of the others: a value another thread
relies on is not destroyed, because that thread's own reference is counted too, and
an item it relies on is not touched, because of the claim. Storable's steps follow:
the owners of a value before and after an action are known from the invariant, and
`Pointer` changes as `New`, `Keep`, `Release`, `KeepKey`, `DropKey` or `Destroy` say.

Reaping is right because somebody always knows of it. The invariant `ReapInv` says that
either a thread has the lock and reaps next, or what is due is `Remembered`: `needs`
is set, and a deferral is in progress whose end will see it. The second half needs
`defer` to be the number of threads that have a deferral to end, and that to be the last
entry of their agendas (`Defers`). The hard step is that of a reference that goes away
without a look at `store_key_refs`: in `evict` and `ensure_space`, which decrement `refs`
themselves. It cannot leave an image to keys alone, since the item's reference was the
only one (`VictimsAlone`). In between the two critical sections of `ensure_space` that
rests on the item having left the list and the table, so that nobody else can find it.

That `size` is right is a fact about sums. An item is accounted for when it is
in the list and no `fz_store_item` is on its way to add it (`Accounted`): a search may
move an item that is being stored to the front of the list before its size has been
added. What leaves the list is subtracted at once, so it must not be such an item. That
holds since whoever takes it out has found nobody else referring to the value, while the
thread that stores it does. The sum itself is a fold over a finite set in an
order `CHOOSE` picks; that it can be taken in any order (`Sums`) is shown by unfolding
the recursion behind it, and then a set may lose or gain any part.

`HashTableProofs.tla` proves, for any keys, values, threads, hash function and initial
size (`HashTableAssumption`: at least six slots), under the hypothesis `FewThreads`:

| theorem | property |
|---|---|
| `TableStaysSound` | `TableSound`: typed, every entry found from its home and no key there twice, `load` the number of entries, and a slot empty |
| `ActsAsDictionary` | `IsDictionary`: the table does what `Dictionary` promises, however its entries move |

`FewThreads` says that there are fewer threads than slots a table twice the initial
size keeps empty when it is at its load: 1639 for the store's table of 4096 slots, the
only one that is shared, and 3, with two threads, in the run. It is there because
`fz_resize_hash` lets go of the lock: a thread that finds the table resized when it
comes back inserts without looking at the load again. Such threads (`Pending`) are
counted, and the load, with them, stays within 80% of the size plus one for each
thread (`LoadOK`). That leaves a slot empty, on which everything else rests: a probe
ends, and so does a removal.

A table is sound because of `Chained`: the slots between an entry's home and the entry
are full. A removal breaks this and repairs it, one slot after the other, and the
invariant of its loop (`Shifting`) says what is true in between: the hole is the only
empty slot that may lie between an entry and its home, and for the entries passed
already it does not. The test `Moves`, on three slots of a circle, decides whether an
entry may stay, and one lemma (`Stretch`) has all that is needed about it. The loops
of the code are recursive functions whose first steps are unfolded, with an argument
by the least number of steps in place of an induction (`Loop`). Every operation is
then described by what `Find` returns before and after, and that is the step of
`Dictionary`.

`GlyphCacheProofs.tla` proves, for any number of fonts, glyphs and sizes, and any limit
on the bytes kept (`GlyphCacheAssumption`):

| theorem | property |
|---|---|
| `CacheIsSound` | `CacheSound`: one entry for each glyph, and the total is the sum of their sizes and within the limit |
| `GlyphIsRight` | `RightGlyph`: what a caller gets shows the font it asked for, though addresses of fonts are reused |
| `CountsAreExact` | `CountsExact`: references of fonts and glyphs are those that entries and users hold |
| `EvictsTheOldest` | `LeastRecentlyUsed`: a glyph handed out and cached comes first, the others keep their order, and only the oldest are gone |

`RightGlyph` needs that an entry keeps its font: only then is the font at the address
in its key the one it was rendered from. That the entry's references are there needs the
counts to be exact, and that `total` is the sum of what the list holds needs an induction
over the list. It is done without the library's induction theorem, by taking
the shortest list for which the sum would be wrong.

`ContextProofs.tla` proves, for any finite set of clones and any sequence of shared
parts (`ContextAssumption`: the names of contexts are distinct and none is `NULL`):

| theorem | property | hypothesis |
|---|---|---|
| `MemorySafe` | `NoUseAfterFree`: memory is not used after it was freed, nor freed twice | `Overlap = FALSE` |
| `AllReturned` | `NothingLeft`: the last context that goes leaves nothing allocated | `Overlap = FALSE` |
| `PartsCounted` | `PartsShared`: a part's count is the number of contexts that point to it | none |
| `TypeCorrect` | `TypeOK`: the counts stay between 0 and the size of the family | none |

The hypothesis says that the application does not drop another context while the
drop of the master is under way. Without it `MemorySafe` is false: that is what
*Overlapping drops* in section 4 shows. What decides when the master's memory goes is
`context_count`, which is not the number of contexts that are alive: a clone is
counted before it is handed out, and a context that is being dropped is no longer
counted while it still lets go of its parts. The first half of the inductive
invariant, `Ledger`, says what is counted (`CountExact`) and what makes a step change
that set by one context: a half-made clone has a single maker and is used by nobody
else (`OneMaker`, `ChildUnborn`), whoever is in the family has the same master
(`OneMaster`). It holds whenever the master is dropped, and gives `PartsCounted` and
`TypeCorrect`. The second half, `MastersMemory`, says that at most one context is on
its way to free the master, that the count is then 0 and the master gone, and that
the memory of a master that is gone is there exactly as long as the count is not 0
or somebody is on that way. Its hard case is the decrement in `fz_drop_context`: a
clone that finds a count of 1 must be the only one counted, so the master cannot be.

`LocksProofs.tla` proves, for any finite sets of threads, fonts and other values and any
depth of type 3 glyphs (`LocksAssumption`), under the hypothesis `Listed = {}`:

| theorem | property |
|---|---|
| `OrderIsKept` | `OrderKept`: no lock is taken while one of its number or higher is held |
| `NeverStuck` | `NotStuck`: of the threads that are in a call, one can go on |
| `UserHolds` | `UserIsHolder`: FreeType allocates with the context of its lock's holder |

That a thread may take a lock depends on what all the frames of its stack hold, so
the inductive invariant `IInv` says for every thread which shapes its stack may have
and which locks the frames of a shape hold (`Ready`). The heart of it is the eviction
inside a FreeType region: it may only destroy a value whose destruction does not lock
FREETYPE, which `Droppable` ensures by comparing `user` with the thread, and that
works because `user` is set exactly while the thread holds the lock. Given the order,
the thread that holds, or waits for, the smallest lock can go on.

It also proves, under the same assumption and hypothesis:

| theorem | property |
|---|---|
| `FaceAlwaysOpen` | `FaceOpenInUse`: FreeType works on an open face, and its library is there |

The font's reference count and the library's decide when a face is closed, and many
let go of a font: a thread that drops the description, an eviction, an entry of
the glyph cache, a load that fails half way. The inductive invariant `FInv` says what
a frame may claim of its font (`Claim`): one that loads the font, or has found that
nobody refers to it any more, is alone with it (`Sole`); one that is to take down a description
finds it without owners (`Doomed`); one that lets go for the cache finds the font in the
cache (`Uncaching`); one that uses it belongs to a thread that owns it (`Uses`). Of the
first three there is at most one frame for each font (`Unique`), on whichever
stack: that is what keeps a face from being closed twice, and for the cache it holds
only because the entries are dropped under GLYPHCACHE, which is known from `IInv`. `Sits`
says which frame may be called from which, so that a claim can pass from the caller to
the region that opens or closes the face and back. `lib` is at least the number of fonts
with a reference to the library (`Kept`), those whose loading or taking down has not
reached, or has passed, the face included.

`ErrorStackProofs.tla` proves, for an array of any size, statements nested to any depth
and any error codes (`ErrorAssumption`), under the hypothesis `Habits = {}`, which says
that blocks keep to the rules of context.h:

| theorem | property |
|---|---|
| `StackIsSound` | `StackSound`: typed, inside the array, one slot for each statement that can catch, nothing left at the end |
| `CatchesAreReal` | `CatchOnlyOnError`: a catch block runs only for an error |
| `AlwaysBlocksRun` | `CleanupRuns`: a statement that has been left has entered its always block once |
| `ExceptionsArrive` | `ThrownIsCaught`: what was thrown arrives in the catch block, as the current error |

The library and the program know different things, and the inductive invariant ties
them together: the slots belong, in order, to the statements that can still be jumped
to (`Matches`), and a slot's state and code say how far its statement is and what was
thrown into it (`Agrees`). With that, one lemma covers whatever follows a block
(`AfterTryOK`), and another every longjmp (`JumpOK`): the statement jumped to is the
innermost one that can catch, so all that is abandoned is in its catch block and has
been cleaned up. `Reserved` is what keeps the overflow inside the array: the level held
back for it is in use only while the always block of the statement that overflowed
runs, and no statement begins in there. `Fresh` says that a catch block that may
rethrow has an error to rethrow.

`JournalProofs.tla` proves, for documents, histories and objects of any size
(`JournalAssumption`) and whatever operations are allowed:

| theorem | property |
|---|---|
| `SignaturesStay` | `SignedFrozen`: what a signature covers is never changed again |
| `IndexIsCurrent` | `IndexCurrent`, a part of `JournalSound`: the index of an object is not behind its newest section |
| `JournalIsSound` | `JournalSound`: the types, no operation mentions an object twice, `IndexCurrent` |

The first two rest on one lemma about every change to the document (`RetouchedOK`): it
puts a section in front if the first one takes no changes, and then touches the first
one only, moving the index of what it touches there. Their invariant does not type
objects or fragments, which change nothing about that.

The third has an invariant of its own, `CallInv`. That an operation which adds an
object does not mention it yet is true because a new object's number is beyond all
others: an open operation mentions only numbers that exist (`Operation`), no section
defines one beyond the largest (`Below`), and no call but `Reopen` takes a number away.
A swap keeps a list's numbers in place and changes the rest (`SwapInSound`); an inner
operation that ends hands its caller the fragments of objects the caller has not
mentioned (`ResolveIs`, where the positions that stay are counted). `Reopen` takes all
this from the last snapshot, so `CallInv` says of the file what it says of the
document; where the changes were not saved the numbers must be those of the file it
began with, which they are because its last section never changes. A begin that failed
leaves fewer open operations than levels, by `lost` at most, and since callers end only
what they have begun there is one to end (`BegunIsOpen`).

Only model-checked: everything else. Liveness and ENABLED are beyond the prover, and
so in general is induction over data. The proofs about HashTable, GlyphCache and the
sums of Store get by with the least counterexample to a statement about numbers. Those
about Content (`DeviceBalanced`, `MarksMatch`, `PaintedInLayers`) would need facts about
what several folds over one stream compute. Of Store, `TypeOK` is proved as far as the
others need it (`Typed`); the bounds it adds on `size` and `keyRefs` depend on the
instance, since `SizeMax` and `ShortMax` are reached by large enough stores.
`OversizeUnavoidable` holds for one thread, and for sizes for which a purge does
not break it (section 4).

## 6. What is not modelled, and why

- `fz_debug_store` lets go of the lock while it prints; it is a debugging aid.
- *Droppable* functions (`fz_storable` with a `droppable` callback) are left out of
  `Store`. Their only user is `pdf_font_desc`, for the sake of the lock order:
  `Locks` has them.
- Journal: streams' buffers (one moved forward by an alteration is missing after an
  undo if an older section holds it in memory), deletion of objects (which is not
  journalled), the fingerprint that ties a journal to its file, enabling the
  journal in the middle of an operation, repair, a writer that fails (which leaves
  `doc->xref_base` and `disallow_new_increments` as they were while writing).
- Content: patterns (whose contents run with the caller's marked content), clips by
  text, hidden content, structure and metatext, default colour spaces, `cm` (a matrix is
  known by its stream only), errors a device throws of its own. The device's check of
  its stack of containers is there, with the errors it throws.
- `fz_realloc` and `fz_calloc` use the same scavenging loop as `fz_malloc`.
- `fz_drop_hash_table` frees the array and calls the drop callback on what is left.
- Warnings (`fz_warn` and their coalescing), the text of error messages, the
  stack of messages of `fz_throw_on_repair`, and error callbacks.
- Setters of a context (antialiasing, style sheets) are assignments.
- Painting, scaling, colour management: pixel arithmetic, with little control to
  speak of; compared against reference images by its authors.
- Image codecs, fonts, and the third-party libraries under them: binary data.
- HTML/EPUB layout: one pass over a tree, determined by numbers.
- XPS, SVG and other readers: interpreters of a tree that call a device.
- Language bindings, viewers, option parsing: wrappers over what is modelled.

## 7. Plan

Done, because everything else relies on it: Storable, Store, HashTable, ErrorStack,
Context, GlyphCache; then Locks, composed of the lock sections of these; then
History and Journal, and Content with the device's stack. Next, in this order:

1. **Proofs**: of Content, that what a stream begins on the device is ended
   (`DeviceBalanced`), for any depth of forms and graphics states.
2. **Repair** as an action of Journal: it replaces all sections inside any lookup.
3. **Patterns** in Content, with what they do to their caller's marked content.
4. **Documents**: the list of open pages with drops from pages and documents in
   any order; page cache and chapter layout.
5. **Streams**: window, refill, seek, end of file, an error swallowed and
   `FZ_ERROR_TRYLATER`, against an abstract sequence of bytes.
6. **Algorithms**: the AA tree, heaps, splay tree of cmap ranges, against sets;
   renumbering and garbage collection of pdf-write.c against reachability.
7. **Workers**: mudraw's band threads and background printing.
