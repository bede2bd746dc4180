# Verification of tom_libs

TLA+ models of the single-header C libraries in this repository, TLC
configurations that check them on small instances, and proofs, for every
instance, of the SLAB allocator, its page lists and page layout, of the RCON server, and of
the PLY header parser and stream. `PROJECT.json` lists the
runs, the correspondence of every definition with lines of the source, one
mutant per property (a plausible bug of the code that makes TLC report the
property violated), the hazards, and the disagreements between code and
comments that were met.

## 1. Inventory

The repository is a set of independent headers. They share no state and do not
call each other; each one meets a program through calls, and some through
callbacks.

| Part | State it keeps | Operations | What is hard | Properties that make it correct |
|---|---|---|---|---|
| SLAB allocator, `tom_slab.h` | `struct slab`: lists `empty`, `partial`, `full` of pages, `coarse_lock`; per page a footer with list node, `numelems`, bitmap `avail` | `slab_create`, `slab_alloc`, `slab_free`, `slab_reset`, `slab_destroy`; inside them grow, trim, move | threads that interleave on one lock; a page that cannot be allocated; pages trimmed while others free; a reset while elements are in the callers' hands; a counter that is not kept exact | no element handed out twice or lost; no page lost or listed twice; no assertion fails; the cache of empty pages stays bounded; every path releases the lock |
| its page lists | circular doubly linked lists with sentinel and count | push, remove, the loops of reset and destroy, which unlink the node they stand on | pointer surgery during traversal; count and links apart | links consistent in both directions, all pages visited, loops end |
| its page layout | none beyond the bitmap | rounding, `slab_get_base/footer/index`, `ffs` scan | `int` overflow, partly used last word, elements against footer | pointer, index and bit agree; elements apart from each other and the footer |
| RCON server, `tom_rcon.h` | `struct rcon`: an array of clients (`inUse`, `authd`, `inCmd`, `buffer`, `recvd`, the fields of the packet at the front), the password | `rcon_wait_for_input`, `rcon_fetch_command`, `rcon_complete_command`, `rcon_set_password`, `rcon_destroy` | peers connect, send, close and reset at any time; packets in pieces or glued together; slots used again; commands completed late; errors in the middle of a loop over the slots | no bytes, authority or answer cross from one connection to another; commands run once and in order; everyone is served |
| RCON TCP transport, same file | `struct rcon_tcp_block`: `pfds`, the listener and a socket for each slot, with the results of `poll` | `rcon_tcp_waitany`, `hasdata`, `accept`, `recv`, `send`, `close` behind function pointers | results of one poll used over several calls | table of the server and of the transport agree |
| RCON TCP setup, same file | descriptors, the address list, the block, the clients | `rcon_create_tcp`, `rcon_tcp_open`, `rcon_create` | each of its calls may fail, with more open each time | what was opened is closed |
| RCON codec, same file | none | `rcon_read_i32`, `rcon_write_i32`, splitting of responses, the port as text, `rcon_streq_consttime` | sign extension, buffer bounds, masks | text and lengths survive; the comparison is equality |
| PLY header parser, `tom_ply.h` | `struct ply_parser`: `memoryBreak` with the descriptions above it and the read buffer below, lists of elements and properties | `ply_parser_set_input`, `ply_parser_set_memory`, `ply_process_header`, `ply_reserve`, the accessors by index and name | short reads, memory that is used up, reuse after an error, what is left in the buffer for the stream | what the accessors tell is the header; blocks keep apart |
| PLY stream, same file | cursor over element, tuple and property; `bufferFill`, `bufferOffset` | `ply_start_streaming`, `ply_advance`, `ply_stream_value`, `ply_stream_list_item`, `ply_process_with_callbacks` | two cursors that must keep in step; reads of any length | each value told is the right value of the file; all of it is read |
| PLY scalars, same file | none | `ply_read_scalar` for 8 types and 3 formats | byte order, sign, width, range | the value is that of the file |
| PLY casts, same file | none | `ply_cast`, `ply_cast_normalized` | ranges that are not symmetric; what the reader made of negative values | a value keeps its number, or lands in the range of the documentation |
| R*-tree, `tom_rtree.h` | a tree of nodes with a box for each child, and a lock | `rtree_choose_subtree`, `rtree_split` and what they call; `rtree_insert` is a stub | unfinished; macros, ties and boxes without area | no child lost by a split; the way to a leaf is a good one |
| `tom_spatial.h`, `tom_particles.h` | - | drafts that do not compile | - | - |
| `example/`, `test/` | - | client programs | - | the models take from them how the libraries are called |

Interactions. Threads of the program meet the allocator only in its lock; the
allocator calls back `ctor`, `dtor`, `SLAB_alloc_page` and `SLAB_free_page` with
the lock held. The RCON server calls its transport through function pointers
and returns to the program's loop after every step; nothing in it runs
concurrently, but its peers do. The PLY parser calls the program's read
callback for bytes, and the program's element callbacks call back into the
stream.

## 2. Modules

| Module | Models | Composed with |
|---|---|---|
| `Slab` | one allocator, its pages and the threads that call it | instantiates `SlabPool` |
| `SlabPool` | the promise to the callers: a pool of elements, no page or lock visible | - |
| `SlabProofs` | theorems about the pages and lists of `Slab`, about who owns the elements, and the refinement of `SlabPool` | extends `Slab` |
| `SlabList` | the three lists as pointers, the loops page by page | - |
| `SlabListProofs` | theorems about `SlabList` | extends `SlabList` |
| `SlabLayout` | addresses, indices, words of the bitmap, `int` | - |
| `SlabLayoutProofs` | theorems about `SlabLayout` | extends `SlabLayout` |
| `RconSetup` | `rcon_create_tcp`, call by call | - |
| `Rcon` | the server over its TCP transport, the program and the peers | extends `RconSetup`, instantiates `RconSession` |
| `RconSession` | the promise to each connection: one queue of packets, no other connection, slot or buffer visible | - |
| `RconProofs` | lemmas about sequences of packets, the invariant of `Rcon` and theorems that follow from it | extends `Rcon` |
| `RconPromises` | the refinement of `RconSession`, and who is disconnected | extends `RconProofs` |
| `RconCodec` | integers, ports, fragments, comparison of passwords | - |
| `PlyTypes` | the types, their names and widths | - |
| `PlyFile` | the files that are read (external) | extends `PlyTypes` |
| `PlyHeader` | header parser, its memory, the accessors | extends `PlyFile` |
| `PlyStream` | a parser over its whole life: the header, the stream and the next file | extends `PlyHeader` |
| `PlyProofs` | theorems about the header, its memory and the accessors | extends `PlyStream` |
| `PlyStreamProofs` | theorems about the stream | extends `PlyProofs` |
| `PlyScalar` | one value from its bytes or text, and its casts | extends `PlyTypes` |
| `RTree` | the measures of boxes, the way to a leaf, the split of a node | - |
| `RTreeProofs` | theorems about `RTree` | extends `RTree` |

`MC<module>` gives the constants that a `.cfg` cannot write.

### Slab and code

| Model | `tom_slab.h` |
|---|---|
| `empty`, `partial`, `full` | the lists, as the sequence of nodes met from `head.next` on |
| `avail[p]`, `numelems[p]` | the footer of page `p`; the bitmap as the set of its 1 bits |
| `pages`, `constructed` | pages obtained and not freed; elements between ctor and dtor |
| `lock`, `pc[t]`, `arg[t]`, `ret[t]` | `coarse_lock` and where thread `t` is in its call |
| `held` | ghost: what the callers own |
| `AllocFromPartial`, `AllocFromEmpty`, `AllocGrow`, `AllocFail` | the paths of `slab_alloc`, each from lock to unlock |
| `Free`, `Reset` | the critical sections of `slab_free` (with the move and the trim) and `slab_reset` |
| `Unlock`, `Return` | `SLAB_mutex_unlock` and the return |

A critical section is one action because the fields it touches are read and
written under `coarse_lock` only; the reads `slab_free` makes before locking are
of the address alone (`slab_get_base`). `slab_destroy` takes no lock, so the model
lets it run only while no call is in progress, as its callers must. When both
lists are empty `AllocGrow` and `AllocFail` are enabled together: a page may be
refused at any time.

`Quiescent` says how programs use `slab_reset`, which takes back elements that
callers may be about to free. TRUE: a reset does not overlap another call, and
afterwards nobody frees an element it took back. FALSE: resets race with frees,
and a stale free can meet a bit that is set, which makes the code panic. The
model then stops with `aborted`.

### SlabList and code

`links` holds the `next` and `prev` of every page and of the three sentinels,
`count` the counts. `Grow`, `EmptyToPartial`, `PartialToFull`, `FullToPartial`,
`PartialToEmpty` and `Trim` are the moves of `slab_alloc` and `slab_free`;
`StartLoop`, `Round` and `EndOfList` are the loops of `slab_reset` and
`slab_destroy`, one page a step. `failed` is the check in `slab_list_remove`.
`Walk` follows the pointers. `ToDo` counts the steps a loop has before it, and
`LoopsComplete` says that each step lowers it: since no state is a deadlock, the
loops end, without an assumption of fairness.

### SlabLayout and code

One page at a base address; the size asked for runs through
`slab_create`'s rounding and checks with `int` that wraps at `INT_MAX`; `Alloc` and `Free`
work on the words of `avail` and go from bit to pointer and back.

### Rcon and code

The bytes of a connection are its packets, each a number of units of which the
first is the length field. `client->buffer` is a prefix of `recvd` units of what
the server has not consumed.

| Model | `tom_rcon.h` |
|---|---|
| `inUse`, `authd`, `inCmd`, `recvd` | `struct rcon_client` |
| `conn[s]` | the socket of slot `s` in the transport |
| `revents`, `at`, `pc` | the results of `poll`, and where the loops over the slots are |
| `peer`, `wire`, `sent`, `backlog` | the network: what peers did and sent, what waits at the listener |
| `pending` | commands the program has been given and not completed |
| `proved`, `granted`, `ran`, `answers` | ghosts: who sent the right password, who got authenticated, what was handed out, who was answered for whom |
| `StartWait`, `Receive*`, `SkipSlot`, `Accept`, `Refuse`, `NoAccept`, `WaitFails` | `rcon_wait_for_input`, one transport call a step; in `NoAccept` nobody is taken from the queue, since nobody was there or `accept` failed |
| `StartFetch`, `NoPacket`, `Authenticate`, `Echo`, `FetchCommand`, `FetchError` | `rcon_fetch_command` |
| `Complete`, `SetPassword`, `Destroy` | the functions of that name |
| `Connect`, `SendPacket`, `Leave` | the peers (external) |
| `fds`, `memory`, `addresses` | descriptors that are open, what is allocated, the rest of the list `ai` |
| `GetAddresses`, `Socket`, `Bind`, `AddressUnusable`, `Listen`, `AllocateBlock`, `Create` | `rcon_tcp_open` and `rcon_create`, one call that may fail a step |
| `RunsOn` | `main` of the example, which does not look at the result |

The server is cut into steps wherever a peer could be noticed to have acted
between: at each call of the transport. `Prompt` chooses the program: TRUE is
the loop of `example/rcon/main.c`, which fetches until there is no command,
completes each command at once, and waits again; FALSE is any program, which
calls in any order and completes commands as late as it likes. Either sets a
password before it serves anyone. The loop of the example takes an error of
`rcon_fetch_command` for a command and evaluates a pointer without a value: the
model goes on or crashes there.

`RconSession` is one connection by itself: `todo` holds the packets sent and not
dealt with, which are taken whole and in order; `authd` and `running`. The
refinement mapping takes the phase from the peer, the backlog and the slots,
`todo` from `wire`, and the flags from the slot that has the connection, if one does;
it is the same for each connection, so a step that serves one must be a stutter
of every other.

### RconCodec, PLY, RTree and code

`RconCodec` sweeps over numbers and strings: a char is a set of bits, so that
shifts and sign extension are what the machine does. `SignedChar` is the build's choice.

`PlyFile`: a line of a header is its words and its length; a cell of the body,
the unit of the buffer, says of which value it is a part. `FileAssumption` ties the two
descriptions of a file together, the lines that are parsed and the `elements` that a
reader should learn: the lines of a readable file describe its elements one by one
(`Describes`), and those of a malformed one have a line that is wrong in every
header (`Wrong`) before any `end_header`.

`PlyHeader`: `fill` and `blocks` stand for the buffer and the memory used from
the top. Each kind of line is one action (`FormatLine`, `ElementLine`,
`PropertyLine`, `OtherLine`), which reads as `ply_process_header` does, takes the
words as the function of that line does, and leaves what had been stored when
it fails; then there are missing memory (`NoMemory`, a crash if the line goes on to write
the block that was not reserved, `WritesBlock`), a line without newline
(`NoNewline`) and failing reads (`StartFails`, `LineFails`). `GetElement`, `GetElementByName`
and their like are the accessors.

`PlyStream` goes on from there with the same `fill`, `memoryBreak` and `elements`.
The loops of `ply_process_with_callbacks` (`Loops`, `at`) and the cursor of the
streaming functions (`element`, `tuple`, `property`) are separate state;
`ReadScalar`, `ReadLength`, `ReadItem` take a value from the buffer, `Following`,
`NextTuple` and `Refill` are `ply_advance`, and the callback chooses how much to
return. Where the cursor has left the loops (`ReadAstray`), a read passes the end
of what was filled (`ReadStale`), or a pointer is NULL (`crashed`), the model stops:
what the code does then depends on memory it does not own. If just the cell
behind an ASCII value is missing, either happens: `strtol` stops there, or goes on. In a file without a format line
`ply_read_scalar` is an error before it looks at the buffer. `Again` gives the
parser the next file, after success or an error.

`PlyScalar` sweeps over raw bytes and decimal numbers, computes what
`ply_read_scalar` leaves in the union, and casts it. The union holds the bits of
`value.i`, `value.u` or `value.f`; `value.d` is a number, that of the 64-bit integer the bytes
are joined to, since the code converts it. A float that comes from an
integer is a fraction.

`RTree`: a tree is the boxes of its leaves, the node at a path having the union of
those below; `Descend` is one round of `rtree_choose_subtree`. `ChooseSplitAxis`,
`ChooseSplitIndex` and `Distribute` are the three calls of `rtree_split`. `Sink` is
what the preprocessor makes of `RTREE_SORT_INLINE`: the compare macro stands
without parentheses between `_j > 0 &&` and `> 0`, so neighbours are exchanged
whenever they differ, and behind the first of the array the code reads what is
in front of it (`Undefined`). An element so sinks until the one before it is like it, the
last such one that stood in front. Since the pieces are not connected in the code
(`rtree_insert_at_level` is disabled), each starts from any tree, or any node, of the
instance. Coordinates are integers.

## 3. Runs

Nine runs pass and three show a disagreement.

| Run | Instance | Shows |
|---|---|---|
| `slab` | 2 pages of 3 elements, 2 threads, quiescent resets | types, `PagesListedOnce`, `Accounting`, `NoAbort`, `OneOwner`, `OwnedIsConstructed`, `TrimBoundsCache`, the refinement `ImplementsPool`, and `SomeCallReturns` |
| `slab_list` | 4 pages | `WellLinked`, `LoopsComplete`, `MovesOnePage` |
| `slab_layout` | page of 1 KiB, footer of 40, every size from -20 to 985 and the last 40 below `INT_MAX` | `BitmapMatches`, `ElementsApart` |
| `rcon` | 1 slot, 2 connections, at most 4 packets, buffer of 3 units, 2 addresses, any program | types, `SlotsAgree`, `BufferIsOfConnection`, `AuthByPasswordOnly`, `CommandHeld`, `CommandsInOrder`, `RepliesToAsker`, `NothingLeaks` |
| `rcon_live` | 2 slots, 2 connections, at most 3 packets, one kind of which does not fit the buffer of 2 units, the program of the example | the refinement `ImplementsSessions`, `DropsOnlyOversized`, `CommandsServed`, `ConnectionsTaken` |
| `rcon_codec` | payload lengths and ports up to 70000, numbers below 0, strings of up to 3 chars out of 4, and of up to 18 equal chars but for the last | `NumbersSurvive`, `ComparesWholeSecret` |
| `ply` | 15 headers, with two elements, with hollow ones or with a tuple that does not fit, 13 malformed ones, lists of 0 to 2 items, ASCII and binary, then another file; full and short reads, memory of 41 and 37 cells over a buffer of 8 | `BlocksApart`, `HeaderDescribed`, `ToldIsRead`, `CrashesExplained`, `FullReadsSuffice`, `AllRead`, `Returns` |
| `ply_scalar` | bytes of 2 bits, all of them, both byte orders; numbers at every boundary; all casts | `ReadsFileValue`, `CastsKeepNumber` |
| `rtree` | 2 axes, coordinates 0 and 1, trees of height up to 3 with 2 children, nodes of 2 to 4 children of which a split leaves at least 1 | `BoxesMeasured`, `WayIsTight`, `SplitKeepsChildren` |
| `slab_stuck` | 1 page of 3 elements, 1 thread | violates `PartialIsInUse` |
| `ply_short` | as `ply` | violates `NoStaleRead` |
| `ply_normalized` | as `ply_scalar` | violates `NormalizedInRange` |

Why the bounds are enough.

- Slab: three elements are the least for which the counter drifts, since a page is
  then neither full nor holds one element; two pages let one page be trimmed or
  grown while another is in use; two threads give every overlap of a call with
  one other. One element per page and racing resets are not run: every safety
  property is proved for one element per page, and `TypeOK`, `PagesListedOnce`,
  `Accounting` and `TrimBoundsCache` for racing resets.
- SlabList: four pages put two interior nodes on a list while others are on
  the second and third.
- SlabLayout (proved for every size): 1 KiB keeps every size within reach and has up to 61 elements, so
  pages with one and two words of bitmap, and partly used last words, occur.
  `MaxHoles` bounds how many elements are free below an allocated one.
- Rcon: one slot forces its reuse by the second connection, with bytes and
  commands of the first left over; four packets are an authentication and a
  command on each of the two, so that the second can be answered for the first;
  a buffer of three units holds one packet with a rest, or is full exactly. The
  connections are symmetric, and this run, which has no liveness, uses that. `rcon_live` has two slots because a
  failure at one of them must not starve the other.
- RconCodec: 70000 exceeds every length and 16-bit port. All indices of a
  string of three chars and of its NUL are compared, and those of the long strings go
  through the powers of 2 up to 16 and their neighbours, so that each of the five lowest bits
  of the mask decides about some pair. `SignedChar` is TRUE in the run, the build in which
  lengths are misread.
- PlyHeader and PlyStream: list lengths 0, 1 and 2 distinguish none, last and
  middle item; a tuple has up to 7 cells and a newline, so that the buffer splits it
  at each place; two sizes of memory are one that suffices and one that is used up.
  Elements without tuples stand first, last and in the middle. One tuple is wider than
  any `memoryBreak`, and four of the malformed headers end in a line that is cut off where the
  memory is used up. The second file is
  one of the ASCII ones or a malformed one, since what the parser keeps does not
  depend on the format; the first may have ended in any way.
- PlyScalar: the shifts and combinations depend on the width of a byte through
  `ByteBits` only.
- RTree: the sort, the split and the way down compare boxes and measures only, and
  two coordinates give boxes that are flat, equal, apart, touching and inside each
  other on each of two axes. Height 3 has a way of two choices; 4 children have
  two candidates for the split.

Deadlock is checked where something can always be done: by the runs of the SLAB
modules. The others may really stop (the server is destroyed, the file is
read, the sweep is over) and say so in their `.cfg`.

### Fairness

- `Slab`: weak fairness of each thread's critical section, `Unlock` and `Return`,
  as of a scheduler that keeps running a thread that can run. Nothing makes a
  program call, and nothing makes one thread get the lock among several, so the
  property is that *some* call returns, not that each does.
- `Rcon`: weak fairness of the server, since the example loops for ever; strong
  fairness of `StartWait` and of `Accept \/ Refuse`, since `poll` and `accept` may fail, and a
  failed `accept` may leave the connection in the queue, but not each time. Peers are
  under no fairness.
- `PlyStream`: weak fairness of the header parser and of the stream, which are one
  sequential program; a read callback returns.

### Liveness that holds only in part

`CommandsServed` and `ConnectionsTaken` hold up to the state `Blocked`: see the
list of disagreements, the server blocked for ever.

## 4. Proofs

The theorems hold for every value of the constants that the assumptions allow:
any sets of pages, threads, connections, packets and passwords, any number of
slots, any files, any size of the buffers, of the memory and of the bounds, any dimension and tree. Those assumptions are
`SlabAssumption` (`MaxElems` is a positive natural number, `Quiescent` a Boolean, `None`
no page, thread or element), `ListAssumption` (the three sentinels and `None` differ
from each other and from all pages), `LayoutAssumption` (sizes are positive, a page has room
for its footer and one element, `INT_MAX` exceeds it, pages are aligned to their
size), `RconAssumption` with `SetupAssumption`
(there is a slot, the buffer has a unit, a packet has a kind, a password and a
length from 1, `None` is no connection and no password, and an address can be tried),
and `FileAssumption` with `HeaderAssumption` (files are what `PlyFile` says above; sizes
are positive, the buffer is aligned and has room for "ply\n", no memory is smaller than
the buffer, and what is kept of a long name is not a long name), and `RTreeAssumption` (there
is an axis, a coordinate is one of finitely many numbers, and a full node has children for two).
TLC evaluates all of them.

| Theorem | States | Condition |
|---|---|---|
| `SlabProofs!ListsInvariant` | the invariant `ListInv` | |
| `SlabProofs!TypeCorrect`, `NoPageLost`, `CounterSound` | `TypeOK`, `PagesListedOnce`, `Accounting` | |
| `SlabProofs!CacheBounded` | the action property `TrimBoundsCache` | |
| `SlabListProofs!LinkInvariant` | the invariant `LinkInv` | |
| `SlabListProofs!ListsWellLinked` | `WellLinked` | |
| `SlabListProofs!NoPageSkipped`, `OnSequences` | the action properties `LoopsComplete`, `MovesOnePage` | |
| `SlabLayoutProofs!LayoutInvariant` | the invariant `LayoutInv` | |
| `SlabLayoutProofs!BitsTellPointers`, `ElementsKeepApart` | `BitmapMatches`, `ElementsApart` | |
| `SlabProofs!OwnershipInvariant` | the invariant `OwnInv` | `Quiescent` |
| `SlabProofs!EveryElementOwnedOnce`, `NeverAborts`, `ElementsConstructed` | `OneOwner`, `NoAbort`, `OwnedIsConstructed` | `Quiescent` |
| `SlabProofs!Refinement` | `ImplementsPool`: `Slab` implements `SlabPool` | `Quiescent` |
| `RconProofs!ServerInvariant` | the invariant `ServerInv` | |
| `RconProofs!TypeCorrect`, `NothingIsLeaked`, `TablesAgree`, `NoForeignBytes` | `TypeOK`, `NothingLeaks`, `SlotsAgree`, `BufferIsOfConnection` | |
| `RconProofs!OnlyByPassword`, `CommandStays`, `OnceAndInOrder`, `RepliesReachAsker` | `AuthByPasswordOnly`, `CommandHeld`, `CommandsInOrder`, `RepliesToAsker` | |
| `RconPromises!Refinement` | `ImplementsSessions`: `Rcon` implements `RconSession` for each connection | |
| `RconPromises!DropsJustified` | `DropsOnlyOversized` | `Prompt` |
| `PlyProofs!HeaderInvariant` | the invariant `HeaderInv` | |
| `PlyProofs!BlocksStayApart`, `HeaderIsDescribed` | `BlocksApart`, `HeaderDescribed` | |
| `PlyStreamProofs!StreamInvariant` | the invariant `HeaderInv /\ StreamInv` | |
| `PlyStreamProofs!ValuesAreTold`, `CrashesHaveReasons`, `FilesAreReadToTheEnd` | `ToldIsRead`, `CrashesExplained`, `AllRead` | |
| `PlyStreamProofs!FullReadsAreEnough` | `FullReadsSuffice` | |
| `RTreeProofs!TreeInvariant` | the invariant `TreeInv` | |
| `RTreeProofs!MeasuresAgree`, `WayStaysTight`, `ChildrenAreKept` | `BoxesMeasured`, `WayIsTight`, `SplitKeepsChildren` | |

The two conditions are parameters of the models that say what the program
around the library does. Both are TRUE in the runs of these properties, and neither
can be dropped: without `Quiescent` a free that overlaps a reset gives back what the
reset has taken (the code then panics), and without `Prompt` a client whose
packets wait for a slow program fills its buffer with packets that do fit, and is
disconnected.

### The lists of `Slab`

`PagesListedOnce` and `Accounting` are not inductive alone. `slab_alloc` takes a bit
of the page at the front of a list and increments the counter; to know that the
counter tells whether the page became full one needs that the used slots are
counted from above, that pages of a list are distinct, and that a page of the
empty list has no used slot. `slab_free` reads the page from its argument, so
`ListInv` says what the argument of a free in progress can be, and on which of
the three lists the page is: the code decides by the counter, so the equivalence
"on the full list iff the counter is `MaxElems`" carries the proof. `slab_trim` and
`slab_reset` cut and join lists, for which there are lemmas about sequences: what
unlinking, appending and cutting off a front do to the pages of a list and to
their distinctness. Each action has one step, and under it one for each part of
the invariant it can disturb. Stale frees that race with a reset panic, or
pass, but never corrupt the lists.

### Ownership

A `slab_free` that is legal when it is called must be legal when it gets the lock,
whatever ran in between. So `OwnInv` adds to `ListInv` where each thread is in its
call (`CallsInv`), that what is owned, in flight and marked used agree (`OneOwner`),
and that the constructed elements are those of the pages the allocator has,
which is stronger than `OwnedIsConstructed` and survives a page that comes and
goes. That no abort happens is itself part of it, since every later step relies
on it. The refinement takes the elements marked used for those of the pool and hides the
lock: each critical section is one operation of the pool, whatever pages it gets, moves
or trims, and unlocking is a stutter. `OwnInv` says that what an allocation picks is
free and that what a free gives back is not.

### Pointers

`Walk` is defined by recursion over positions. The proofs describe the three lists by a
*chain* instead, a function from positions to nodes that need not be the one `Walk`
computes: `UnlinkChain` and `PushBackChain` say what the two pointer operations do to any
chain, and `ChainIsFound` that `Walk` finds every chain there is. `LinkInv` adds to
`WellLinked` that no page occurs twice on one list (`Apart`), and where a loop
stands (`LoopAt`): on the first page that is left of the list it visits, with the lists
before it empty. That is why a loop may read `next` before it unlinks the page, and
why none is skipped and each step leaves less to do. `OnSequences` reads the chains as
sequences, which is the view that `Slab` has of its lists.

### Layout

`LayoutInv` is `BitmapMatches` with what `slab_create` has checked: the size is rounded up from
a legal request and fits the page. The work is in the arithmetic, products and quotients of
variables: `DivMod` and `Quotient` say what a division is, `BitPlace` and `PlaceBit` that a bit
number and its place in a word determine each other, `EnoughBits` that `SLAB_AVAIL_WORDS` words
hold a bit for each element, and `PointerTells` that page, index and address do too. `Rounded`
covers every `int`, the negative ones and those for which rounding overflows included.
`ElementsApart` follows, since each element ends where the next one begins.

### The server

`ServerInv` joins the properties of the run, because none is inductive alone. That a
slot's buffer holds only bytes of its connection (`Streams`) needs that a connection is in
one slot or in the queue of the listener, and in one place there (`Places`); that an accept
finds somebody needs that what `poll` said is still true (`Polled`); that an answer reaches
the one who asked, or one who took the slot when the asker was gone, needs that a command
which is not complete is that of the slot's connection unless that is over (`Asked`). Held
memory and descriptors are told call by call of the setup (`Held`).

`Units` and `Execs` are folds over sequences, which are recursions over what is left of an
index set; `RconProofs` first turns them into recursions over the length, by induction on a set
of natural numbers, and says what appending a packet and taking the first one do to
them.

The refinement is proved for an arbitrary connection. Each action is sorted by what it does
to that connection (nothing, it joins the queue, it sends, it is over, it is given a
slot, its slot serves a packet), and each sort is a step or a stutter of `RconSession`.

`DropsJustified` needs that the loop of the example leaves nothing unserved before it
waits again. `LoopInv` says so: the turn of the loop and the commands in progress
(`Turns`), and how far the sweep over the slots has come (`AllServed`). A slot that is served
has no whole packet, so a buffer that is full holds the beginning of one that can never
fit.

### The PLY header and its memory

`HeaderInv` has three parts. `SpaceInv` says where the blocks are: aligned, in the memory,
above `memoryBreak`, each before or behind each other one. `Passed` says what the lines parsed
so far have done, whether the file is readable or not: none was wrong, there is an
element for each element line, and `memoryBreak` is as far down as `SpaceNeeded` of the header up to here,
which is why a crash for want of memory tells that the header needs more than there is.
`Learnt` holds for readable files: what is stored is the part of `file.elements` that those
lines describe (`PartOf`), names cut as the code cuts them. At `end_header` it
becomes `Complete`, which every step of the stream preserves, and from which `HeaderDescribed`
follows. A line that is not wrong and belongs to a
readable file says one thing only: `FormatRight`, `ElementRight` and `PropertyRight` get from the
words that the code looks at, one after the other, to what `Describes` says of the line.

### The PLY stream

There are three positions that the code advances separately: the cursor of the parser
(`element`, `tuple`, `property`), the loops of `ply_process_with_callbacks` (`at`), and the place of
the buffer in the file (`dropped + offset`). `StreamInv` ties them to each other where a value is
taken (`AtValue`), inside a list (`InList`) and after a value (`After`): `Index` is the number of the
loops' turn for a cursor, `Pos` the number of cells in front of its value. An element
without tuples parts the cursor from the loops for good, so the
invariant has that case too (`Skipped`), and `ToldIsRead` excepts just that.

The body, and the turns of the loops, are sequences made by `FlattenSeq` out of sequences of
sequences, three deep. `Flat` and the lemmas behind it say by induction on a set of numbers where the
k-th part of such a sequence begins, and that each index is in one part, at one
offset. From that come `TurnsInOrder` (the next turn of the loops is that of the next
property, tuple or element), `PlacesInOrder` (the cell behind a value is the
first of the next value, over the newline that ends a tuple of an ASCII file) and `RestOfBody` (behind
the last value there are newlines only). The actions then are one lemma each, from the place before to
the place after.

The proof of `CrashesExplained` found that it was false as first stated: it told the two
reasons for a crash apart by whether lines were left to parse, which fails for a file whose
last line is not `end_header` and uses up the memory. No file of the instance is like
that. Now it looks at the line that was parsed last.

`FullReadsSuffice` has an invariant of its own above `StreamInv`. With full reads the buffer
holds, in the header, `MinBuffer` cells or all that is left of the file (`LineIsThere`), and in
the body it reaches to the end of the tuple that the cursor is in (`Reached`): `ply_advance` drops
what was read and fills up to `memoryBreak`, and a tuple begins where the buffer then
does. The length of the lines left is a fold over a set, whose recursion is shown to have a value
first (`SizeFromStep`); that of a tuple is the number of cells that come from it (`TupleHolds`).
In a readable file no line is refused (`LineIsGood`), so nothing else ends the header
either. With this the property could be stated for the two reasons that are
left, no format line and a tuple that does not fit, without the case of a cursor that is
astray.

### The R*-tree

The measures are folds over the axes, and the theorems about them are inductions
over the axes (`AreaSteps`): an area is 0 just if the box is flat; it is less for a box inside
another with room (`AreaGrows`); and that of two boxes together, less what they share, is no
more than that of their union, since that is so on each axis and stays so when one
more axis is multiplied (`OneMoreAxis`). Each step down takes a child of least area, so that
`AreaGrows` makes it tight; `TreeInv` keeps that for all steps taken (`OnTheWay`). The sort
is a fold over the children, which leaves the order alone as long as all boxes are the same on the
axis and is undefined from the first that differs (`SortOutcome`). So after it all boxes are the
same, the order is that of before, and the two parts have the children of the
whole (`Rejoined`). Both choices are of a least number, which has to exist (`Extremes`): the
coordinates are finite, and a cost is a number (`SplitCostType`).

### Only model-checked

- All liveness: `SomeCallReturns`, `CommandsServed`, `ConnectionsTaken`, `Returns`. The proof
  system has no rules for fairness.
- `RconCodec`, `PlyScalar`: their properties compare a computation over the digits, bits or bytes
  of a value with a reference, over bounded data. They rest on the value of a number as a sum
  of powers (`NumbersSurvive`, `ReadsFileValue`, `CastsKeepNumber`) and on shifts and masks of words
  (`ComparesWholeSecret`), and the prover knows no law of `2^n` for a variable `n`.

## 5. Where code and comments disagree

Shown by runs of their own:

- `slab_free` moves a page "partial -> empty" (`tom_slab.h:479`) only if `numelems`
  was 1, and decrements `numelems` only then and when the page was full. A page
  of three or more elements whose counter has reached 2 never returns to the
  empty list and is not trimmed (`slab_stuck`). No element is given out twice or
  leaked, but the counter then reaches `maxelems` early: the page is taken for
  full while it has free elements, and `slab_alloc` gets another page.
- The read callback may return less than it was asked for (`tom_ply.h:65`), but
  the stream then joins a value of a binary file from the part that was returned and from
  memory that was not filled (`ply_short`).
- `ply_cast_normalized` says that signed integers end between -1.0 and 1.0
  (`tom_ply.h:258`), but a negative int8 or int16 of a binary file was read as a
  large positive number and ends above 1 (`ply_normalized`).

Stated inside the passing properties, which except or describe them:

- Rounding up overflows for the last 15 sizes below `INT_MAX` (`tom_slab.h:325`; `ElementsApart`).
- A command from a client that is not authenticated makes `rcon_fetch_command`
  return an error without consuming the packet, so the server meets it for ever
  (`tom_rcon.h:426`; `Blocked`).
- A full buffer makes `recv` return 0, which counts as the end of the connection
  (`tom_rcon.h:366`; `DropsOnlyOversized`).
- An answer goes to another connection if a slot was used again before the
  command was completed (`tom_rcon.h:451`; `RepliesToAsker`).
- `rcon_set_password` says it refuses passwords that are too long
  (`tom_rcon.h:142`), but where `char` is signed `rcon_read_i32` misreads the length
  of the packet of a password of 118 chars (`tom_rcon.h:318`; `NumbersSurvive`).
- Without memory for its block the server goes through NULL (`tom_rcon.h:596`; `NothingLeaks`).
- A well-formed header is refused after a short read, or a line of older bytes is
  parsed, since `strchr` does not stop at `bufferFill` (`tom_ply.h:530`; `FullReadsSuffice`).
- Exhausted memory is written through NULL instead of `PLY_ERR_SPACE`, unless the line ends first
  (`tom_ply.h:401` against lines 53 to 56; `CrashesExplained`).
- A tuple larger than `memoryBreak` is read past what was filled (the TODO at
  `tom_ply.h:811`; `FullReadsSuffice`).
- `value.i` is there for int8 and int16 too (`tom_ply.h:85`), but they are not sign-extended when a
  binary file is read (`tom_ply.h:652`), so that a negative one is positive there; `ReadsFileValue`
  excepts it (`Misread`), and `ply_normalized` shows what comes of it.
- `value.d` should be the double in the file (`tom_ply.h:88`), but the code converts the integer that
  has the bits of the double (`tom_ply.h:687`, `tom_ply.h:736`): a zero with its sign bit set
  becomes 2^63. The model does the same (`Scalar`), and `ReadsFileValue` excepts all doubles of
  binary files (`Converted`).
- Behind an element without tuples the handler is told values of other
  properties, and behind one without properties a NULL pointer is followed (the FIXME at
  `tom_ply.h:762`; `ToldIsRead`, `CrashesExplained`).
- Names of 32 chars and more are cut, and not found by name (`tom_ply.h:401`; `HeaderDescribed`).
- The sort of the R*-tree reads in front of its array unless all boxes of a node are
  the same (`tom_rtree.h:71`; `SplitKeepsChildren`), so a split is defined for those only.
- The first child of a node is taken for a new box if all areas are 0, whichever
  it lies in (`tom_rtree.h:186`; `WayIsTight`).

## 6. Not modelled, and why

- `rcon_tcp_init` and `uninit` (something on Windows only), the `strerror` functions: text.
- A blocking `send`, and a `send` that fails: the model's peers read, and the code
  ignores the result.
- Packets of 10 to 13 bytes, whose echo has a negative length (`tom_rcon.h:406`): packets of
  the model are whole or misread.
- The rounding of doubles, `strtof`, `strtod`, casts of floats: floating point.
- `ply_stream_value` and `ply_stream_list_item` called by a program of its own, past the
  end of a list or of the file: only `ply_process_with_callbacks` calls them in the model.
- What is read from memory the program does not own: the stale bytes behind the
  buffer, a property of another width, the element in front of an array.
- The insertion of the R*-tree: `rtree_insert` takes and releases its lock and does nothing,
  deletion and search are missing; overflow treatment and reinsertion are disabled, and
  the tests of these (`test/rtree/test.c`) expect a tree that does not exist.
- `tom_spatial.h`, `tom_particles.h`: they do not compile.
- Constructors that call the allocator they belong to, and a `slab_destroy` that
  races with other calls: errors of the program.

## 7. Plan

Order: the allocator first, since every other guarantee of it rests on its
lists and it is the one part that threads share; then the server, whose
environment is the least friendly; then the parser.

Done: the modules and runs above, and the theorems of section 4.

Next, the models:

1. `SlabList` composed with `Slab`: the sequences of `Slab` as the refinement
   mapping of the pointers.
2. Sends that fail, and peers that do not read.
3. The streaming functions called by any program, as `Rcon` has them.
