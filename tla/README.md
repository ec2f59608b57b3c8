# TLA+ models of ULib

This directory holds TLA+ models of the C++ library ULib, checked with TLC.
It covers the sources under `src/`. These components are modelled and
checked:

- the allocator (`src/src/ulib/internal/memory_pool.cpp`);
- the timer list (`src/src/ulib/timer.cpp`), both sequentially and
  statement by statement against its signal handler;
- the core of the format interpreter `u__vsnprintf`
  (`src/src/ulib/base/base.c`);
- the date formatter `u_strftime1`, the number formatters `u_num2str*`
  and the at-exit registry of `base.c`;
- the hexdump coder (`src/src/ulib/base/coder/chexdump.c`).

## 1. Inventory

### Components and their state

| Component | Source | State | Operations |
|---|---|---|---|
| Size-class table | `memory_pool.cpp` 133-134; `U_SIZE_TO_STACK_INDEX` lives in a header outside `src/` | none (constant table 8, 24, 32, 56, 128, 256, 512, 1024, 2048, 4096) | `U_SIZE_TO_STACK_INDEX` (the binary search `stackIndexToSize` at 43-74 is commented out) |
| `UStackMemoryPool` (one per class) | `memory_pool.cpp` 145-331, 788-1008 | `pointer_block`, `len`, `space`; the static `mem_block`, `mem_pointer_block`, `mem_stack[10]` | `pop`, `push`, `allocateMemoryBlocks(n)`, `growPointerBlock`, `deallocatePointerBlock` |
| `UMemoryPool` facade | `memory_pool.cpp` 384-659 | none of its own | `_malloc(num,type)`, `_malloc(&num,type)`, `_free`, `push`, `pop`, `deallocate`, `allocateMemoryBlocks(i,n)`, `allocateMemoryBlocks(config)` |
| Memory provider `UFile::mmap` / `pfree` / `isLastAllocation` / `getSizeAligned` | `file.cpp`, outside `src/` | bump pointer `pfree`, free count `nfree` | map, take back the tail, round to a page |
| `UTimer` | `timer.cpp`, `timer.h` | sorted active list `first`, free list `pool`, `mode` | `insert`, `insertEntry`, `erase`, `run`, `callHandlerTimeout`, `setTimer`, `clear` |
| At-exit registry | `base.c` 2719-2780 | `u_fns[32]`, `u_fns_index` | `u_atexit`, `u_unatexit`, `u_exit` |
| Number formatting | `base.c` 1081-1191 | none | `u_num2str32`, `u_num2str32s`, `u_num2str64`, `u_num2str64s` |
| Hexdump coder | `chexdump.c` | none | `u_hexdump_encode`, `u_hexdump_decode` |
| Format interpreter `u__vsnprintf` | `base.c` 1440-2645 | the caller's buffer, `bp`, `ret` | one call: scan, dispatch, convert, pad |
| Date formatter `u_strftime1` | `base.c` 636-1064 | the caller's buffer; the globals `u_strftime_tm`, `u_now_adjust`, `tzname` | one call: copy text, dispatch each `%` |
| Rest of `base.c` (time, path helpers) | `base.c` | process-wide buffers | formatting and system-call wrappers |
| `UHTTP`, HTTP/2, `UDirWalk` | `uhttp.h`, `http2.h`, `dir_walk.h` | declarations only | implementations are not in the sources |

### How they interact

- `UMemoryPool::_malloc` picks a class with `U_SIZE_TO_STACK_INDEX`.
  - It pops a block from that class's stack.
  - A request above 4096 bytes is mapped directly from the provider.
- An empty stack refills itself in `allocateMemoryBlocks`.
  - Class 0 maps a region whose pointer-array slots *are* the 8-byte blocks.
  - Any other class asks `_malloc(&num, type)` for one chunk of `n - len` blocks.
  - That chunk is popped from a larger class, or from the same class, or mapped when it exceeds 4096 bytes.
  - The chunk is sliced from its high end down.
  - So `pop` recurses through `_malloc` into other stacks.
- A stack whose pointer array is full grows it through `mmap`.
  - The old array is released through `deallocate`.
  - `deallocate` gives the provider's tail back by rolling `pfree` back.
  - Any other released range goes to `madvise`/`munmap`.
- The preallocation string, parsed by `allocateMemoryBlocks(config)`, runs once at start-up.
  - A positive entry grows a class.
  - A negative entry "squeezes" pairs of blocks into the next class.
- `UTimer` keeps an active list sorted by expiry and a free list of nodes.
  - In NOSIGNAL mode the program polls `getTimeout`, which runs the list.
  - In SYNC and ASYNC mode the SIGALRM handler runs `setTimer`/`run` on the same lists that the main thread changes with `insert` and `erase`.
- `u__vsnprintf` is called through `u__snprintf` and the `u_printf` family by most of the library. It writes into a caller's buffer and shares no state with the other components.

### What is hard

- **Nested refills.** One `pop` can run `allocateMemoryBlocks`, `_malloc`, a `pop` of another class, and `growPointerBlock` and `mmap`. Each step changes state the caller reads afterwards, for example `len` after `_malloc`.
- **The order in which blocks come off a stack.** The static blocks are stored ascending, but refilled chunks are stored descending. The squeeze depends on that order.
- **Block aliasing across classes.** A slicing or merging error only shows when two classes later hand out overlapping memory.
- **The provider's tail.** Releasing the last mapping rolls `pfree` back. Whatever is still in that range is then handed out again.
- **Signal-handler interleaving in `UTimer`.** In ASYNC mode the handler and the main thread change the same lists.
- **Padding arithmetic in `u__vsnprintf`.** A sign or `0x` prefix is written over the padding that was already counted. A miscount moves `bp` before the field or turns a loop counter negative.
- **Fixed arrays at their limit.** Examples are `u_fns[32]` and the digit buffer `ui32vec[4]` of `u_num2str32`.

### What makes each component correct

- **Size classes:** the lookup returns the smallest class that fits.
- **`u__vsnprintf`:** it writes what the C standard's `snprintf` writes, and returns the length of what it wrote.
- **Allocator:**
  - No byte is free twice, held twice, or both free and held.
  - Everything live is mapped and not released.
  - A stack never exceeds its pointer array.
  - `_malloc`/`_free` implement an abstract allocator: a block is large enough and disjoint from every held block.
  - Preallocation reaches the requested counts, and a squeeze moves pairs up as the configuration format says.
- **`UTimer`:**
  - The active list stays sorted.
  - Every alarm is on exactly one of the active list and the pool.
  - `run` fires only expired alarms, in order.
  - Under the signal handler, no node is lost or reached twice.
  - The list implements an abstract set of scheduled alarms, and a due alarm is eventually handled.
- **At-exit registry:** no write beyond `u_fns[31]`, and `u_exit` calls each registered function once.
- **Coders:** decode(encode(x)) = x, and `u_num2str` prints the decimal digits of the number.

The hazards are listed in `PROJECT.json` (`hazards`), each at the line
where it bites.

## 2. Plan

The allocator is the core of the library, so it came first.

1. `SizeClass` (done): the size table and the contract of `U_SIZE_TO_STACK_INDEX`.
2. `MemoryPool`, `AbstractPool` and `MC_MemoryPool` (done): the whole allocator as one module, with the abstract allocator stated as a refinement.
3. `Timer`, `AbstractTimer` and `MC_Timer` (done): the list operations with the signal handler between operations, refining an abstract alarm set.
4. `TimerAsync` and `MC_TimerAsync` (done): `insert` and `erase` one pointer write at a time, with the handler between any two.
5. `Vsnprintf` and `PrintfContract` (done): the integer, character, string and pointer conversions, checked against the C standard.
6. `Strftime` and `StrftimeContract` (done): the whole of `u_strftime1`, checked against the C standard's `strftime`.
7. `AtExit` and `AbstractAtExit` (done): `u_atexit`, `u_unatexit` and `u_exit`, refining an ordered registry.
8. `Num2Str` and `HexDump` (done): pure operators (RECURSIVE), checked against the C standard's `%d`, `%u` and `%02x`.
9. `MC_Base` composes the `base.c` components and the hexdump coder into one model for TLC.
10. `u_strftime2` and the `%S`, `%O` and `%D` extensions of `u__vsnprintf` (done). The 64-bit loop of `u_num2str64` stays out (see section 5).

## 3. Modules

### `SizeClass.tla`

- `StackType` is the table, and `SizeToStackIndex` is the contract of `U_SIZE_TO_STACK_INDEX`: the smallest class that fits. `MemoryPool` uses both.
- `stackIndexToSize` (lines 43-74) is commented out in the source, so it is not modelled.

### `MemoryPool.tla`

The allocator is single-threaded (spec.md section 5: not synchronised, one
owner), so each public call is one atomic action. The nested calls are
operators on a record `S = [stack, pfree, unmapped]` that return the new
record and their results. This keeps the whole handler, refill and growth
included, inside one action. Each recursive operator uses the result of its
nested call once and hands it to a non-recursive operator. This keeps
TLC's per-expression coverage bookkeeping small.

**State**

| Variable | Code |
|---|---|
| `mem_stack[i]` = `[pb, len, space, slots]` | `UStackMemoryPool::mem_stack[i]`. `slots` is the live prefix of the pointer array; class 0 has none, because its slots are its blocks. |
| `pfree` | `UFile::pfree` |
| `unmapped` | Ranges given to `madvise`/`munmap` |
| `held` | The blocks callers hold (environment) |
| `phase` | Before and after the start-up preallocation |
| `assertFailed` | A debug assertion of the squeeze failed |

Addresses are real byte addresses, laid out as the static arrays are laid
out. The heap starts at `HeapBase`.

**Operators and the code they translate**

| Operator | Code |
|---|---|
| `InitStack`, `Init` | The static initialisers (788-1008) |
| `Pop`, `PopTop` | `UStackMemoryPool::pop`: the refill when empty, then the pop itself |
| `Push` | `push` |
| `AllocateMemoryBlocks`, `MapClass0`, `AppendChunk` | `allocateMemoryBlocks(n)`: the class-0 branch, and the chunk appended by the other branch |
| `GrowPointerBlock`, `DeallocatePointerBlock` | Their namesakes |
| `Malloc` / `MallocN` (with `PoppedBlock`, `MappedChunk`, `PoppedChunk`) | The two `_malloc`s |
| `Free` | `_free` |
| `UPush` | `UMemoryPool::push` |
| `UAllocateMemoryBlocks` | `allocateMemoryBlocks(i, n)` |
| `ParseMemBlock`, `PreallocateStep`, `PreallocateFrom`, `Squeeze`, `SqueezeWhile`, `PushSecond` | `allocateMemoryBlocks(config)` |

The provider (`MMap`, `Deallocate` via `IsLastAllocation`,
`GetSizeAligned`) is modelled from its contract, because `file.cpp` is not
in the sources.

**Actions**

- `Preallocate(tokens)` is the start-up call with one configuration string. A token `NaN` stands for a character `strtol` stops at.
- `Allocate(num, type)` is a caller's `_malloc`.
- `Release(b)` is a caller's `_free` of a block it holds.

The operators whose names end in `NoCount`, `FreesNew`, `NoGrow`, `Down`
or `Below` are faulty variants of the mapped
operators. Each shows that a property detects a plausible bug.

### `AbstractPool.tla`

The contract of the facade: a new held block is at least `num*type` bytes
and disjoint from every held block, and `_free` removes exactly one held
block. `MC_MemoryPool` instantiates it on `held` and checks it as the
property `AbsSpec`: the detailed model refines it with the identity mapping
on `held`.

### `MC_MemoryPool.tla`

- `U_NUM_ENTRY_MEM_BLOCK = 2`, the value the code names for tests, so every class empties after two pops.
- A page of 64 bytes and the 64-bit table.
- Three workloads and the configuration strings.
- The constraint `HeapBound`, `pfree <= HeapLimit`, bounds how far the provider may advance.

### `MC_MemoryPoolAll.tla`

Extends `MC_MemoryPool` with a variable `workload` chosen in `Init` among
the three request workloads (pooled, mapped, in-place), each with its own
heap limit, and never changed. `WorkloadNext` is `NextFor` over that
workload's configuration strings and requests. One run thus checks the
three workloads, and its state space is the sum of theirs.

### `Timer.tla`

`UTimer` at the level of its two lists, written as sequences of nodes.
`first` is the active list, sorted by expiry, and `pool` is the free list.
Time is relative to now: `rem[a]` is alarm `a`'s expiry minus now, floored
at 0. `itimer` is `ITIMER_REAL`'s `it_value`, and `sigpending` is a
SIGALRM that has not been delivered yet. `mode` is the value `UTimer::init`
was given. It is chosen at `Init` from `Modes` and never changes.

| Action | Code |
|---|---|
| `Insert(a)` | `insert`: take the pool's head or `U_NEW` a node, then `insertEntry` (which calls `setCurrentTime`) |
| `Erase(a)` | `erase`: unlink `a`'s node and push it on the pool |
| `Clear` | `clear`: delete both lists |
| `GetTimeout` | `getTimeout` in NOSIGNAL mode: `first &&` expired, then `run` |
| `SetTimer` | `setTimer`, entered from the handler: `run`, then `setitimer` |
| `HandlerAlarm` | `handlerAlarm` on a pending SIGALRM (signal modes) |
| `RunStep(oneShot)`, `RunExit` | One iteration of `run`'s loop (`callHandlerTimeout`, with the alarm's `handlerTime()` result), and its exit |
| `Tick` | Time passes while no operation is running; the itimer counts down |

`crashed` records the null dereference of `run` on an empty list.
`Insert` is guarded by `~IsHandler(a)`: ULib's callers never insert an
alarm that is still scheduled (see the hazard at `timer.cpp:198`).

**Fairness.** `run`'s loop, once entered, finishes (`WF` of `RunStep` and
`RunExit`), and time passes (`WF` of `Tick`). In NOSIGNAL mode `timer.h`
says the program calls `getTimeout` every so often (`WF` of `GetTimeout`).
In the signal modes a pending SIGALRM is delivered (`WF` of
`HandlerAlarm`). Nothing obliges a program in the signal modes to call
`setTimer` after `insert`, so the liveness properties are stated for
NOSIGNAL mode only.

### `AbstractTimer.tla`

What `timer.h` promises: a set `active` of scheduled alarms with their
expiries. `Schedule`, `Cancel`, `CancelAll`, `Fire` (due alarms only:
deschedule a one-shot, re-arm a periodic alarm) and `Elapse` are its
actions. `FireFairness` says a due alarm does not stay unfired forever.
`MC_Timer` maps `active` to the alarms on the active list and `rem` to
`rem`. It checks `AbsSafety` (the abstract `Init` and `[][Next]`) in every
mode. The liveness of the detailed model is `DueAlarmEventuallyRun`.

### `TimerAsync.tla`

The same lists as linked nodes (`first`, `pool`, `next[n]`, `alarm[n]`).
`insert` and `erase` run one C statement at a time (`mpc`), and the
handler runs to completion between any two statements (`hpc`).

- `InsNew`/`InsTake`, `InsSetPool`, `InsCheck`, `InsWalk`, `InsLinkNext` and `InsLinkPtr` are `insert` and `insertEntry`.
- `EraseBegin`, `EraseWalk`, `EraseUnlink`, `EraseFree` and `ErasePush` are `erase`.
- `HandlerStart`, `HandlerStep` and `HandlerExit` are `handlerAlarm`, `setTimer`, `run` and `callHandlerTimeout`.

`SignalAnywhere` chooses whether the handler may run between any two
statements or only between operations. That depends on `UInterrupt`, which
is outside the sources, so both settings are checked.

### `Vsnprintf.tla`

One call of `u__vsnprintf` is one step. The C function's locals form a
record `c`: the rest of the format and of the `va_list`, the bytes written,
`bp`, `ret`, the flags, width, precision and sign, and three markers.
`under` means a byte was written before `buffer`. `over` means a padding
loop ran with a negative count. `stop` means the loop was left. Operators
follow the C labels:

| Operators | Code (`base.c`) |
|---|---|
| `Scan`, `CopyText`, `TextLen`, `Continue` | The `while (true)` loop: copy the text up to `%`, reset the per-conversion locals (1602-1628) |
| `RFlag`, `Reswitch` | `rflag`, `reswitch` and `dispatch_table` (1442-1534, 1630-1657) |
| `Minus`, `Asterisk`, `Period`, `Width`, `ScanDigits`, `LengthFlag` | `case_minus`, `case_asterisk`, `case_period`, `case_digit`, the length modifiers |
| `Cdefault` | `cdefault`: `%%`, `%?`, and `%` at the end |
| `ConvD`, `ConvX`, `ConvP`, `ConvC`, `ConvS`, `NoSign`, `Number` | `case_d`, `case_X`, `case_p`, `case_c`, `case_str`/`case_ustring_v`, `nosign`, `number` |
| `Digits`, `Grouped`, `NumDigits` | The digit loops of `number`, with the octal leading 0 and thousands grouping |
| `EmitField`, `PutChar`, `PutStr`, `PadLoop` | The label `next`: padding, sign or `0x` prefix, zeros, digits, left padding (2542-2621) |
| `ConvFormatted`, `UstringV`, `EscLoop`, `Counted` | `case_str` for `S`/`O` and `case_ustring_V`: the quoted, escaped string, capped by the precision, by `u_printf_string_max_length`, and by the room left in the buffer (1766-1873) |
| `Sprintc`, `CtrlBytes`, `CtrlLetter`, `Octal`, `Byte`, `Printable` | `u_sprintc`: C escapes for control bytes, quote and backslash, three octal digits for the rest (1285-1389) |
| `ConvDate`, `DateTime`, `DateFormat`, `Dec3` | `case_D`: the time (the argument under `#`, else `u_now` plus `u_now_adjust` except for width 8), the format the width selects, `u_strftime2`, and the `+n days` and `_millisec` suffixes (1964-2040) |

`ConvDate` calls `Strftime2` of `Strftime.tla` through `ST == INSTANCE
Strftime`. The call record carries the state `%D` reads outside the
arguments: `now` and `usec` (`u_now` after `U_gettimeofday`), `adjust`
(`u_now_adjust`) and `tz` (`tzname[u_daylight]`). It also carries `size`
(`buffer_size`) and `strmax` (`u_printf_string_max_length`), which `%S`
reads.

`PrintfContract.tla` is written from the C standard (7.21.6.1), not from
the code. `Printf(fmt, args)` is the string `snprintf` leaves in a large
buffer. Where the standard leaves the choice to the library, it follows
what ULib documents.

`MC_Base` (below) builds the calls:

- every combination of 11 flag strings, 3 widths (none, `6`, and `*` with -6) and 4 precisions (none, `.3`, `.0`, and `.*` with -1), with `d`, `u`, `o`, `x` and `X` on 0, a small value (-42 or 255) and 1234567;
- `%s`, `%c` and `%p` fields;
- the length modifiers (`%hd` of 40000 and `%hu` of 70000 truncate), `%%`, an unknown conversion, a trailing `%`, and a format with two fields;
- `%S` and `%O` with six precisions (none, `.2`, `.0`, and `.*` with 3, -1 and 0) on a plain string, one of quote, backslash, tab, `\001`, `~`, DEL and high bytes, one of control bytes, one with a 0 inside, and a null pointer, with `u_printf_string_max_length` 0 and 3; and `%#.*S` running past the 0 of a binary buffer;
- `%D` with widths 0 to 10: under `#` on 2001-09-09 01:46:40 UTC, and `%#2D` on 3661, 86399, 86401 and 90061 seconds (one second either side of a day; exactly one day, 86400, is the run `date_one_day`); without `#` at that instant in CET and in EST (a day back), with `tv_usec` 7000 and 999999.

### `Strftime.tla`

One call of `u_strftime1` is one step. The locals form a record: the rest
of the format, the bytes written, `maxsize`, the time `u_strftime_tm`, the
zone offset `u_now_adjust` and the zone name. `Loop` is the
`while (count < maxsize)` loop: `CopyText` copies the text up to `%`,
`Convert` reads the next byte and either dispatches it through
`dispatch_table` (`Dispatched`, `Field`, one CASE arm per `case_` label) or
goes to `cdefault` (`Cdefault`). `Num2Str16` is `U_NUM2STR16`; outside
0..99 it reads outside its table (`Garbage`). `DotD` is `sprintf("%.nd")`.
`TwelveHour` is `case_I`, `Zone` is `case_z`, with C's truncating `/` and
`%` (`CDiv`, `CRem`).

`Strftime2` is `u_strftime2`: `GmTime` (the `memset` and `gmtime_r` into
`u_strftime_tm`), then `Loop`. `GmTime` finds the year and month by CHOOSE
over POSIX's day counts. It is used as a pure operator by `%D` of
`Vsnprintf`.

`StrftimeContract.tla` is written from the C standard (7.27.3.5): each
conversion from its definition (week numbers by counting weekdays since 1
January), independently of the code's arithmetic. Where the standard leaves
a choice to the locale, it follows the comment above `u_strftime1`.

### `AtExit.tla` and `AbstractAtExit.tla`

`AtExit` holds `u_fns[NumFns]`, `u_fns_index`, the functions `u_exit`
called, and a phase. `UAtExit` scans for the function and appends it;
`UAtExitFull` is the same call when the array is full, which writes past it
(the model stops there). `UUnAtExit` nulls the highest slot holding the
function and leaves the index. `UExit` calls the non-null slots from the
top down (`CallOrder`). `AbstractAtExit` is the promise: a list of live
functions, a duplicate registration does nothing, and exit calls them last
registered first. `MC_Base` maps the slots below the index, without the
nulls, to `live`.

### `Num2Str.tla`

`u_num2str32` as operators: `Vec` is the `while (num >= 100U)` loop that
saves base-100 digits in `ui32vec`, `Lead` what is left of `num`, `Pairs`
the loop that writes them back from the top. `Num2Str32s` writes `-` and
formats the negation. `Convert` is one call of any of the four functions
and records the return value and how many entries of `ui32vec` were used.
`u_num2str64` delegates to `u_num2str32` for numbers up to `UINT_MAX`, and
those are the only numbers TLC holds.

### `HexDump.tla`

`Encode` writes each byte as two digits of `u_hex_lower`, high nibble
first. `Decode` reads pairs of digits in either case. For an odd length
the second digit of the last pair is the byte past the input, and the
model takes any nibble for it. `HexVal` stands for `u__hexc2int`, which is
defined in a header outside `src/`.

### `MC_Base.tla`

This module composes `Vsnprintf`, `Strftime`, `Num2Str`, `HexDump` and
`AtExit` by `INSTANCE ... WITH`, with each component's variables renamed.
Each component steps only while the others are at their start, so every
behaviour exercises one component and the state count is the sum of the
components' counts, not their product. It defines the bounded inputs and
the properties that compare each component with its reference
(`PrintfContract`, `StrftimeContract`, and the hex digits of `%02x`) and
`AtExit` with `AbstractAtExit`.

## 4. Runs

| Run | Config | Expect | What it shows |
|---|---|---|---|
| `pool_workloads` | `MC_MemoryPoolAll.cfg` | pass | The three workloads of `MC_MemoryPoolAll` after good preallocation strings, with up to 3 held blocks: requests of 20, 100 and 5000 bytes (class 1 refills from class 4, class 4 from class 6, pointer arrays grow, mapped blocks roll the provider's tail back); 4096 and 5000 bytes (class 9 refills from `mmap` itself, next to oversized blocks); 8 and 20 bytes (class 0 maps its in-place region, never given back, while class 1 grows). `NoAliasing`, `LiveMemoryMapped`, `StackWithinCapacity` and `AbsSpec` hold (110,931 states). |
| `squeeze_refill` | `..._squeeze_refill.cfg` | violation | `"5,0,0,-2"`: the squeeze's second pop refills class 4, and the merged block overlaps a free block (`NoAliasing`). |
| `grow_by_one` | `..._grow_by_one.cfg` | violation | `"0,0,0,0,3"`: growing class 5 by one block pops that block from class 5 itself, so `len` stays 2 (`PreallocateReachesTarget`). |
| `squeeze_pairs` | `..._squeeze_pairs.cfg` | violation | `"0,0,0,-4"`: spec.md section 6 says each squeezed pair of class 4 becomes one block of class 5. The second pair is squeezed with the `pstack` of class 5 read before the first pair was pushed, so class 4 ends with no blocks and class 5 with two, not four (`SqueezeMovesPairsUp`). |
| `timer_modes` | `MC_Timer.cfg` | pass | Three alarms (periods 1, 2, 2), three nodes, NOSIGNAL and SYNC. The lists stay sorted and partitioned (`NodeOwnership`, `Sorted`), `run` handles the head (`ItemIsFirst`), `setTimer` never disarms with alarms pending, a due alarm is eventually handled in NOSIGNAL mode (`DueAlarmEventuallyRun`), and every step is a step of `AbstractTimer` (`AbsSafety`; 24,418 states). |
| `timer_empty_run` | `MC_Timer_empty_run.cfg` | violation | SYNC: `insert`, `setTimer`, `erase`, then the SIGALRM runs `run` on an empty list (`NoRunOnEmptyList`). |
| `timer_async_safe` | `MC_TimerAsync_safe.cfg` | pass | The handler only between operations: the pointer surgery of `insert` and `erase` keeps both chains well formed (`ListsWellFormed`; 1,021 states). |
| `timer_async_corrupt` | `MC_TimerAsync_corrupt.cfg` | violation | The handler between two statements of `erase` frees the node `erase` is unlinking, and the node ends up on the pool twice (`ListsWellFormed`). |
| `base_pass` | `MC_Base.cfg` | pass | Each component of `MC_Base` alone. 2,012 `u__vsnprintf` calls equal the C reference and return its length (`OutputMatchesPrintf`, `ReturnIsLength`). `%S`/`%O` calls of a non-null string never write more than the buffer holds. In a 4096-byte buffer they print the quoted C escape of the string, cut where the precision or `u_printf_string_max_length` says, with `...` after a cut string; in a 200-byte buffer they print a prefix of it made of whole escapes, still closed by its quote, as the code's comment "compatibly with buffer size" allows (`FormattedStringIsEscaped`). The `%D` calls print `strftime` of the format documented for their width, at the documented time, in UTC from an independent `gmtime`, with the documented suffixes (`DateFieldMatchesStrftime`). 594 `u_strftime1` calls equal `strftime` (`OutputMatchesStrftime`). 56 `u_num2str*` calls equal `%d`/`%u`, and `ui32vec` never needs more than 4 entries (`Num2StrMatchesPrintf`, `DigitArrayInBounds`). 13 hexdump calls give `%02x` digits (`HexMatchesStandard`). `u_atexit`, `u_unatexit` and `u_exit` over 3 functions and the real 32 slots refine the registry (`AtExitRefinesRegistry`; 134,540 states). |
| `vsnprintf_prefix` | `MC_Base_vsnprintf_prefix.cfg` | violation | A `0x` prefix meeting exactly one byte of padding: `"=%#3x"` of 16 gives `"0x10"`, and `"=%#03x"` runs its zero loop from -1 (`OutputMatchesPrintf`). |
| `date_one_day` | `MC_Base_date_one_day.cfg` | violation | `%#2D` of exactly 86400 seconds in UTC prints `00:00:00` without the `+1 days` the documentation promises past a day (`DateFieldMatchesStrftime`). |
| `strftime_edges` | `MC_Base_strftime_edges.cfg` | violation | `%W` on a Monday, and `%z` in UTC and in India's zone (+05:30): Monday 1 January 2024 prints `00` where `strftime` prints `01`, UTC prints `-0000` for `+0000`, and the half hour is formatted as 1800 through the two-digit table (`OutputMatchesStrftime`; TLC reports whichever it meets first). |

### Why the bounds are enough

- **N = 2** makes every refill, chunk slicing, growth of a pointer array and provider tail reachable within a few calls. With the production value 32 the same code paths need 16 times as many calls.
- **Up to 3 held blocks** are enough to hold two blocks of one class while a third call refills or grows.
- **Workloads are split by which classes feed each other.** Classes that do not interact only multiply the state count, so `MC_MemoryPoolAll` checks the three workloads as three separate initial states of one run.
- **The heap limit of each workload** (77,824, 98,304 and 65,792 bytes) allows several refills and growths. Each limit was raised until the state count stopped revealing new refill or growth shapes within the time budget.

- **Timer: three alarms and three nodes.** They give a list of three, a pool that is used, and a monitor re-inserted in front of another alarm. Periods 1 and 2 make alarms fall due at different times. Two alarms with the same period make ties.
- **TimerAsync: two alarms and three nodes.** These are enough for `erase` to be interrupted by a handler that handles the same alarm, and for `insert` to walk past a node.
- **Vsnprintf:** each flag is combined with every width and precision form. The values cover zero (where precision 0 prints nothing), a value with a sign, and a value long enough for grouping and to fill the width. The calls are independent, so each is one step from the start.
- **`%S`/`%O`:** every branch of `u_sprintc` is met (named escapes, `\e`, quote and backslash, octal below 32 and from 127 up, plain bytes), every way the loop stops (the 0 byte, the precision, `u_printf_string_max_length`), and the null pointer's three outcomes.
- **`%D`:** every width, both sides of the width-8 test and of `#`, a zone east and one west that moves the date back a day, the `+n days` suffix with and without whole days, and milliseconds with and without leading zeros.
- **Strftime:** every conversion letter and the ten `%D` formats on five dates: a Monday 1 January (week-number edges), 31 December, 29 February, noon and midnight (the 12-hour clock), and a Monday in July. Three whole-hour zones, east and west of UTC and summer time, in `base_pass`; UTC and India's +05:30 under `%z` in `strftime_edges`. `maxsize` is 36, larger than the longest output.
- **Num2Str:** the numbers where the digit count or the base-100 digit count changes (9/10, 99/100/101, 999/1000), a ten-digit number that fills `ui32vec`, the largest `int32_t`, and negatives.
- **HexDump:** bytes 0, 127, 128, 255 and mixed strings; decode inputs in lower, upper and mixed case.
- **AtExit:** 3 functions and all 32 slots. Because `u_unatexit` keeps the index, register and unregister cycles reach the full array; three functions give a duplicate, a re-registration after withdrawal and an order of three.

Between them, the passing runs fire every action and every disjunct of the
next-state relations: `Preallocate`, `Allocate`, `Release`, every `Timer`
and `TimerAsync` action, `Vsnprintf`, `Strftime1`, `Convert`,
`HexdumpEncode`, `HexdumpDecode`, and every `AtExit` action including
`UAtExitFull`.

### Fairness and liveness

- **Allocator and `u__vsnprintf`.** Every call completes within the action that models it, so there is nothing to wait for and no fairness is assumed. The allocator runs check deadlock. `MC_Base.cfg` does not, because a call that has returned, and `u_exit`, leave nothing to do. The same holds for the `u_strftime1`, `u_num2str*` and hexdump calls. `AtExit` is checked for safety only: nothing in the code forces `u_exit` to run.
- **`Timer`.** See the fairness under `Timer.tla` above. `MC_Timer.cfg` does not check deadlock: once `run` has crashed on an empty list, the model stops.
- **`TimerAsync`.** Only safety is checked.

### Findings

The findings are recorded in `PROJECT.json` (`findings`).

- **`squeeze_refill`, `squeeze_pairs`, `grow_by_one`:** the allocator's configuration string can alias memory, move fewer squeezed pairs up than it took down (`memory_pool.cpp` 474), or fail to grow a class.
- **`timer_empty_run`:** `run` dereferences an empty list when an armed itimer outlives the alarm it was armed for.
- **`timer_async_corrupt`:** nothing blocks SIGALRM while `erase` rewrites the lists.
- **`vsnprintf_prefix`:** the `0x` prefix takes two bytes of padding when only one is there (`base.c` 2587-2594).
  - Right-adjusted blank padding writes over the byte before the field, or `buffer[-1]` at the start of the buffer.
  - The `0` and `-` flags drive a padding loop from -1.
  - `%p` with a width one byte too wide is affected the same way.
- **`strftime_edges`:** `case_W` counts the week of a Monday one short (`base.c` 878). `%z` prints `-` for UTC, and for a half-hour zone it formats the remainder in seconds through the two-digit table, reading outside it (`base.c` 1040).
- **`date_one_day`:** `%#2D` of exactly one day prints `00:00:00` without `+1 days`, because the test is `t > U_ONE_DAY_IN_SECOND` (`base.c` 2005).

Some disagreements were found while modelling but no run checks them:

- **An odd squeeze count.** `"0,0,0,-1"` ends with the counter at 2, which fails the debug assertion (`memory_pool.cpp` 466).
- **Inserting an alarm that is still scheduled** breaks the order of the list. ULib's callers do not do this, and `Timer` excludes it.
- **`%#.0o` of 0** prints nothing, where C prints `0`. `MC_Base` leaves those calls out.
- **`%S` with no precision in a small buffer:** `remaining` subtracts 4 bytes for each of the 128 possible bytes up front, so with fewer than 573 bytes left the loop stops after one byte (`base.c` 1826). With a 200-byte buffer, `"%S"` of `"ab"` prints `"a"`. The code's comment promises only output "compatibly with buffer size", and `FormattedStringIsEscaped` checks that the cut output is a prefix of whole escapes, closed by its quote, within the buffer.
- **`%#.*S`** reads `cp[n]` after the loop even when `n` has reached the end of a binary buffer (`base.c` 1855).
- **`%#4D`** prints the milliseconds of whatever instant last refreshed `u_now`, since `#` skips `U_gettimeofday` (`base.c` 2028).
- **`u_num2str32s` and `u_num2str64s`** return the digits' count without the `-` they wrote (`base.c` 1126).

These are listed as hazards in `PROJECT.json`.

## 5. Not modelled

- **`gmtime_r` and the clock:** `gmtime_r` is the C library's. `Strftime!GmTime` follows POSIX's definition of seconds since the Epoch, for times from 1970 to 2038. `MC_Base` checks it against a year-by-year count. The time `U_gettimeofday` reads is an input of each `%D` call.
- **`u_num2str64` above `UINT_MAX` and `INT32_MIN`:** TLC's integers stop at 2^31 - 1, and negating `INT32_MIN` is undefined behaviour.
- **`u_hexdump_decode` on an odd length:** it reads one byte past the input; the model allows any value and states no property.
- **`u_strftime1` with `maxsize` smaller than a field:** a conversion writes whole fields past `maxsize` (`base.c` 758); the bounded calls are those of `case_D`, which fit.
- **`u__vsnprintf`'s other conversions:** the floating ones (`sprintf` does the work), the other ULib extensions (`%B`, `%C`, `%M`, `%V`, `%W`, `%H`, `%P`, `%Q`, `%R`, `%T`, `%U`, `%Y` and the rest), and a null `%s`. These read the host, the process, `errno` or ULib objects. The model sends these characters to `cdefault`, and the input sets never use them.
- **`buffer_size`:** only debug assertions check it. Only `%S`/`%O` read it, for the remaining-space cut, which `MC_Base` reaches with 200-byte calls; every other call gets 4096 bytes.
- **`UTimer`'s `UEventTime` clock:** expiries are kept relative to now in whole ticks. The absolute `timeval` arithmetic of `UEventTime` is not modelled.
- **Huge pages, `rlimit_memalloc`/`rlimit_memfree`, the `':'` part of the configuration string:** these live in the provider, outside the sources.
- **Debug counters, tracing, `paint`/`printInfo`, the `bzero` memset, the `check` routine:** they do not change what is allocated.
- **The `strtol` read past the terminator** of a short configuration string (line 425) is undefined behaviour. `ConfigsAssumption` restricts the model to strings it does not reach.
- **`uint32_t` overflow of `num * type_size`:** it needs sizes beyond the modelled address range.
- **The rest of `base.c` and the HTTP/dir-walk headers:** formatting and system-call wrappers without shared state, or declarations without code.
