# TLA+ models of desiros

These modules model the memory-management core of desiros (`src/mem/`), the
kernel's C library (`src/klibc.c`), its virtual file system with devfs
(`src/vfs.c`, `src/fs/devfs.c`) and the system calls a process makes into it
(`src/syscalls.c`, `src/syscall/kunistd.c`, `src/uacess.c`), and the
process table with its scheduler and wait queues (`src/schedule.c`,
`src/kwaitq.c`, the slot search of `sys_exec`, `sys_exit`), and check them with TLC. Every definition is written from the C source and names
the lines it stands for in `PROJECT.json` ("map").

## The system and its parts

| part | source | role |
|---|---|---|
| physical frame allocator | `src/mem/physmem.c` | per-frame reference counts, a LIFO free list, a used list, and a back-reference to the kernel range mapping each frame |
| kernel page-table driver | `src/mem/paging.c` | `paging_init` identity-maps all memory; `paging_map` / `paging_unmap` take and drop frame references |
| kernel virtual range allocator (kvmm) | `src/mem/kvmm.c` | sorted, circular free and used lists of ranges over `[KVMM_BASE, KVMM_TOP)`; split on allocation, coalesce on release |
| slab allocator | `src/mem/kvmm_slab.c` | object caches; its "cache of ranges" holds kvmm's own range structures |
| kmalloc | `src/mem/kmalloc.c` | size-class caches over the slab allocator |
| user VM manager | `src/mem/uvmm.c` | address spaces, arenas, page faults, copy-on-write |
| zero-page resource | `src/drivers/zero.c` | shared zero frame; private and shared anonymous pages |
| exec, exit, processes | `src/syscall/`, `src/process.c` | create and destroy address spaces |
| klibc | `src/klibc.c` | memory and string routines, `itoa`, the `kprintf` and `snprintf` formatters |
| VFS | `src/vfs.c` | file-system types, the mount list, path resolution, open file descriptions, the path calls, `vfs_readdir` |
| devfs | `src/fs/devfs.c` | the driver table; the root of devfs lists and looks up the registered drivers |
| ext2 | `src/fs/ext2/` | declared, but its VFS operations are defined nowhere |
| scheduler, wait queues | `src/schedule.c`, `src/kwaitq.c` | round-robin context switch from the timer interrupt; blocking and waking on wait queues |
| system calls | `src/syscalls.c`, `src/syscall/kunistd.c`, `src/uacess.c`, `src/cpu_context.c` | `do_syscalls` fetches the arguments, copies the user's strings in, and calls `sys_open`, `sys_read`, `sys_write`, `vfs_mount`, `sys_exit` or `uvmm_brk` |
| drivers, CPU setup | the rest of `src/` | hardware I/O, descriptor tables |

The parts call each other in a cycle:

1. `kvmm_new_range` needs a range structure, so it calls `kvmm_cache_alloc` on the cache of ranges.
2. That cache may need a new slab, so it calls `cache_grow`.
3. `cache_grow` needs a one-page range for the slab, so it calls `kvmm_new_range` again.

Deleting a range can empty a slab of ranges. That slab's own range is then put on a worklist inside `kvmm_del_range` and freed in a later iteration.

The kernel runs on one core, and none of these calls blocks. Each client
call is therefore one atomic step, and the calls nested inside it are
composed as mutually recursive operators.

## Modules

- **PhysMemOps.tla**: the allocator's operations as pure operators over the
  record `[ref, free, used, krange]`. Each returns `[m |-> state, v |-> result]`:
  - `SetupState`: `physmem_setup`;
  - `RefNew`, `RefAt`, `Unref`;
  - `GetKvmmRange`, `SetKvmmRange`.

  Frames are page numbers `1..RamTop-1`. Page 0 is NULL.
- **PhysMem.tla**: the allocator on its own. A kernel holding references
  allocates, references any address, and drops references. It also drops
  references on pages it does not hold, as `paging_unmap` does with identity
  mappings.
- **FrameAlloc.tla**: what the allocator promises its callers, in terms of reference counts
  alone. `PhysMem` maps `refcnt <- pm.ref` onto it, and the run checks
  `AbstractSpec` as a property.
- **Paging.tla**: the kernel page table, as a function from virtual pages to frames (0 means
  not present):
  - `PagingInit`: the identity map, plus the frames taken for the tables;
  - `PagingMap`, `PagingUnmap`, `UnmapInterval`, `VirtualToPhysical`.
- **KVMM.tla**: kvmm together with the slab cache of range structures, over one
  state record `st = [pm, pt, tables, rs, free, used, slabs, slist, cfree, err]`.
  - `rs` holds every range structure ever allocated, keyed by its slot
    `<<slab page, index>>`. A freed structure keeps its contents.
  - `free` and `used` are the two lists, as sequences.
  - `slabs`, `slist` and `cfree` are the cache's slabs, its slab list and its `nb_free_obj`.
  - `err` records an execution that leaves C semantics: a NULL dereference, a merge of an
    unlinked node, or recursion past `MaxDepth`.

  It defines one operator per C function:
  - `NewRange`, `MapPages`, `DelRange`/`DelLoop`/`Merge`, `LookupRange`;
  - `CacheAlloc`, `CacheGrow`, `FreeObject`, `CacheFree`, `ReleaseSlab`, `ReleaseStructRange`;
  - `SetupPrepare`, `CreateRange`, `CreateZones` (`kvmm_setup`);
  - `BootState`: physmem_setup, then paging_init, then kvmm_setup, in the order `kernel.c` runs them.

  The clients' actions are `KvmmAlloc(n)` and `KvmmFree(v)`. `KvmmFree` applies only to an
  address the client got back.

  A C function with local variables is split into small step operators. For example, `NewRange` calls `NewRangeAt`, which calls `SplitWith` and then `Split`. An intermediate result used more than once is passed to the next step as an argument instead of being bound in a LET. This matters because TLC's coverage reporting unfolds every reference to a LET definition separately, and that grows exponentially along the call chain. The map in PROJECT.json gives the lines of each step.
- **UVMM.tla**: one user address space with its /dev/zero resources, over one state
  record `st`:
  - `arenas`: the arena list (sorted in C only by construction), as a sequence of
    records `[id, start, size, prot, flags, res, off]`; `id` is the arena
    structure's identity, since the C code keeps arena pointers across calls
    that move, merge or unlink them (`Cur` re-reads an arena through it);
  - `res`: the `zero_mapped_resource`s (`ref_cnt`, the list of shared pages);
  - `pt`: the user page table, a flat map from user pages to frames;
  - `pm`: the frame allocator of PhysMemOps; `vm`: `vm_total` and `vm_shrd`;
  - `nstructs`: arena structures taken from `cache_of_arena` and not given back;
  - `heapStart`, `heapSize`; `err` ("hang" when the page-fault handler spins);
    `zeroWritten`: a user write reached the zero page.

  Addresses are page numbers modulo `2^W`, which keeps the `__u32` wrap-around
  of the C code: page-aligned 32-bit arithmetic is exactly page arithmetic
  modulo the number of pages. The operators follow the C functions:
  `FindEnclosingOrNext`, `FindFirstFreeInterval`, `AsAccount`
  (`as_account_change_of_arena_prot`), `UvmmUnmap` (`UnmapLoop` with one step per
  case of the loop), `UvmmMap` (`MapFixed`/`MapFree`, the merges, `NewArena`),
  `DevZeroMap`, `ZeroNoPage`, `UvmmLazyLoading`, `UvmmResize` (`MustMove`,
  `ResizeMove` with `RemapLoop`, `ResizeInPlace`), `UvmmBrk` and `UvmmDeleteAs`.
  The actions are the callers: exec's stack map is `Init`; `MapCall`,
  `UnmapCall`, `ResizeCall`; `BrkCall` (the brk system call); `Access` (a user
  access, which faults into `uvmm_lazy_loading` when the entry is not present);
  `DeleteAs` (exec's delete on failure, after which nothing runs).
- **KLibc.tla**: `src/klibc.c` as pure operators that follow the loops of the
  code:
  - `MemsetLoop`, `MemmoveDown`/`MemmoveUp` (the direction test of `memmove`), `MemcpyLoop`;
  - `StrEnd` (strlen), `StrcpyLoop`, `StrncpyCopy`/`StrncpyPad`, `StrzcpyLoop`,
    `StrcmpLoop`, `StrchrnulLoop`;
  - `ItoaLoop`;
  - `DoPrintfLoop` with one step operator per state 0-4 of `do_printf`, and
    `Emit`/`Emit2`/`EmitField`;
  - `VLoop`/`VStep` with `PUTCHAR` and `HexLoop` (`vsnprintf`).
  - Memory is a function from a few addresses to bytes, and a character is its ASCII code.
  - Integers have `Bits` bits, so every signed/unsigned conversion wraps as on the
    i386 build, only at a smaller width. int, long and unsigned long are one width, short is half of it and long long is double.
  - Each action is one call with every argument drawn from a small set. `last`
    records the call and its result, and each property compares that result with a reference
    definition of what the C library promises.
- **KSlab.tla**: the general slab caches of `kvmm_slab.c` and the kmalloc front
  end, over `st = [caches, slabs, ranges, clist, kmc]`:
  - the cache of caches, the cache of OFF_SLAB slab structures, `kvmm_cache_create`;
  - `init_cache`, `cache_add_slab`, `cache_grow` (ON_SLAB and OFF_SLAB),
    `kvmm_cache_alloc`, `free_object`, `cache_release_slab`, `kvmm_cache_free`;
  - `kmalloc_setup`, `kmalloc`, `kfree`.

  The nested calls are mutually recursive operators, and each one's result is passed on
  through `Then(e, F(_))`, so it is evaluated once. A slab's free list is kept
  as the addresses pushed since `cache_add_slab` built it, followed by the index
  of the first object never handed out. That is the same list, without
  writing out hundreds of untouched objects. The range allocator is taken at
  its interface here, as first fit over free pages; KVMM.tla models it in detail.
- **KAlloc.tla**: what `kmalloc`/`kfree` promise (include/kmalloc.h and their
  callers):
  - a block overlaps no live block;
  - `kfree` of a block returns 0;
  - `kfree` of anything else fails and changes nothing.

  KSlab's history `given` of live blocks is mapped onto its `blocks`
  (`INSTANCE KAlloc WITH blocks <- given`), and the kslab run checks `KA!Spec`
  as a property.
- **VFS.tla**: `vfs.c` and `devfs.c` over one record `st = [drivers, fsList,
  mounts, ninst, nlink, icount, ofds, fault]`. `vfs_mount` opens its device with
  `vfs_open` inside the same step, so the state is one record and the
  operators return `R(state, return code)`. They are:
  - `VfsInit` and `DevfsInit`;
  - `Lookup` and `OpenNamei`: path resolution, with the `LOOKUP_PARENT` case;
  - `DentryOpen`, `VfsOpen`, `VfsClose`;
  - `MountFrom`/`VfsMount` and `VfsUmount`;
  - the path calls `VfsStat` .. `VfsRename`;
  - `DevfsRegister`, `DevfsReaddirFrom`, `VfsReaddirFrom`.

  The abstractions:
  - A path is the sequence of its components.
  - A node (dentry) is `VRoot`, `DevRoot` or a driver name.
  - Descriptors are a few ids. `dentry_open` takes the smallest free one.
  - Only `i_count` of the two shared directory inodes is kept. A device inode is
    made afresh by every `devfs_lookup`.

  `fault` records the first undefined behaviour a call reaches, and after it no
  action is enabled, because what the kernel does next is not defined. There are two:
  - `vfs_open` with O_CREAT calls a NULL `mknod`;
  - `vfs_umount` reads the instance it just freed.

  `setattr` reads an uninitialised `flags` field. The model chooses its
  LOOKUP_PARENT bit nondeterministically. The harness variable `listed` keeps, for each
  open directory descriptor, the slots its readdir calls returned and the
  slots that were in use when it was opened.
- **Syscalls.tla** (EXTENDS VFS): the system calls of one process over the
  VFS. It adds `fd`, the process's descriptor table (`process->fd`, `FdMax`
  slots), and `alive`, which is false after `sys_exit`. Its operators are:
  - `StrzcpyFromUser`: the length test of `strzcpy_from_user` on `len + 1` in
    `Bits`-bit unsigned arithmetic. The copy writes through NULL when the
    `kmalloc` that gave the buffer failed;
  - `SysOpen`: the first NULL slot, searched with no bound, gets `vfs_open`'s result;
  - `SysReadWrite`: `process->fd[fd]` with no test of `fd`;
  - `OpenSyscall` and `MountSyscall`: the `SYSCALL_ID_OPEN` and
    `SYSCALL_ID_MOUNT` cases of `do_syscalls`, with their unchecked `kmalloc`s.

  The actions are `OpenSys`, `ReadWriteSys`, `MountSys` and `ExitSys`, plus
  `KernelStep`, which is VFS.tla's calls other than `MountCall`. `vfs_mount`'s
  only callers are `kernel_main` and the mount system call. `SInit` is
  `BootState`, the VFS after `kernel_main`'s `vfs_init`, `devfs_init` and
  devfs mount on "dev" (kernel.c:113-131). `ext2_init` (kernel.c:127, which
  registers EXT2 at ext2.c:35) and the mount of "/dev/hda1" as EXT2 are left
  out. `mount_EXT2` reads the disk through the block-device layer, whose
  `blockdev_register_disk` is declared but not defined, and it installs
  operations that are defined nowhere. So the model has no EXT2 type, and the
  user's mounts pass "DevFS" or a name that no type has. Three more faults
  stop the model: `null_copy` (a copy into a failed `kmalloc`), `fd_overflow`
  (`sys_open` with a full table reads past it) and `fd_out_of_table` (read or
  write of a descriptor number past the table). `do_syscalls` returns 0 whatever
  happened, so no result is kept. The strings are VFS.tla's paths and names,
  and a length matters only through the length test.
- **Sched.tla**: the process table and the scheduler, over one record `k`:
  - `state`, `cur` and `numProc` are `p_list[i].state`, `current` and `num_proc`;
  - `ctx[p]` says whether the registers saved for `p` came from an interrupt
    frame ("ok") or from a C caller's frame ("garbage");
  - `hasAs[p]` is `p_list[p].address_space` being set;
  - `queue[q]` holds the pids of the entries on wait queue `q`;
  - `pc[p]` is "user", "exec" (between the two halves of `sys_exec`) or
    "spin", and `pending[p]` is the slot that `p`'s `sys_exec` took.

  Its operators are:
  - `SwitchToTask`;
  - `PickNext`, the round robin of `schedule()`;
  - `KeepsCurrent`, the `num_proc` test that returns without a switch;
  - `SaveContext`, `Schedule` and `Reschedule`;
  - `ExecBegin` and `ExecEnd`, the two halves of `sys_exec`;
  - `Exit`, which is `sys_exit`;
  - `KwaitqWait`, and `KwaitqWakeup` with its loop `WakeFrom`.

  The actions are:
  - `Tick`, the timer's `schedule()`;
  - `ExecCall` and `ExecReturn`, the two halves of `sys_exec`;
  - `ExitCall`;
  - `WaitCall` and `WakeupCall`.

  The system call gate is a trap gate (idt.c:60), so the timer may preempt
  `sys_exec` between its slot search and the `PROC_READY` that ends it.
  `process.h` is not in the repository. `MaxPid` stands for `MAXPID`, and the
  zeroed `p_list` is all `PROC_STOPPED`. `Init` is `kernel_main`'s `sys_exec`
  of the first program, which may fail.
- **MC_*.tla / *.cfg**: the layouts for TLC.

`debug()` is not defined in the repository. It is modelled as a diagnostic
that returns, because the code after every `debug()` call handles the failure.

## Runs

| run | cfg | expect | shows |
|---|---|---|---|
| physmem | MC_PhysMem.cfg | pass | the lists match the counts; the allocator implements FrameAlloc |
| kvmm | MC_KVMM.cfg | pass | up to 10 alloc/free calls keep every kvmm/slab invariant |
| kvmm_alias | MC_KVMM_Alias.cfg | violation | the rollback frees the page-table frame |
| kvmm_split | MC_KVMM_Split.cfg | violation | a stale split leaves a zero-sized free range |
| uvmm | MC_UVMM.cfg | pass | exec, brk, faults and delete keep frame counts, resource counts and vm statistics exact |
| uvmm_api | MC_UVMM_Api.cfg | pass | shared/fixed maps, partial unmaps and moving resizes keep resource counts and vm statistics exact |
| uvmm_brk_overlap | MC_UVMM_BrkOverlap.cfg | violation | one brk maps the heap over the stack |
| uvmm_resize_move | MC_UVMM_ResizeMove.cfg | violation | a moving resize loses the arena and leaks a frame reference |
| klibc | MC_KLibc.cfg | pass | every klibc routine gives the C library's result on every input of the small sets, at 8-bit width |
| kslab | MC_KSlab.cfg | pass | kmalloc/kfree keep the slab caches consistent, never hand out a live block, give every page back, and implement KAlloc |
| vfs | MC_VFS.cfg | pass | a process's open, read, write, mount and exit calls, with the kernel's other VFS calls between them, list devfs exactly |
| sched | MC_Sched.cfg | pass | preemption, exec, exit and the wait-queue calls keep one process running, and every ready process eventually runs |

The kvmm pass run's properties:
- `FreeRangesNonEmpty`: no free range is zero-sized.
- `FreeRangesExact`: the free and used ranges partition the space.
- `SortedAndCoalesced`: both lists are sorted and no two free ranges are adjacent.
- `ListsHoldLiveStructs`: no freed structure is still linked in a list.
- `SlabAccounting`: the slab counts and the order of the slab list are consistent.
- `SlabRangeLinks`: each slab and its range point at each other.
- `OwnedRangesBacked`: every range a client holds is found again by
  `kvmm_free` and backed by distinct referenced frames.
- `MappedFramesHeld`: no frame in use is on the free list or shared.
- `NoFatal`: the recursion stays bounded and nothing NULL is dereferenced.

The uvmm pass runs' properties:
- `FrameRefsMatchMappings`: every frame's count is its boot count plus one per
  present user page and one per shared-list entry of a live resource.
- `ResourceRefsMatchArenas`: each live resource's `ref_cnt` is the number of
  arenas mapping it, and no arena maps a freed resource.
- `VmStatsMatchArenas`: `vm_total` and `vm_shrd` equal the sizes of the arenas
  they count.

The klibc run's properties:
- `MemoryCopiesExact`: memset, memmove and memcpy write exactly their
  destination, and memmove copies the source as it was even when the regions overlap.
- `StringRoutinesExact`: strcpy, strncpy, strzcpy, strlen, strcmp and
  strchrnul give the C library's results. strzcpy keeps at most `len - 1`
  characters and a NUL inside `len` bytes.
- `ItoaRoundTrip`: itoa writes the number it was given, the smallest int included.
- `KprintfMatchesStd`: each `kprintf` directive prints what printf prints, including
  sign, digits and padding.
- `SnprintfTruncates`: snprintf writes at most `len` bytes, the prefix of the
  whole output and a NUL, and returns the whole length.

The kslab run's properties:
- `SlabLayoutFits`: in every slab, on the build's sizes, the objects end before the slab
  structure (ON_SLAB) or before the end of the range (OFF_SLAB).
- `SlabsConsistent`: after any sequence of nested calls, these hold:
  - the slab lists hold exactly each cache's slabs, free ones first;
  - the free counts are the sums of the slabs' counts;
  - every slab and its range point at each other;
  - the cache of slab structures holds exactly the OFF_SLAB slabs' structures.
- `LiveBlocksHeld`: a block kmalloc returned and kfree has not taken back is
  an allocated object large enough, or a whole-page range bound to no slab.
- `NothingHeldWhenIdle`: once every block is freed, every page is back in kvmm.
  This includes the slabs of the cache of slab structures.
- `AllocatorRefined`: `KA!Spec`, the refinement of KAlloc.

The vfs run's properties (`STypeOK` is VFS's type invariant with the system-call faults and the table):
- `DevfsReaddirExact`: successive readdir calls on one devfs descriptor list
  each driver slot at most once and in slot order, and each listed slot is used. Every
  driver registered when the descriptor was opened is listed once the cursor has passed
  it. This holds whatever buffer sizes and registrations come between the calls.
  Nothing in `src/` calls `devfs_readdir` or the `devfs_register_*` functions
  (`ide_register_devices` goes through `blockdev_register_disk`, which is not
  defined). So this property, and the driver-table part of `STypeOK`, check
  devfs as a library for the drivers that would register with it.

`i_count` is kept but has no property. open_namei's empty-path branch
(vfs.c:165) and `dentry_open` both increment it for one open, and
`vfs_close` decrements it once, so the count of root_vfs only grows. Nothing in
the kernel reads `i_count`, so the extra increment changes no behaviour.

The sched run's properties:
- `RunningIsCurrent`: until undefined behaviour, `current` is the only
  `PROC_RUNNING` process.
- `ReadyRuns` (liveness): a `PROC_READY` user process is eventually current,
  unless the kernel reaches undefined behaviour first.

`FrameRefsMatchMappings` is not checked in uvmm_api. With moving resizes,
it is broken by the bug the uvmm_resize_move run shows.

Each property of a passing run has a mutant in `PROJECT.json`. A mutant is a
plausible bug in the mapped code, and TLC finds that property violated when
the mutant replaces the code.

### Findings

1. **Identity alias (kvmm.c:287, 366-369).** `paging_init` maps every
   page to the same frame without taking references. `kvmm_new_range`
   unmaps each page before mapping it, which drops a reference on whatever
   frame the identity mapping names. The rollback after running out of
   frames unmaps pages that were never mapped. In the 9-frame layout, two calls
   are enough for the page-table frame to end up on the free list. The same
   mechanism maps one frame at two pages, and then `kvmm_free` finds the
   wrong range.
2. **Stale split (kvmm.c:226-263).** `free_range` is found before
   `kvmm_cache_alloc`, which can grow the range cache through a nested
   `kvmm_new_range` that splits the same range. The outer call then splits the
   already-shrunk range and leaves a zero-sized free range. The comment at
   kvmm.c:372-376 says coalescing is only correct when no range is zero-sized.
3. **Heap over the stack (uvmm.c:291).** `find_first_free_interval` tests
   `hint + size <= arena->start` in 32-bit arithmetic. `heap_start` is 0
   because `uvmm_init_heap` has no caller, so the first brk passes the new
   top as the size. When that size reaches the top of the address space, the sum
   wraps and the heap is mapped over the stack.
4. **Moving resize loses the arena (uvmm.c:597-644).** The `uvmm_map` of the
   move (fixed, same resource) unmaps part of the arena being moved and merges
   the new arena into it. The remap loop maps a present page onto itself, and
   `paging_map` takes a second reference. The final `uvmm_unmap(arena->start,
   arena->size)` then removes the whole merged arena: the resize returns OK
   with nothing mapped, and a frame reference is left that no mapping holds.
5. **Fault outside any arena (uvmm.c:1106).** `uvmm_lazy_loading` passes the
   fault to the arena at or *after* the address and never checks that the
   address lies inside it. MC_UVMM_FaultOutside.cfg shows it (the
   `MappedPagesInArenas` invariant fails). It is kept beside the runs but is
   not one of them; the hazard at uvmm.c:1106 names it.

Modelling met more disagreements. They are listed as hazards in `PROJECT.json`, or
given here, rather than kept as runs, because each is reached by a single call
that a unit test of that function would show:
- **Setup overlap (kvmm.c:583-600).** The zone `[stack_top, first slab of
  ranges)` already contains the first slab of caches, which gets its own used
  range. spec.md says ranges never overlap.
- **Resize reads the wrong neighbour (uvmm.c:550).** `next_arena =
  arena->prev_in_as`, so growing an arena in place never looks at its
  successor, and the two overlap.
- **Writable zero page (zero.c:200, paging.c:113).** `paging_map` always sets
  `P_WRITE`, so the zero page that read faults map "in READ ONLY" is writable.
  uvmm.h says it is always read-only.
- The wrap branch of `find_first_free_interval` (uvmm.c:305) places a map over
  the arena that follows it.
- The remap loop's destination (uvmm.c:616-628) can wrap into kernel space.
- The arena structures given back with `kvmm_free` leak, because `kvmm_free` returns
  -4 for slab objects.
- **VFS undefined behaviour.** These calls stop the VFS model at the undefined behaviour:
  - `vfs_open` with O_CREAT of a name devfs cannot find calls devfs's NULL `mknod` (vfs.c:213);
  - `vfs_umount` reads `aux->instance->device` after `umount_devfs` freed
    the instance (vfs.c:291).
- `vfs_readdir` (vfs.c:484-503) counts its cursor over `mount_list` from the
  head, and `vfs_mount` inserts at the head. A mount between two calls
  therefore lists a mount twice. It also writes an entry whenever
  `count < size`, past the end of the buffer. No property states
  what the root directory listing promises, since no caller reads it yet.

- **System calls.**
  - `sys_open` (kunistd.c:35) searches `process->fd` with no bound. Nothing
    closes a process's descriptors: there is no close system call, and
    `sys_exit` leaves the table alone. So after the table's size of opens, the next
    open reads, and then writes, past the table. The vfs run reaches this as
    `fd_overflow`.
  - `sys_read` and `sys_write` index the table with the user's number
    unchecked, and `sys_write` tests the descriptor's `read` operation, not `write`.
  - The open and mount cases do not test `kmalloc` for NULL before the copy
    (syscalls.c:151-166, 207), and a failed target copy leaks `kernel_target`.
    `len = 0xFFFFFFFF` makes `len + 1` wrap to 0, and the copy refuses it.
- **Scheduler, exec and wait queues.** TLC reaches each of these in the sched
  run, either as a fault that stops the model or as a state:
  - `sys_exec` takes the first `PROC_STOPPED` slot (exec.c:70) and marks it
    `PROC_READY` only at exec.c:130. Between the two, the timer can switch to
    another process whose `sys_exec` takes the same slot. The second of them to
    reach `process_set_address_space` spins in `while(1)` (process.c:31-33),
    which is `pc` "spin".
  - `sys_exit` leaves `address_space` set. The next `sys_exec` that reuses
    the slot spins in the same place.
  - `kwaitq_wait` calls `schedule()` from C. `schedule()` first sets the
    `PROC_BLOCKED` waiter back to `PROC_READY` (schedule.c:90), then saves
    words of `kwaitq_wait`'s frame as its registers. The next switch to it
    resumes a garbage context (`resume_garbage`). `kwaitq_wakeup`'s
    `reschedule()` does the same to the waker.
  - With every slot in use, `sys_exec`'s search reads `p_list[MAXPID]`, past the
    table (`plist_overflow`).

  These faults stop the model, so `RunningIsCurrent` and `ReadyRuns` are about
  the behaviours before them.

## Bounds

- **Main layout (MC_KVMM).** Pages are units.
  - 20 frames and 12 kernel virtual pages: BIOS page 2, kernel pages 3-4, the
    slab of caches on page 5, the slab of ranges on page 6, and free pages
    1 and 7-11.
  - One frame for the page tables.
  - Nine range structures per slab. Setup then uses 7 of them without
    growing, as the real cache (203 per slab) does not grow during setup.
    Later calls grow the cache, fill slabs, empty them and release them.
  - Requests of 1-2 pages.
  - At most 10 client calls (`CallBound`, a state constraint).
  - Nesting capped at `MaxDepth` = 3.

  Within these bounds TLC reaches every branch of `NewRange`, `CacheAlloc`,
  `DelLoop` and the worklist. There are more frames than kvmm pages, as on the
  real machine, where `[KVMM_BASE, KVMM_TOP)` is 16 KiB to 1 GiB (mm.h:79-80) and the identity map covers all of it, so the identity alias is kept
  out of the pass run, and the alias run shows it.
- **Small layouts.** MC_KVMM_Alias (9 frames, 10 pages) and MC_KVMM_Split
  (10 frames, 10 pages) make memory run short. The first fit is then the tail
  range that the nested grow also splits.
- **UVMM (MC_UVMM).** `W = 4`: 16 pages, user space 8..15
  (`USER_OFFSET` is 1 GB of 4 GB in the real layout; here it is 8 of 16 pages).
  - The stack is at 12..14, and page 15 stands for the page-table mirror above it.
  - Frames 1..6 with the BIOS and kernel pages. The zero page is frame 6, which
    leaves three frames for write faults, so a write fault can also run out of frames.
  - brk to 2, 8, 9, 10 and 13 covers the first map, growth, shrinking, unmapping and
    the overflowing map.
  - At most 6 calls, 3 resources, 4 arena structures (`ArenaCap`, so the -3 paths run).
  - `MaxLoop` = 6 bounds the unmap loop, more than the arenas that exist.
- **UVMM (MC_UVMM_Api).** The same layout, with 8 arena structures and 5 calls.
  - Maps: a shared map of 3 pages at 8, a fixed map of 2 pages at 9, a read-only map of 1 page.
  - Unmaps: [9,10) and [8,10).
  - Three resizes with ARENA_REMAP_MAYMOVE.

  These bounds reach the split, shift, trim and removal cases of the unmap
  loop, the single merges, and the move with its remap. The double merge
  (`MergeBoth`) is not reached: it needs three pieces of one resource around a
  hole that a move fills exactly.
- **PhysMem.** 6 frames with BIOS and kernel pages, and at most 2 references
  held per frame.

- **KLibc (MC_KLibc).** `Bits = 8`, four bytes of memory holding 'A', 'B'
  and NULs.
  - ints 0, 7, -1, -128 and 127, and long longs 0, -1, -32768 and 1000: these
    reach every sign and wrap case, the smallest int among them.
  - every kprintf directive the kernel uses, with the flags, widths and modifiers
    `do_printf` parses;
  - every snprintf conversion at buffer lengths 0, 1, 3 and 5, which gives an
    empty buffer, a buffer with room for the NUL only, truncation, and a fit.

  The code depends on the width only through `% 2^Bits`, so 8 bits shows every
  wrap case that 32 bits has.
- **KSlab (MC_KSlab).** The real sizes of the i386 build: 4 KiB pages, a
  28-byte `struct kslab`, a 44-byte `struct kslab_cache` and the whole
  kmalloc table. The pool is nine kernel pages, and the requests are 8, 4096 and 20000
  bytes:
  - kmalloc(8) goes to an ON_SLAB class;
  - kmalloc(4096) goes to an OFF_SLAB class of four-page slabs holding four objects;
  - kmalloc(20000) is five pages of kvmm.

  With at most 5 live blocks, a slab fills, a second slab of the 4096-byte cache is
  grown, and the pool runs out.
- **VFS and system calls (MC_VFS).** 3 driver slots with 2 names, mount points "dev" and
  "mnt", 3 descriptor ids, 2 instances, at most 6 calls, and readdir buffers of 15 and 40 bytes.
  - The descriptor table has 2 slots, so with 3 descriptor ids the table can fill
    while another open still succeeds, and a mount or kernel client can hold a
    descriptor beside the table's.
  - `Bits = 8` and a user space of 192 bytes (3 GB of 4 GB in the build).
    Length 2 passes the copy; 255 wraps `len + 1` to 0 and is refused.
  - read and write pass descriptor 0 and 2, one slot past the table.
  - A devfs entry is 8 bytes plus its name, so 15 bytes hold one entry and 40 bytes hold
    all of them.
  - The paths cover the root, the mount, a driver, ".", a path past a
    driver, a path under another mount and a name no mount has.
  - The devices are NULL and "/dev/hda".

  The run starts from the boot state, with "dev" mounted. That is enough to
  register the third slot after a descriptor is opened, fill the driver table,
  fill the process's table,
  mount devfs at two points, open the root both through a mount and as the
  empty path, and split a listing across calls.

- **Scheduler (MC_Sched).** `MaxPid` = 4 (pid 0 and three user slots), one
  wait queue, `nb_process` 1 and 2, and at most 8 calls. Timer ticks are not
  counted. With three user slots, two processes can be mid-exec on one slot
  while the third runs the timer. The table fills, so the search reads past
  it. A wakeup with 2 walks two entries of the list.

## Fairness

The memory, klibc, VFS and system-call modules assume no fairness. Each call
there is atomic and made by a client that may stop at any time, so nothing
promises that something eventually happens.

Sched assumes weak fairness of `Tick`, the timer's `schedule()`. This is
justified as follows:
- the PIT keeps raising IRQ 0, and `isr_clock_int` handles it;
- `switch_to_task` sets IF in the eflags it returns with (schedule.c:45), so
  every process runs with interrupts enabled;
- the calls that run with interrupts off are single steps of the model.

This rests on code that is not in the repository. `isr_clock_int`
(interrupt.c:34-45) sends no end-of-interrupt to the PIC, so the assembly
entry stub that calls it must do so, and that stub is not in `src/`.

`Tick` is therefore enabled in every state below a fault, and it cannot be
postponed for ever. The model assumes the order the code intends, in which
`sti` comes before `kernel_main`'s final loop (see below). Nothing is fair
about the calls themselves: a process may stop calling at any time.

Deadlock is checked for the kvmm, physmem and kslab runs: a client can always call
`kvmm_alloc` or `kfree` until the bound stops exploration. Three runs set `CHECK_DEADLOCK FALSE`:
- The UVMM runs, because the kernel really stops in two places: a failed page
  fault spins in `while(1)` (interrupt.c:70), and after `uvmm_delete_as` the
  address space is gone.
- klibc, where each behaviour is one call on one memory contents, and stops there.
- vfs, which stops at the call bound and at the first undefined behaviour, and
  where after `sys_exit` only the kernel's calls remain.
- sched, which stops at the first undefined behaviour.

## Not modelled, and the plan

- **Slab allocator.** `kvmm_cache_destroy` and the `min_free_objs > 0`
  branch of `kvmm_cache_create` are left out. Their only trigger is a create with
  `min_free_objs > 0`, and every caller passes 0.
- **UVMM** leaves out:
  - the statistics `phys_total` and `pgflt_*`, which nothing reads;
  - `paging_pd_create` and `paging_pd_add_pt`: the user table is flat, and
    page-table allocation is not modelled;
  - the failure of `cache_of_zero_mapped_pages`;
  - more than one address space;
  - `binfmt_elf32_map`, which the repository does not define.

  `kerrno.h` is missing, so `-EPERM` is modelled as -1.
- **VFS** leaves out:
  - the drivers' own open, read and write;
  - O_TRUNC, because every modelled instance leaves `setattr` NULL;
  - the memory that `strdup` and `kmalloc` take for names and dentries.

  The root directory listing of `vfs_readdir` has no property; see the findings.
- **ext2.** The operations `mount_EXT2` installs (`ext2_lookup`,
  `ext2_mknod`, `ext2_read`, ...) are declared in `ext2_internal.h` and
  defined nowhere. The helpers that exist read on-disk blocks, and the
  allocation helpers are static with no caller. There is nothing to run.
- **Scheduler and wait queues.** Sched does not model:
  - the register values themselves: only whether the saved registers came
    from an interrupt frame is kept;
  - the tick prescaler, because 99 of 100 ticks change nothing else;
  - `kwaitq_init`, `kwaitq_dispose`, `kwaitq_is_empty` and
    `kwaitq_change_priority`, which have no caller and change only the list.

  `kwaitq` itself has no caller in the repository. The wait calls are modelled
  as a user process's kernel code would make them.
- **klibc.** `strdup` (kmalloc plus strcpy, with no test of NULL) and the
  console output of `kprintf` are left out.
- **System calls** leave out:
  - the print case (2), which changes no modelled state;
  - exec (case 1), whose ELF loader `binfmt_elf32_map` is not defined (its
    slot search and process-table changes are in Sched);
  - `sys_seek` and `sys_stat`, which `do_syscalls` never calls;
  - a `kmalloc` failure other than the first of a call;
  - the drivers' `read` and `write`, as in VFS.

  The brk system call is UVMM's `BrkCall`.
- **Drivers, CPU setup, userland.** These are hardware I/O, descriptor tables
  and user-space stubs. `kernel.c`'s memory boot order is KVMM's `BootState`,
  and its VFS boot is Syscalls' `BootState`. `kernel_main` never reaches `sti`:
  it loops in `while(1)` before it (kernel.c:152-154), with interrupts off since
  kernel.c:91. `sys_exec` only marks the process `PROC_READY` (exec.c:130),
  so in this build the timer never calls `schedule()` and no process runs.
  The UVMM and Syscalls models check the calls as the code defines them, for
  the order the code intends, in which `sti` comes before the loop.
- **Next.** Composition with exec/exit and several address spaces sharing
  the zero page and frames. That needs the code that frees a process's pages,
  which is not in the repository.
