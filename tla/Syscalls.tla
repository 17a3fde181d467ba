------------------------------- MODULE Syscalls -------------------------------
(***************************************************************************)
(* The system-call layer over the VFS: do_syscalls (src/syscalls.c) with   *)
(* the argument fetch of src/cpu_context.c and strzcpy_from_user of        *)
(* src/uacess.c, and sys_open, sys_read, sys_write (src/syscall/kunistd.c) *)
(* over the descriptor table of the calling process.  The kernel clients  *)
(* of VFS.tla (mounts, opens, readdir, driver registration) go on between *)
(* the system calls; every call, a system call included, is one atomic    *)
(* step on the single core.                                               *)
(*                                                                         *)
(*  - fd: process->fd, FdMax slots, each a descriptor of st.ofds or NULL.  *)
(*    struct process is declared in process.h, which is not in the         *)
(*    repository, so the size is a parameter; the table is a global, so   *)
(*    it starts all NULL;                                                  *)
(*  - alive: the process has not called exit.                              *)
(*                                                                         *)
(* The user's strings are the paths and names of VFS.tla.  A length the   *)
(* user passes matters only through strzcpy_from_user's test of len + 1,  *)
(* computed in Bits-bit unsigned arithmetic; a length shorter than the    *)
(* string truncates it to another path, which the user could have passed. *)
(* kmalloc may return NULL (KAlloc.tla); oom says that the first          *)
(* allocation of the call does.  do_syscalls returns 0 whatever the case  *)
(* returned, so no result reaches the user and none is kept.             *)
(***************************************************************************)
EXTENDS VFS

CONSTANTS
  FdMax,        \* the slots of process->fd
  Bits,         \* width of __u32 (32 on the build)
  UserSpace,    \* PAGING_USER_SPACE_SIZE, at that width
  UserLens,     \* lengths the user passes for its strings
  UserFds       \* descriptor numbers the user passes to read and write

ASSUME UserSpace < 2 ^ Bits

VARIABLES fd, alive
svars == <<st, listed, calls, fd, alive>>

FdSlots == 0 .. FdMax - 1

(* strzcpy_from_user(dst, src, len + 1): -1 unless 1 <= max_len <=        *)
(* PAGING_USER_SPACE_SIZE; else nocheck_user_strzcpy writes dst, which    *)
(* is undefined when the kmalloc that gave dst returned NULL. *)
StrzcpyFromUser(s, dstNull, len) ==
  LET maxLen == (len + 1) % (2 ^ Bits)
  IN  CASE maxLen < 1 \/ maxLen > UserSpace -> R(s, -1)
        [] dstNull -> R([s EXCEPT !.fault = "null_copy"], -1)
        [] OTHER -> R(s, 0)

(* sys_open: the first NULL slot of process->fd, searched with no bound:  *)
(* with every slot used the loop reads past the table.  The slot gets     *)
(* vfs_open's result, NULL included.  Returns [s, fd]. *)
SysOpen(s, f, path, creat) ==
  LET free == {i \in FdSlots : f[i] = NULL}
  IN  IF free = {} THEN [s |-> [s EXCEPT !.fault = "fd_overflow"], fd |-> f]
      ELSE LET i == CHOOSE i \in free : \A j \in free : i <= j
           IN  Then(VfsOpen(s, path, creat), LAMBDA r :
                 [s |-> r.m, fd |-> [f EXCEPT ![i] = r.v]])

(* sys_read, sys_write: process->fd[fd] with no test of fd; an empty slot *)
(* gives -1, a descriptor whose read operation is NULL (root_vfs,         *)
(* root_devfs and block devices) -1, else the driver's read or write.     *)
(* sys_write tests read, not write.  Only the unchecked index changes     *)
(* what the model holds. *)
SysReadWrite(s, f, n) ==
  IF n \notin FdSlots THEN [s EXCEPT !.fault = "fd_out_of_table"] ELSE s

(* SYSCALL_ID_OPEN: path = kmalloc(len + 1), not tested; the copy; on a  *)
(* failed copy break, leaving path allocated; sys_open; kfree(path). *)
OpenSyscall(s, f, path, creat, len, oom) ==
  Then(StrzcpyFromUser(s, oom, len), LAMBDA c :
    IF c.v # 0 THEN [s |-> c.m, fd |-> f] ELSE SysOpen(c.m, f, path, creat))

(* SYSCALL_ID_MOUNT: syscall_get7args; kernel_src (when the user gives a  *)
(* device), kernel_target, kernel_fstype and kernel_args are kmalloc'd    *)
(* without a NULL test and copied in; the copy of the source is not      *)
(* tested, the copy of the target is; then vfs_mount.  A source the copy *)
(* refused leaves kernel_src uninitialised: a device string the user     *)
(* could have passed, or none. *)
MountSyscall(s, dev, name, type, len, oom) ==
  IF oom /\ dev # NULL THEN [s EXCEPT !.fault = "null_copy"]
  ELSE Then(StrzcpyFromUser(s, oom, len), LAMBDA c :
         IF c.v # 0 THEN c.m ELSE VfsMount(c.m, dev, name, type))

----------------------------------------------------------------------------
(* The process's calls.  A system call runs after kernel_main's boot:    *)
(* vfs_init, devfs_init, then vfs_mount(NULL, "dev", "DevFS").  ext2_init *)
(* and the mount of "/dev/hda1" as EXT2 are left out: mount_EXT2 reads    *)
(* the disk through the block-device layer (blockdev_register_disk is     *)
(* declared, not defined) and installs operations defined nowhere, so the *)
(* model has no EXT2 type and boots without that mount.  vfs_mount has no other *)
(* caller than the mount system call, so the kernel's own steps are the   *)
(* other calls of VFS.tla, which leave fd and alive alone. *)

BootState == VfsMount(DevfsInit(VfsInit), NULL, "dev", "DevFS")

SInit == /\ st = BootState
         /\ listed = [o \in {} |-> <<>>]
         /\ calls = 0
         /\ fd = [i \in FdSlots |-> NULL]
         /\ alive = TRUE

SysCall == Call /\ alive

KernelStep ==
  /\ UmountCall \/ OpenCall \/ CloseCall \/ PathCall \/ ReaddirCall \/ RegisterCall
  /\ UNCHANGED <<fd, alive>>

OpenSys ==
  /\ SysCall /\ HasFreeOfd
  /\ \E path \in Paths, creat \in BOOLEAN, len \in UserLens, oom \in BOOLEAN :
       \E r \in {OpenSyscall(st, fd, path, creat, len, oom)} :
         /\ st' = r.s
         /\ fd' = r.fd
  /\ UNCHANGED <<listed, alive>>

ReadWriteSys ==
  /\ SysCall
  /\ \E n \in UserFds : st' = SysReadWrite(st, fd, n)
  /\ UNCHANGED <<listed, fd, alive>>

MountSys ==
  /\ SysCall /\ HasFreeOfd /\ st.ninst < MaxInsts
  /\ \E dev \in Devices, name \in MountNames, type \in FsTypes,
        len \in UserLens, oom \in BOOLEAN :
       st' = MountSyscall(st, dev, name, type, len, oom)
  /\ UNCHANGED <<listed, fd, alive>>

(* case 3: sys_exit gives back the kernel stack and page tables, marks   *)
(* the process PROC_STOPPED and switches to task 0; nothing closes its    *)
(* descriptors. *)
ExitSys ==
  /\ SysCall
  /\ alive' = FALSE
  /\ UNCHANGED <<st, listed, fd>>

SNext == KernelStep \/ OpenSys \/ ReadWriteSys \/ MountSys \/ ExitSys

SSpec == SInit /\ [][SNext]_svars

----------------------------------------------------------------------------
(* Properties.                                                             *)

STypeOK ==
  /\ st.fault \in VfsFaults \cup {"null_copy", "fd_overflow", "fd_out_of_table"}
  /\ StateOK
  /\ fd \in [FdSlots -> OfdIds \cup {NULL}]
  /\ alive \in BOOLEAN

====
