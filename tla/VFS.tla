--------------------------------- MODULE VFS ---------------------------------
(***************************************************************************)
(* The virtual file system of src/vfs.c and the device file system of     *)
(* src/fs/devfs.c, as kernel clients call them: vfs_mount, vfs_umount,    *)
(* vfs_open (sys_open), vfs_close, the path calls (vfs_stat, vfs_unlink,  *)
(* ..., vfs_rename), readdir on a directory descriptor and the           *)
(* registration of drivers with devfs.                                     *)
(*                                                                         *)
(* Each call is one atomic step: the kernel runs on one core and nothing   *)
(* here blocks.  The state is one record st, so that vfs_mount can open   *)
(* its device with vfs_open inside the same step:                          *)
(*  - drivers: devfs's driver_list, slots 0 .. MaxDrivers-1;               *)
(*  - fsList: fs_list, the registered file system types, newest first;    *)
(*  - mounts: mount_list, newest first, [name, inst, device];             *)
(*  - ninst: the number of instances made by a mount;                      *)
(*  - nlink: root_vfs.d_inode->i_nlink (an unsigned char);                *)
(*  - icount: i_count of the two shared directory inodes, root_vfs's and  *)
(*    root_devfs's.  A device inode is made afresh by every devfs_lookup  *)
(*    and only the descriptor opened on it ever sees it;                   *)
(*  - ofds: the open file descriptors, [node, inst, pos];                  *)
(*  - fault: "none", or the first undefined behaviour a call reached.     *)
(*    The model stops there: what the kernel does next is not defined.    *)
(*                                                                         *)
(* A path is the sequence of its components after a leading '/', so       *)
(* strlen(pathname) <= 1 is exactly the empty path.  get_next_part_path   *)
(* skips repeated slashes, so only the components matter.  A node (a      *)
(* dentry) is VRoot, DevRoot or the name of a driver.                       *)
(*                                                                         *)
(* ext2 is not among the types: its instance operations (ext2_lookup,     *)
(* ext2_mknod, ...) are declared in ext2_internal.h but defined nowhere,   *)
(* so vfs_mount(..., "EXT2") finds no registered type here.               *)
(***************************************************************************)
EXTENDS Integers, Sequences, FiniteSets
LOCAL INSTANCE SequencesExt

CONSTANTS
  MaxDrivers,     \* MAX_DRIVERS
  DriverNames,    \* names drivers register under
  MountNames,     \* mount points passed to vfs_mount
  Paths,          \* paths passed to the path calls, as component sequences
  Devices,        \* device paths passed to vfs_mount, or NULL
  FsTypes,        \* file system type names passed to vfs_mount
  ReadSizes,      \* buffer sizes passed to readdir
  OfdIds,         \* the descriptors that can be open at once
  MaxInsts,       \* bound on the mounts made
  NULL            \* a model value: no device, no descriptor

VRoot == "vroot"                 \* root_vfs
DevRoot == "devroot"             \* root_devfs
MVFS == 0                        \* mvfs, the instance of root_vfs
DirentHead == 4 + 2 + 1 + 1      \* d_ino, d_reclen, d_type and the NUL

R(m, v) == [m |-> m, v |-> v]

(* The value of e handed to the continuation F (see KSlab). *)
Then(e, F(_)) == CHOOSE y \in {F(x) : x \in {e}} : TRUE

----------------------------------------------------------------------------
(* Boot: vfs_init then devfs_init (init_driver_list, vfs_register_fs).   *)

InitDriverList ==
  [i \in 0 .. MaxDrivers - 1 |-> [used |-> FALSE, name |-> NULL, type |-> "chr"]]

VfsRegisterFs(s, fs) == [s EXCEPT !.fsList = <<fs>> \o @]

VfsInit ==
  [drivers |-> <<>>, fsList |-> <<>>, mounts |-> <<>>, ninst |-> 0,
   nlink |-> 1, icount |-> [n \in {VRoot, DevRoot} |-> 0],
   ofds |-> [o \in {} |-> 0], fault |-> "none"]

DevfsInit(s) == VfsRegisterFs([s EXCEPT !.drivers = InitDriverList], "DevFS")

----------------------------------------------------------------------------
(* Names.                                                                  *)

(* find_driver: the first used slot with the name, or -1. *)
FindDriver(s, name) ==
  LET hits == {i \in DOMAIN s.drivers : s.drivers[i].used /\ s.drivers[i].name = name}
  IN  IF hits = {} THEN -1 ELSE CHOOSE i \in hits : \A j \in hits : i <= j

(* devfs_lookup: a fresh device inode and dentry for a registered driver *)
(* of that name, whatever the parent dentry; NULL otherwise. *)
DevfsLookup(s, name) == IF FindDriver(s, name) = -1 THEN NULL ELSE name

(* get_mnt_from_path: the first mount of mount_list with the name, or 0. *)
GetMnt(s, name) ==
  LET hits == {i \in DOMAIN s.mounts : s.mounts[i].name = name}
  IN  IF hits = {} THEN 0 ELSE CHOOSE i \in hits : \A j \in hits : i <= j

(* lookup(nb): walks the components left in rest with the instance's     *)
(* lookup, devfs_lookup, which finds the name among the drivers whatever *)
(* the parent.  "." is skipped before the LOOKUP_PARENT test; with        *)
(* LOOKUP_PARENT the last component is left in last.  Returns            *)
(* [rc, node, last].                                                       *)
RECURSIVE Lookup(_, _, _, _)
Lookup(s, node, rest, lp) ==
  IF rest = <<>> THEN [rc |-> 0, node |-> node, last |-> <<>>]
  ELSE LET name == Head(rest)
           r == Tail(rest)
       IN  CASE name = "." -> Lookup(s, node, r, lp)
             [] r = <<>> /\ lp -> [rc |-> 0, node |-> node, last |-> <<name>>]
             [] DevfsLookup(s, name) = NULL -> [rc |-> -1, node |-> node, last |-> r]
             [] OTHER -> Lookup(s, DevfsLookup(s, name), r, lp)

(* open_namei: the first component names a mount, whose root            *)
(* (devfs_getroot: root_devfs) starts the walk; else the empty path is    *)
(* root_vfs, whose i_count it increments; else -2.  Returns               *)
(* R(next state, [rc, node, mnt, last]).                                  *)
OpenNamei(s, path, lp) ==
  LET first == IF path = <<>> THEN "" ELSE Head(path)
      rest == IF path = <<>> THEN <<>> ELSE Tail(path)
      m == GetMnt(s, first)
  IN  CASE m # 0 /\ rest = <<>> /\ lp ->
             R(s, [rc |-> 0, node |-> DevRoot, mnt |-> s.mounts[m].inst, last |-> <<>>])
        [] m # 0 ->
             Then(Lookup(s, DevRoot, rest, lp), LAMBDA l :
               R(s, [rc |-> l.rc, node |-> l.node, mnt |-> s.mounts[m].inst,
                     last |-> l.last]))
        [] path = <<>> ->
             R([s EXCEPT !.icount[VRoot] = @ + 1],
               [rc |-> 0, node |-> VRoot, mnt |-> MVFS, last |-> <<>>])
        [] OTHER -> R(s, [rc |-> -2, node |-> VRoot, mnt |-> MVFS, last |-> <<>>])

----------------------------------------------------------------------------
(* Descriptors.                                                            *)

(* dentry_open: i_count++ on the dentry's inode and a new descriptor at   *)
(* position 0 on the mount's instance. *)
DentryOpen(s, node, mnt) ==
  LET id == CHOOSE o \in OfdIds \ DOMAIN s.ofds :
              \A p \in OfdIds \ DOMAIN s.ofds : o <= p
      s1 == IF node \in {VRoot, DevRoot} THEN [s EXCEPT !.icount[node] = @ + 1] ELSE s
  IN  R([s1 EXCEPT !.ofds = (id :> [node |-> node, inst |-> mnt, pos |-> 0]) @@ @], id)

(* vfs_open: open_namei with LOOKUP_PARENT, then lookup of the last       *)
(* component.  With O_CREAT a missing name goes to the instance's mknod,  *)
(* which vfs_open calls without the NULL test the other calls make: devfs *)
(* provides none.  O_TRUNC calls setattr, which devfs and mvfs leave       *)
(* NULL and vfs_open tests.  The driver's open of a device is outside.    *)
VfsOpen(s, path, creat) ==
  Then(OpenNamei(s, path, TRUE), LAMBDA nb :
    IF nb.v.rc # 0 THEN R(nb.m, NULL)
    ELSE Then(Lookup(nb.m, nb.v.node, nb.v.last, FALSE), LAMBDA l :
           CASE l.rc = 0 -> DentryOpen(nb.m, l.node, nb.v.mnt)
             [] creat -> R([nb.m EXCEPT !.fault = "null_mknod"], NULL)
             [] OTHER -> R(nb.m, NULL)))

(* vfs_close: i_count-- and the descriptor freed. *)
VfsClose(s, o) ==
  LET n == s.ofds[o].node
      s1 == IF n \in {VRoot, DevRoot} THEN [s EXCEPT !.icount[n] = @ - 1] ELSE s
  IN  [s1 EXCEPT !.ofds = [p \in DOMAIN @ \ {o} |-> @[p]]]

----------------------------------------------------------------------------
(* Mounts.                                                                 *)

(* mount_devfs: a new instance; the device descriptor is not used. *)
MountDevfs(s) == R([s EXCEPT !.ninst = @ + 1], s.ninst + 1)

(* vfs_mount: every registered type of that name is mounted: the device   *)
(* is opened with vfs_open(device, O_RDWR), mount_devfs makes the         *)
(* instance, which keeps the descriptor, the mount goes at the head of    *)
(* mount_list and root_vfs gains a link. *)
RECURSIVE MountFrom(_, _, _, _, _)
MountFrom(s, i, dev, name, type) ==
  IF i > Len(s.fsList) THEN s
  ELSE IF s.fsList[i] # type THEN MountFrom(s, i + 1, dev, name, type)
  ELSE Then(IF dev = NULL THEN R(s, NULL) ELSE VfsOpen(s, dev, FALSE), LAMBDA o :
         Then(MountDevfs(o.m), LAMBDA mi :
           MountFrom([mi.m EXCEPT
                        !.mounts = <<[name |-> name, inst |-> mi.v, device |-> o.v]>> \o @,
                        !.nlink = (@ + 1) % 256],
                     i + 1, dev, name, type)))

VfsMount(s, dev, name, type) == MountFrom(s, 1, dev, name, type)

(* vfs_umount: umount_devfs frees the instance; the next line reads       *)
(* aux->instance->device from the freed object, whose first words the     *)
(* slab allocator has overwritten with its free-list links.  The mount    *)
(* stays on mount_list.  No match: returns 1. *)
VfsUmount(s, name) ==
  IF GetMnt(s, name) = 0 THEN s ELSE [s EXCEPT !.fault = "umount_reads_freed"]

----------------------------------------------------------------------------
(* The path calls.  devfs and mvfs provide none of mkdir, mknod, unlink,  *)
(* rmdir, setattr or rename, and these calls test for NULL, so what they  *)
(* do is their open_namei. *)

VfsStat(s, path) == OpenNamei(s, path, FALSE).m

(* vfs_unlink, vfs_rmdir, vfs_mknod: open_namei with LOOKUP_PARENT; on    *)
(* success unlink, rmdir only after a second lookup, which devfs_lookup   *)
(* makes without a lasting effect. *)
VfsUnlink(s, path) == OpenNamei(s, path, TRUE).m
VfsRmdir(s, path) == OpenNamei(s, path, TRUE).m
VfsMknod(s, path) == OpenNamei(s, path, TRUE).m

(* vfs_mkdir: -EEXIST if the whole path resolves; else open_namei again  *)
(* with LOOKUP_PARENT. *)
VfsMkdir(s, path) ==
  Then(OpenNamei(s, path, FALSE), LAMBDA nd :
    IF nd.v.rc = 0 THEN nd.m ELSE OpenNamei(nd.m, path, TRUE).m)

(* vfs_chmod, vfs_chown, vfs_utimes: nb.flags is never set, so whether    *)
(* LOOKUP_PARENT is in it is whatever the stack held: lp is chosen. *)
VfsSetattr(s, path, lp) == OpenNamei(s, path, lp).m

(* vfs_rename: open_namei of the old path with LOOKUP_PARENT; the new     *)
(* path is resolved only when the instance has rename. *)
VfsRename(s, old) == OpenNamei(s, old, TRUE).m

----------------------------------------------------------------------------
(* devfs.                                                                  *)

(* Mutant: the slot loop runs to i <= MAX_DRIVERS. *)
DevfsRegisterPastEnd(s, name, type) ==
  LET free == {i \in 0 .. MaxDrivers : i = MaxDrivers \/ ~s.drivers[i].used}
      i == CHOOSE i \in free : \A j \in free : i <= j
      d == [used |-> TRUE, name |-> name, type |-> type]
  IN  R([s EXCEPT !.drivers = [j \in DOMAIN s.drivers \cup {i} |->
                                IF j = i THEN d ELSE s.drivers[j]]], 0)

(* devfs_register_chardev, devfs_register_blkdev: the first unused slot; *)
(* -1 when all MAX_DRIVERS are used. *)
DevfsRegister(s, name, type) ==
  LET free == {i \in DOMAIN s.drivers : ~s.drivers[i].used}
  IN  IF free = {} THEN R(s, -1)
      ELSE LET i == CHOOSE i \in free : \A j \in free : i <= j
           IN  R([s EXCEPT !.drivers[i] = [used |-> TRUE, name |-> name, type |-> type]], 0)

(* Mutant: the cursor moves past an entry that does not fit. *)
RECURSIVE DevfsReaddirFromSkip(_, _, _, _, _)
DevfsReaddirFromSkip(s, i, count, size, acc) ==
  IF i >= MaxDrivers \/ count >= size THEN [pos |-> i, got |-> acc]
  ELSE IF ~s.drivers[i].used THEN DevfsReaddirFromSkip(s, i + 1, count, size, acc)
  ELSE LET reclen == DirentHead + Len(s.drivers[i].name)
       IN  IF count + reclen > size THEN [pos |-> i + 1, got |-> acc]
           ELSE DevfsReaddirFromSkip(s, i + 1, count + reclen, size, Append(acc, i))

(* devfs_readdir: from slot pos, each used slot's entry while it fits in  *)
(* size; an entry that does not fit stops the call at its slot.  Returns  *)
(* [pos, got: the slots listed]. *)
RECURSIVE DevfsReaddirFrom(_, _, _, _, _)
DevfsReaddirFrom(s, i, count, size, acc) ==
  IF i >= MaxDrivers \/ count >= size THEN [pos |-> i, got |-> acc]
  ELSE IF ~s.drivers[i].used THEN DevfsReaddirFrom(s, i + 1, count, size, acc)
  ELSE LET reclen == DirentHead + Len(s.drivers[i].name)
       IN  IF count + reclen > size THEN [pos |-> i, got |-> acc]
           ELSE DevfsReaddirFrom(s, i + 1, count + reclen, size, Append(acc, i))

(* vfs_readdir: skips pos mounts from the head of mount_list, then one    *)
(* entry per mount while count < size, without testing that the entry    *)
(* fits.  Returns [pos, got: the mount names listed]. *)
RECURSIVE VfsReaddirFrom(_, _, _, _, _)
VfsReaddirFrom(s, c, count, size, acc) ==
  IF c >= Len(s.mounts) \/ count >= size THEN [pos |-> c, got |-> acc]
  ELSE VfsReaddirFrom(s, c + 1, count + DirentHead + Len(s.mounts[c + 1].name), size,
                      Append(acc, s.mounts[c + 1].name))

Readdir(s, o, size) ==
  LET pos == s.ofds[o].pos
  IN  IF s.ofds[o].node = VRoot
      THEN VfsReaddirFrom(s, IF pos < Len(s.mounts) THEN pos ELSE Len(s.mounts), 0, size, <<>>)
      ELSE DevfsReaddirFrom(s, pos, 0, size, <<>>)

----------------------------------------------------------------------------
(* The calls.  listed: for each open descriptor, what its readdir calls   *)
(* have returned, in order (got), and the devfs slots used when it was    *)
(* opened (present).  calls counts the calls made.                       *)

CONSTANT MaxCalls     \* bound on the calls of a behaviour

VARIABLES st, listed, calls
vars == <<st, listed, calls>>

Init == /\ st = DevfsInit(VfsInit)
        /\ listed = [o \in {} |-> <<>>]
        /\ calls = 0

(* A call: the kernel has not reached undefined behaviour, and the bound. *)
Call == /\ st.fault = "none"
        /\ calls < MaxCalls
        /\ calls' = calls + 1

HasFreeOfd == DOMAIN st.ofds # OfdIds

UsedSlots(s) == {i \in DOMAIN s.drivers : s.drivers[i].used}

MountCall ==
  \E dev \in Devices, name \in MountNames, type \in FsTypes :
    /\ Call /\ HasFreeOfd /\ st.ninst < MaxInsts
    /\ st' = VfsMount(st, dev, name, type)
    /\ UNCHANGED listed

UmountCall ==
  \E name \in MountNames :
    /\ Call
    /\ st' = VfsUmount(st, name)
    /\ UNCHANGED listed

OpenCall ==
  /\ Call /\ HasFreeOfd
  /\ \E path \in Paths, creat \in BOOLEAN :
       \E r \in {VfsOpen(st, path, creat)} :
         /\ st' = r.m
         /\ listed' = IF r.v = NULL THEN listed
                      ELSE (r.v :> [got |-> <<>>, present |-> UsedSlots(st)]) @@ listed

(* The kernel closes only what it opened (the descriptors in listed),    *)
(* never a mount's device. *)
CloseCall ==
  \E o \in DOMAIN listed :
    /\ Call
    /\ st' = VfsClose(st, o)
    /\ listed' = [p \in DOMAIN listed \ {o} |-> listed[p]]

PathCall ==
  \E path \in Paths :
    /\ Call
    /\ \/ st' = VfsStat(st, path)
       \/ st' = VfsUnlink(st, path)
       \/ st' = VfsRmdir(st, path)
       \/ st' = VfsMknod(st, path)
       \/ st' = VfsMkdir(st, path)
       \/ \E lp \in BOOLEAN : st' = VfsSetattr(st, path, lp)
       \/ st' = VfsRename(st, path)
    /\ UNCHANGED listed

ReaddirCall ==
  \E o \in DOMAIN st.ofds, size \in ReadSizes :
    \E r \in {Readdir(st, o, size)} :
      /\ Call
      /\ st.ofds[o].node \in {VRoot, DevRoot} /\ o \in DOMAIN listed
      /\ st' = [st EXCEPT !.ofds[o].pos = r.pos]
      /\ listed' = [listed EXCEPT ![o].got = @ \o r.got]

RegisterCall ==
  \E name \in DriverNames, type \in {"chr", "blk"} :
    /\ Call
    /\ st' = DevfsRegister(st, name, type).m
    /\ UNCHANGED listed

Next == MountCall \/ UmountCall \/ OpenCall \/ CloseCall \/ PathCall
          \/ ReaddirCall \/ RegisterCall

Spec == Init /\ [][Next]_vars

----------------------------------------------------------------------------
(* Properties.                                                             *)

Nodes == {VRoot, DevRoot} \cup DriverNames

VfsFaults == {"none", "null_mknod", "umount_reads_freed"}

(* The shape of the state, the fault aside. *)
StateOK ==
  /\ st.drivers \in [0 .. MaxDrivers - 1 ->
                     [used : BOOLEAN, name : DriverNames \cup {NULL}, type : {"chr", "blk"}]]
  /\ st.fsList \in Seq({"DevFS"})
  /\ \A i \in DOMAIN st.mounts :
       /\ st.mounts[i].name \in MountNames /\ st.mounts[i].inst \in 1 .. st.ninst
       /\ st.mounts[i].device \in DOMAIN st.ofds \cup {NULL}
  /\ st.nlink \in 0 .. 255
  /\ st.icount \in [{VRoot, DevRoot} -> Nat]
  /\ DOMAIN st.ofds \subseteq OfdIds
  /\ \A o \in DOMAIN st.ofds :
       st.ofds[o] \in [node : Nodes, inst : 0 .. st.ninst, pos : Nat]
  /\ DOMAIN listed \subseteq DOMAIN st.ofds

TypeOK == st.fault \in VfsFaults /\ StateOK

(* Successive devfs_readdir calls on one descriptor list each driver slot *)
(* at most once and in slot order, only used slots behind the cursor, and *)
(* every driver registered when the descriptor was opened once the cursor *)
(* has passed its slot, whatever buffer sizes the calls pass and whatever *)
(* registrations come between them. *)
DevfsReaddirExact ==
  \A o \in DOMAIN listed :
    st.ofds[o].node = DevRoot =>
      LET g == listed[o].got
          pos == st.ofds[o].pos
      IN  /\ \A k \in 1 .. Len(g) - 1 : g[k] < g[k + 1]
          /\ \A k \in 1 .. Len(g) : g[k] < pos /\ st.drivers[g[k]].used
          /\ \A i \in listed[o].present : i < pos => \E k \in 1 .. Len(g) : g[k] = i
====
