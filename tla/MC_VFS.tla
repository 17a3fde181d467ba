---------------------------------- MODULE MC_VFS ----------------------------------
(***************************************************************************)
(* VFS and devfs with three driver slots, two driver names of different    *)
(* lengths, two mount points, paths through devfs (a device, ".", a name  *)
(* under a device), a path through a mount point that may not exist, the  *)
(* root, and two readdir buffer sizes: 15 holds one entry but not two,    *)
(* 40 holds every entry.  Over them one process with a descriptor table  *)
(* of two slots makes system calls, at an 8-bit width where the user      *)
(* space is 192 bytes: a length of 2 passes strzcpy_from_user, 255 wraps  *)
(* len + 1 to 0 and is refused.  Three descriptors can be open, so   *)
(* the table can fill while another open still succeeds; read and write  *)
(* pass a slot of the table and the index one past it.                    *)
(***************************************************************************)
EXTENDS Syscalls

MC_DriverNames == {"hda", "tty0"}
MC_MountNames == {"dev", "mnt"}
MC_Paths == {<<>>, <<"dev">>, <<"dev", "hda">>, <<"dev", ".">>,
             <<"dev", "hda", "tty0">>, <<"mnt", "tty0">>, <<"etc">>}
MC_Devices == {NULL, <<"dev", "hda">>}
MC_FsTypes == {"DevFS", "vfat"}
MC_ReadSizes == {15, 40}
MC_OfdIds == 1 .. 3
MC_UserLens == {2, 255}
MC_UserFds == {0, 2}
==================================================================================
