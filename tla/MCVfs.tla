------------------------------- MODULE MCVfs -------------------------------
(***************************************************************************)
(* The instance of Vfs for TLC.  Each behaviour is about the open files    *)
(* of two processes on a small volume, about a tree of directories that    *)
(* one process works on with one directory open at a time, or about open   *)
(* files on a volume that may be damaged.                                  *)
(***************************************************************************)
EXTENDS Vfs

CONSTANTS p1, p2, a, b

VARIABLE setup

FewNames ==
    /\ \A i \in Inodes : i > 1 => mode[i] = "free"
    /\ \A d \in Inodes : /\ Len(entries[d]) <= 1
                         /\ \A k \in 1 .. Len(entries[d]) : entries[d][k] # Hole => entries[d][k].name = a

FewFiles ==
    /\ Len(entries[InodeLimit - 1]) <= 1
    /\ process[p1] = "live" /\ process[p2] = "unused"
    /\ \A f \in Files : file_table[f].used => f = 1 /\ file_table[f].mode = "directory"

FewOpen == \A p \in Processes : \A d \in Descriptors : fd_table[p][d] # NoFile => d = 3

FewOffsets == \A f \in Files : file_table[f].offset <= SizeLimit

Healthy == ~damaged /\ \A i \in Inodes : mode[i] # "lost"

VfsInit == setup \in {"files", "tree", "damage"} /\ Init

VfsNext ==
    /\ Next /\ UNCHANGED setup /\ FewOffsets'
    /\ setup = "files" => Healthy' /\ FewNames'
    /\ setup = "tree" => Healthy' /\ FewFiles'
    /\ setup = "damage" => FewNames' /\ FewOpen'

VfsSpec == VfsInit /\ [][VfsNext]_<<vars, setup>>
=============================================================================
