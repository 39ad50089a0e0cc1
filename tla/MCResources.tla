----------------------------- MODULE MCResources ----------------------------
(***************************************************************************)
(* Instances for TLC of the components that hand out the machine's         *)
(* resources: the frame allocator with the boot loader's memory map        *)
(* (PhysicalMemory), the kernel heap (Heap) and the disk (Ata).  They do   *)
(* not call each other here; a behaviour is one of one of them.            *)
(*                                                                         *)
(* The machines have six pages of four bytes and words of five bits.  The  *)
(* maps have up to two entries that begin and end anywhere in a page,      *)
(* touch, overlap, and leave the address space; kernels have up to two     *)
(* segments.                                                               *)
(***************************************************************************)
EXTENDS PhysicalMemory, Heap, Ata

VARIABLE resource       \* which of them this behaviour is about

ResourcesInit ==
    /\ resource \in {"frames", "heap", "disk"}
    /\ Init /\ HeapInit /\ AtaInit

ResourcesNext ==
    /\ \/ resource = "frames" /\ Next /\ UNCHANGED <<heapVars, ataVars>>
       \/ resource = "heap" /\ HeapNext /\ UNCHANGED <<vars, ataVars>>
       \/ resource = "disk" /\ AtaNext /\ UNCHANGED <<vars, heapVars>>
    /\ UNCHANGED resource

ResourcesSpec ==
    ResourcesInit /\ [][ResourcesNext]_<<resource, vars, heapVars, ataVars>>

SomeEntries ==
    [base : {0, 5, 8, 12, 22, 26}, length : {0, 3, 7, 12, 16}, usable : BOOLEAN]

SomeAnswers ==
    [entry : SomeEntries, failed : {FALSE}, present : {TRUE}, more : BOOLEAN]
        \cup [entry : {[base |-> 0, length |-> 16, usable |-> TRUE]},
              failed : BOOLEAN, present : {FALSE}, more : BOOLEAN]

SomeSegments ==
    [start : {2, 5, 9, 12}, size : {2, 5}, sound : {TRUE}, executable : BOOLEAN]
        \cup {[start |-> 9, size |-> 2, sound |-> FALSE, executable |-> TRUE]}
=============================================================================
