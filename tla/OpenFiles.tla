----------------------------- MODULE OpenFiles -----------------------------
(***************************************************************************)
(* What open files promise to programs, whatever table they are kept in:   *)
(* every descriptor of every process has an inode, an access mode and an   *)
(* offset of its own, no step of one process touches another's, a process  *)
(* that ends has none left, and an inode is not given back to the volume   *)
(* while a descriptor names it.                                            *)
(***************************************************************************)
EXTENDS Integers

CONSTANTS Processes, Descriptors, Inodes, Access, Kinds, OffsetLimit

Closed == [closed |-> TRUE]

Description == [inode : Inodes, offset : 0 .. OffsetLimit,
                access : Access, mode : Kinds]

VARIABLES open,       \* [Processes -> [Descriptors -> Description or Closed]]
          allocated   \* the inodes that are in use, and their kinds

InUse(i) == \E p \in Processes, d \in Descriptors :
                open[p][d] # Closed /\ open[p][d].inode = i

Init ==
    /\ open = [p \in Processes |-> [d \in Descriptors |-> Closed]]
    /\ allocated \in [Inodes -> Kinds \cup {"free"}]

\* A descriptor is opened on an inode that exists, at its beginning; the
\* inode may be created by the same step.
Open(p, d) ==
    /\ open[p][d] = Closed
    /\ \E i \in Inodes, how \in Access, kind \in Kinds :
         /\ allocated[i] \in {"free", kind}
         /\ allocated' = [allocated EXCEPT ![i] = kind]
         /\ open' = [open EXCEPT ![p][d] = [inode |-> i, offset |-> 0,
                                            access |-> how, mode |-> kind]]

Close(p, d) ==
    /\ open[p][d] # Closed
    /\ open' = [open EXCEPT ![p][d] = Closed]
    /\ UNCHANGED allocated

\* read, write, lseek and readdir.
Move(p, d) ==
    /\ open[p][d] # Closed
    /\ \E o \in 0 .. OffsetLimit : open' = [open EXCEPT ![p][d].offset = o]
    /\ UNCHANGED allocated

End(p) ==
    /\ open' = [open EXCEPT ![p] = [d \in Descriptors |-> Closed]]
    /\ UNCHANGED allocated

\* An inode that is not of any kind is "free", or "lost" to an I/O error.
Allocate(i) ==
    /\ allocated[i] = "free"
    /\ \E kind \in Kinds \cup {"lost"} : allocated' = [allocated EXCEPT ![i] = kind]
    /\ UNCHANGED open

Free(i) ==
    /\ ~InUse(i)
    /\ \E left \in {"free", "lost"} : allocated' = [allocated EXCEPT ![i] = left]
    /\ UNCHANGED open

Next ==
    \/ \E i \in Inodes : Allocate(i) \/ Free(i)
    \/ \E p \in Processes : End(p)
    \/ \E p \in Processes, d \in Descriptors :
         Close(p, d) \/ Move(p, d) \/ Open(p, d)

Spec == Init /\ [][Next]_<<open, allocated>>
=============================================================================
