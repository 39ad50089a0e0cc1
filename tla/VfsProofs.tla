----------------------------- MODULE VfsProofs -----------------------------
(***************************************************************************)
(* Proofs about Vfs, for every set of processes and names and every size   *)
(* of the two tables, of the volume, of directories and of files.          *)
(*                                                                         *)
(* Inv is inductive.  What the searches of the tables return and what the  *)
(* calls of MiniFS do to the names is settled first; then there is one     *)
(* lemma per operation.                                                    *)
(***************************************************************************)
EXTENDS Vfs, WellFoundedInduction, TLAPS

-----------------------------------------------------------------------------
\* Numbers.

\* A non-empty set of naturals has a least element.
LEMMA LeastElement ==
    ASSUME NEW T \in SUBSET Nat, T # {}
    PROVE  \E x \in T : \A y \in T : x <= y
<1>1. PICK x \in T : \A y \in T : ~(<<y, x>> \in OpToRel(<, Nat))
    BY NatLessThanWellFounded, WFMin, Zenon
<1>2. \A y \in T : ~(y < x)
    BY <1>1, Zenon DEF OpToRel
<1> QED BY <1>2

\* An offset advanced by n up to a size stays below every limit on sizes.
LEMMA Advanced ==
    ASSUME NEW offset \in Nat, NEW n \in Nat, NEW bound \in Nat, NEW limit \in Nat,
           NEW top \in Nat, bound <= limit, limit <= top, offset + n <= bound
    PROVE  offset + n \in 0 .. top
  OBVIOUS

\* And so does one that is advanced by less.
LEMMA AdvancedLess ==
    ASSUME NEW offset \in Nat, NEW n \in Nat, NEW m \in Nat, m <= n,
           NEW limit \in Nat, NEW top \in Nat, limit <= top, offset + n <= limit
    PROVE  offset + m \in 0 .. top
  OBVIOUS

\* The numbers of an interval that starts at 0 or 1.
LEMMA InInterval ==
    ASSUME NEW b \in Nat
    PROVE  /\ \A x \in 0 .. b : x \in Nat /\ x <= b
           /\ \A x \in 1 .. b : x \in Nat /\ x <= b
  OBVIOUS

-----------------------------------------------------------------------------
\* Searches of the tables.

\* The mark of an unused descriptor is no file object.
LEMMA NoFileIsNone == NoFile \notin Files
  BY DEF NoFile, Files

\* The root directory has an inode.
LEMMA RootIsInode == Root \in Inodes
  BY VolumeAssumption DEF Root, Inodes

\* allocate_file returns an entry that is not in use.
LEMMA FreeFileResult ==
    ASSUME FreeFiles # {}
    PROVE  FreeFile \in Files /\ ~file_table[FreeFile].used
<1>1. FreeFiles \in SUBSET Nat
    BY DEF FreeFiles, Files
<1>2. \E f \in FreeFiles : \A g \in FreeFiles : f <= g
    BY <1>1, LeastElement
<1>3. FreeFile \in FreeFiles
    BY <1>2, Zenon DEF FreeFile
<1> QED BY <1>3 DEF FreeFiles

\* scheduler_fd_install returns a descriptor that is not in use.
LEMMA FreeDescriptorResult ==
    ASSUME NEW p \in Processes, FreeDescriptors(p) # {}
    PROVE  /\ FreeDescriptor(p) \in Descriptors
           /\ fd_table[p][FreeDescriptor(p)] = NoFile
<1>1. FreeDescriptors(p) \in SUBSET Nat
    BY TableAssumption DEF FreeDescriptors, Descriptors
<1>2. \E d \in FreeDescriptors(p) : \A e \in FreeDescriptors(p) : d <= e
    BY <1>1, LeastElement
<1>3. FreeDescriptor(p) \in FreeDescriptors(p)
    BY <1>2, Zenon DEF FreeDescriptor
<1> QED BY <1>3 DEF FreeDescriptors

\* allocate_inode returns an inode that is free, and never the root.
LEMMA FirstFreeResult ==
    ASSUME FreeInodes # {}
    PROVE  FirstFree \in Inodes \ {Root} /\ mode[FirstFree] = "free"
<1>1. FreeInodes \in SUBSET Nat
    BY VolumeAssumption DEF FreeInodes, Inodes
<1>2. \E i \in FreeInodes : \A j \in FreeInodes : i <= j
    BY <1>1, LeastElement
<1>3. FirstFree \in FreeInodes
    BY <1>2, Zenon DEF FirstFree
<1> QED BY <1>3 DEF FreeInodes

\* directory_append_locked puts an entry where there was none and leaves the
\* others where they are.
LEMMA AppendedResult ==
    ASSUME TypeOK, NEW d \in Inodes, NEW x \in Entry, CanAppend(d)
    PROVE  \E k \in 1 .. EntryLimit :
             /\ Appended(d, x) \in Seq(Entry \cup {Hole})
             /\ Len(Appended(d, x)) <= EntryLimit
             /\ Len(Appended(d, x)) >= Len(entries[d])
             /\ k \in 1 .. Len(Appended(d, x)) /\ Appended(d, x)[k] = x
             /\ k \in 1 .. Len(entries[d]) => entries[d][k] = Hole
             /\ \A l \in 1 .. Len(Appended(d, x)) : l # k =>
                   /\ l \in 1 .. Len(entries[d])
                   /\ Appended(d, x)[l] = entries[d][l]
<1> DEFINE s == entries[d]
<1>1. s \in Seq(Entry \cup {Hole}) /\ Len(s) \in Nat /\ Len(s) <= EntryLimit
    BY DEF TypeOK
<1>2. CASE Holes(d) # {}
    <2> DEFINE k == CHOOSE h \in Holes(d) : \A j \in Holes(d) : h <= j
    <2>1. Holes(d) \in SUBSET Nat
        BY <1>1 DEF Holes
    <2>2. \E h \in Holes(d) : \A j \in Holes(d) : h <= j
        BY <1>2, <2>1, LeastElement
    <2>3. k \in Holes(d)
        BY <2>2, Zenon
    <2>4. k \in 1 .. Len(s) /\ s[k] = Hole
        BY <2>3 DEF Holes
    <2>5. Appended(d, x) = [s EXCEPT ![k] = x]
        BY <1>2, Zenon DEF Appended
    <2> HIDE DEF s, k
    <2>6. /\ [s EXCEPT ![k] = x] \in Seq(Entry \cup {Hole})
          /\ Len([s EXCEPT ![k] = x]) = Len(s)
          /\ [s EXCEPT ![k] = x][k] = x
          /\ \A l \in 1 .. Len(s) : l # k => [s EXCEPT ![k] = x][l] = s[l]
        BY <1>1, <2>4
    <2> QED BY <1>1, <2>4, <2>5, <2>6, VolumeAssumption DEF s
<1>3. CASE Holes(d) = {}
    <2>1. Len(s) < EntryLimit /\ Appended(d, x) = Append(s, x)
        BY <1>3 DEF CanAppend, Appended
    <2> HIDE DEF s
    <2>2. /\ Append(s, x) \in Seq(Entry \cup {Hole})
          /\ Len(Append(s, x)) = Len(s) + 1
          /\ Append(s, x)[Len(s) + 1] = x
          /\ \A l \in 1 .. Len(s) : Append(s, x)[l] = s[l]
        BY <1>1
    <2> QED BY <1>1, <2>1, <2>2, VolumeAssumption, SMTT(30) DEF s
<1> QED BY <1>2, <1>3

\* An entry that is not a hole refers to an inode.
LEMMA NamedResult ==
    ASSUME TypeOK, NEW d \in Inodes, NEW k, Named(d, k)
    PROVE  /\ k \in 1 .. EntryLimit /\ k \in 1 .. Len(entries[d])
           /\ entries[d][k] \in Entry /\ Target(d, k) \in Inodes
<1>1. entries[d] \in Seq(Entry \cup {Hole}) /\ Len(entries[d]) <= EntryLimit
    BY DEF TypeOK
<1>2. k \in 1 .. Len(entries[d]) /\ entries[d][k] # Hole
    BY DEF Named
<1>3. entries[d][k] \in Entry
    BY <1>1, <1>2
<1>4. Target(d, k) \in Inodes
    BY <1>3 DEF Target, Entry
<1> QED BY <1>1, <1>2, <1>3, <1>4, VolumeAssumption

\* What Matches and Directories collect, in terms of Named.
LEMMA MatchesNamed ==
    ASSUME NEW d \in Inodes, mode[d] = "directory", NEW n, NEW k \in Matches(d, n)
    PROVE  Named(d, k) /\ entries[d][k].name = n
  BY DEF Matches, Named

\* directory_find_internal returns an entry with the name it looks for.
LEMMA FirstMatchResult ==
    ASSUME NEW d \in Inodes, NEW n, Matches(d, n) # {}
    PROVE  FirstMatch(d, n) \in Matches(d, n)
<1>1. Matches(d, n) \in SUBSET Nat
    BY DEF Matches
<1>2. \E k \in Matches(d, n) : \A j \in Matches(d, n) : k <= j
    BY <1>1, LeastElement
<1> QED BY <1>2, Zenon DEF FirstMatch

\* A directory that a path can reach is the root or has a name.
LEMMA DirectoriesNamed ==
    ASSUME TypeOK, NEW d \in Directories
    PROVE  /\ d \in Inodes /\ mode[d] = "directory"
           /\ \/ damaged \/ d = Root
              \/ \E e \in Inodes, l \in 1 .. EntryLimit :
                    Named(e, l) /\ Target(e, l) = d
  BY DEF Directories, Links

-----------------------------------------------------------------------------
\* What the calls of MiniFS do to the names.

\* The step puts an entry for n at position k of directory d, where there was
\* none, and leaves all other entries alone.
NameAdded(d, k, n) ==
    /\ ~Named(d, k) /\ Named(d, k)'
    /\ entries'[d][k] = [name |-> n, inode |-> FirstFree]
    /\ \A e \in Inodes, l \in 1 .. EntryLimit :
          (e # d \/ l # k) => /\ Named(e, l)' <=> Named(e, l)
                              /\ Named(e, l) => entries'[e][l] = entries[e][l]

\* The volume's parts of the type invariant, of Inv and of EntriesStayPut.
EntriesOK ==
    /\ entries \in [Inodes -> Seq(Entry \cup {Hole})]
    /\ \A i \in Inodes : Len(entries[i]) <= EntryLimit

VolumeOK ==
    /\ mode \in [Inodes -> Modes]
    /\ size \in [Inodes -> 0 .. SizeLimit]
    /\ EntriesOK
    /\ damaged \in BOOLEAN

NamesOK ==
    /\ mode[Root] = "directory"
    /\ ~damaged => NamesLead /\ NamesDiffer

StayPut ==
    \A d \in Inodes : (~damaged /\ mode[d] = "directory"
                           /\ mode'[d] = "directory") =>
       /\ Len(entries'[d]) >= Len(entries[d])
       /\ \A k \in 1 .. Len(entries[d]) :
            entries'[d][k] # entries[d][k] =>
                Hole \in {entries[d][k], entries'[d][k]}

\* A new entry is one more name, for an inode that was free, whatever becomes
\* of that inode.
LEMMA LinkedResult ==
    ASSUME TypeOK, NEW d \in Inodes, mode[d] = "directory", NEW n \in Names,
           FreeInodes # {}, CanAppend(d), entries' = Linked(d, n),
           NEW left \in Modes, mode' = [mode EXCEPT ![FirstFree] = left]
    PROVE  /\ EntriesOK' /\ StayPut
           /\ \E k \in 1 .. EntryLimit : NameAdded(d, k, n)
<1> DEFINE x == [name |-> n, inode |-> FirstFree]
           s == Appended(d, x)
<1>1. /\ FreeInodes # {} /\ CanAppend(d)
      /\ mode' = [mode EXCEPT ![FirstFree] = left]
      /\ entries' = [entries EXCEPT ![FirstFree] = <<>>, ![d] = s]
    BY DEF Linked
<1>2. FirstFree \in Inodes \ {Root} /\ mode[FirstFree] = "free"
    BY <1>1, FirstFreeResult
<1>3. x \in Entry /\ x # Hole /\ FirstFree # d
    BY <1>2 DEF Entry, Hole
<1>4. PICK k \in 1 .. EntryLimit :
             /\ s \in Seq(Entry \cup {Hole})
             /\ Len(s) <= EntryLimit /\ Len(s) >= Len(entries[d])
             /\ k \in 1 .. Len(s) /\ s[k] = x
             /\ k \in 1 .. Len(entries[d]) => entries[d][k] = Hole
             /\ \A l \in 1 .. Len(s) : l # k =>
                   l \in 1 .. Len(entries[d]) /\ s[l] = entries[d][l]
    <2>1. PICK y \in Entry : y = x
        BY <1>3
    <2>2. s = Appended(d, y)
        BY <2>1
    <2>3. \E k \in 1 .. EntryLimit :
             /\ Appended(d, y) \in Seq(Entry \cup {Hole})
             /\ Len(Appended(d, y)) <= EntryLimit
             /\ Len(Appended(d, y)) >= Len(entries[d])
             /\ k \in 1 .. Len(Appended(d, y)) /\ Appended(d, y)[k] = y
             /\ k \in 1 .. Len(entries[d]) => entries[d][k] = Hole
             /\ \A l \in 1 .. Len(Appended(d, y)) : l # k =>
                   /\ l \in 1 .. Len(entries[d])
                   /\ Appended(d, y)[l] = entries[d][l]
        BY AppendedResult, Zenon
    <2> HIDE DEF x, s
    <2> QED BY <2>1, <2>2, <2>3, Zenon
<1>5. /\ mode \in [Inodes -> Modes]
      /\ entries \in [Inodes -> Seq(Entry \cup {Hole})]
    BY DEF TypeOK
<1> DEFINE content == Seq(Entry \cup {Hole})
<1>a. /\ s \in content /\ <<>> \in content
      /\ entries \in [Inodes -> content]
    BY <1>4, <1>5
<1>b. /\ Len(s) \in Nat /\ Len(s) <= EntryLimit
      /\ \A i \in Inodes : Len(entries[i]) \in Nat /\ Len(entries[i]) <= EntryLimit
    BY <1>4 DEF TypeOK
<1> HIDE DEF x, s, content
<1>6. /\ entries'[d] = s /\ entries'[FirstFree] = <<>>
      /\ \A e \in Inodes \ {d, FirstFree} : entries'[e] = entries[e]
      /\ mode'[d] = "directory" /\ mode'[FirstFree] = left
      /\ \A e \in Inodes \ {FirstFree} : mode'[e] = mode[e]
    BY <1>1, <1>2, <1>3, <1>5, <1>a
<1>7. entries' \in [Inodes -> Seq(Entry \cup {Hole})]
    <2>1. entries' \in [Inodes -> content]
        BY <1>1, <1>2, <1>a
    <2> QED BY <2>1 DEF content
<1>8. \A i \in Inodes : Len(entries'[i]) <= EntryLimit
    <2>1. Len(<<>>) = 0
        OBVIOUS
    <2> QED BY <1>6, <1>b, <2>1, VolumeAssumption
<1>9. \A i \in Inodes : mode[i] = "directory" =>
         /\ Len(entries'[i]) >= Len(entries[i])
         /\ \A l \in 1 .. Len(entries[i]) :
               entries'[i][l] # entries[i][l] => entries[i][l] = Hole
    <2> SUFFICES ASSUME NEW i \in Inodes, mode[i] = "directory"
                 PROVE  /\ Len(entries'[i]) >= Len(entries[i])
                        /\ \A l \in 1 .. Len(entries[i]) :
                              entries'[i][l] # entries[i][l] => entries[i][l] = Hole
        OBVIOUS
    <2>1. CASE i = d
        <3>1. entries'[i] = s
            BY <1>6, <2>1
        <3>2. \A l \in 1 .. Len(entries[d]) : s[l] # entries[d][l] => l = k
            BY <1>4, <1>b
        <3> QED BY <1>4, <1>b, <2>1, <3>1, <3>2
    <2>2. CASE i # d
        <3>1. entries'[i] = entries[i]
            BY <1>2, <1>6, <2>2
        <3> QED BY <1>b, <3>1
    <2> QED BY <2>1, <2>2
<1>10. ~Named(d, k) /\ Named(d, k)' /\ entries'[d][k] = x
    BY <1>3, <1>4, <1>6 DEF Named
<1>11. ASSUME NEW e \in Inodes, NEW l \in 1 .. EntryLimit, e # d \/ l # k
       PROVE  /\ Named(e, l)' <=> Named(e, l)
              /\ Named(e, l) => entries'[e][l] = entries[e][l]
    <2>1. CASE e = d
        BY <1>4, <1>b, <1>6, <1>11, <2>1 DEF Named
    <2>2. CASE e = FirstFree
        BY <1>2, <1>3, <1>6, <2>2 DEF Named
    <2>3. CASE e \notin {d, FirstFree}
        BY <1>6, <2>3 DEF Named
    <2> QED BY <2>1, <2>2, <2>3
<1>12. NameAdded(d, k, n)
    BY <1>10, <1>11 DEF NameAdded, x
<1> QED BY <1>7, <1>8, <1>9, <1>12 DEF EntriesOK, StayPut

\* A new name leads to an inode that nothing else names, from a directory
\* that can be reached.
LEMMA LinkedNames ==
    ASSUME TypeOK, NamesLead, NamesDiffer, ~damaged,
           NEW d \in Directories, NEW n \in Names, Matches(d, n) = {},
           FreeInodes # {}, CanAppend(d), entries' = Linked(d, n),
           NEW kind \in Kinds, mode' = [mode EXCEPT ![FirstFree] = kind]
    PROVE  NamesLead' /\ NamesDiffer'
<1>1. /\ d \in Inodes /\ mode[d] = "directory"
      /\ \/ d = Root
         \/ \E e \in Inodes, l \in 1 .. EntryLimit : Named(e, l) /\ Target(e, l) = d
    BY DirectoriesNamed
<1>2. d \in Inodes /\ mode[d] = "directory"
    BY <1>1
<1>a. FirstFree \in Inodes \ {Root} /\ mode[FirstFree] = "free"
    BY FirstFreeResult
<1>b. kind \in Modes /\ "free" \notin Kinds
    BY DEF Kinds, Modes
<1>c. PICK k \in 1 .. EntryLimit : NameAdded(d, k, n)
    BY <1>2, <1>b, LinkedResult, Zenon
<1>3. /\ ~Named(d, k) /\ Named(d, k)'
      /\ entries'[d][k] = [name |-> n, inode |-> FirstFree]
      /\ \A e \in Inodes, l \in 1 .. EntryLimit :
            (e # d \/ l # k) => /\ Named(e, l)' <=> Named(e, l)
                                /\ Named(e, l) => entries'[e][l] = entries[e][l]
    BY <1>c, Zenon DEF NameAdded
<1>4. Target(d, k)' = FirstFree
    BY <1>3 DEF Target
<1>5. \A e \in Inodes, l \in 1 .. EntryLimit : Named(e, l) =>
         /\ Named(e, l)' /\ entries'[e][l] = entries[e][l]
         /\ Target(e, l)' = Target(e, l)
         /\ Target(e, l) \in Inodes /\ Target(e, l) # FirstFree
    <2> SUFFICES ASSUME NEW e \in Inodes, NEW l \in 1 .. EntryLimit, Named(e, l)
                 PROVE  /\ Named(e, l)' /\ entries'[e][l] = entries[e][l]
                        /\ Target(e, l)' = Target(e, l)
                        /\ Target(e, l) \in Inodes /\ Target(e, l) # FirstFree
        BY Zenon
    <2>a. e # d \/ l # k
        BY <1>3
    <2>1. Named(e, l)' /\ entries'[e][l] = entries[e][l]
        BY <1>3, <2>a
    <2>2. Target(e, l) \in Inodes /\ Target(e, l) # FirstFree
        BY <1>a, <1>b, NamedResult DEF NamesLead
    <2> QED BY <2>1, <2>2 DEF Target
<1>6. \A e \in Inodes, l \in 1 .. EntryLimit : Named(e, l)' =>
         Named(e, l) \/ (e = d /\ l = k)
    BY <1>3
<1>7. \A l \in 1 .. EntryLimit : Named(d, l) => entries[d][l].name # n
    BY DEF Matches, Named
<1>8. NamesLead'
    <2>2. ASSUME NEW e \in Inodes, NEW l \in 1 .. EntryLimit, Named(e, l)'
          PROVE  /\ Target(e, l)' # Root /\ mode'[Target(e, l)'] \in Kinds
                 /\ \/ e = Root
                    \/ \E g \in Inodes, m \in 1 .. EntryLimit :
                          Named(g, m)' /\ Target(g, m)' = e
        <3>1. CASE e = d /\ l = k
            BY <1>1, <1>a, <1>b, <1>4, <1>5, <3>1 DEF TypeOK
        <3>2. CASE Named(e, l)
            <4>1. /\ Target(e, l) # Root /\ mode[Target(e, l)] \in Kinds
                  /\ \/ e = Root
                     \/ \E g \in Inodes, m \in 1 .. EntryLimit :
                           Named(g, m) /\ Target(g, m) = e
                BY <3>2, Zenon DEF NamesLead
            <4>2. /\ Target(e, l)' = Target(e, l)
                  /\ Target(e, l) \in Inodes /\ Target(e, l) # FirstFree
                BY <1>5, <3>2, Zenon
            <4>3. mode'[Target(e, l)] = mode[Target(e, l)]
                BY <1>a, <4>2 DEF TypeOK
            <4>4. e = Root \/ \E g \in Inodes, m \in 1 .. EntryLimit :
                                 Named(g, m)' /\ Target(g, m)' = e
                BY <1>5, <4>1, Zenon
            <4> QED BY <4>1, <4>2, <4>3, <4>4, Zenon
        <3> QED BY <1>6, <2>2, <3>1, <3>2
    <2> QED BY <2>2, Zenon DEF NamesLead
<1>9. NamesDiffer'
    <2> SUFFICES ASSUME NEW e \in Inodes, NEW g \in Inodes,
                        NEW l \in 1 .. EntryLimit, NEW m \in 1 .. EntryLimit,
                        Named(e, l)', Named(g, m)',
                        \/ Target(e, l)' = Target(g, m)'
                        \/ e = g /\ entries'[e][l].name = entries'[g][m].name
                 PROVE  e = g /\ l = m
        BY Zenon DEF NamesDiffer
    <2>1. CASE Named(e, l) /\ Named(g, m)
        BY <1>5, <2>1 DEF NamesDiffer
    <2>2. CASE e = d /\ l = k /\ Named(g, m)
        BY <1>3, <1>4, <1>5, <1>7, <2>2
    <2>3. CASE g = d /\ m = k /\ Named(e, l)
        BY <1>3, <1>4, <1>5, <1>7, <2>3
    <2> QED BY <1>6, <2>1, <2>2, <2>3
<1> QED BY <1>8, <1>9

\* A call that fails before it enters the name may lose an inode, but changes
\* no name.
LEMMA LostNames ==
    ASSUME TypeOK, NamesLead, NamesDiffer, FreeInodes # {},
           entries' = [entries EXCEPT ![FirstFree] = <<>>],
           NEW left \in Modes, mode' = [mode EXCEPT ![FirstFree] = left]
    PROVE  EntriesOK' /\ StayPut /\ NamesLead' /\ NamesDiffer'
<1>1. FirstFree \in Inodes \ {Root} /\ mode[FirstFree] = "free"
    BY FirstFreeResult
<1>2. /\ entries'[FirstFree] = <<>> /\ Len(entries'[FirstFree]) = 0
      /\ \A e \in Inodes \ {FirstFree} : entries'[e] = entries[e] /\ mode'[e] = mode[e]
    BY <1>1 DEF TypeOK
<1>3. EntriesOK'
    <2> DEFINE content == Seq(Entry \cup {Hole})
    <2>1. <<>> \in content /\ entries \in [Inodes -> content]
        BY DEF TypeOK
    <2> HIDE DEF content
    <2>2. entries' \in [Inodes -> content]
        BY <1>1, <2>1, Zenon
    <2>3. \A e \in Inodes : Len(entries'[e]) <= EntryLimit
        BY <1>2, VolumeAssumption DEF TypeOK
    <2> QED BY <2>2, <2>3 DEF EntriesOK, content
<1>4. StayPut
    <2>1. \A e \in Inodes : Len(entries[e]) \in Nat
        BY DEF TypeOK
    <2> QED BY <1>1, <1>2, <2>1 DEF StayPut
<1>5. \A e \in Inodes, l \in 1 .. EntryLimit :
         /\ Named(e, l)' <=> Named(e, l)
         /\ Named(e, l) => entries'[e][l] = entries[e][l]
    BY <1>1, <1>2 DEF Named
<1>6. \A e \in Inodes, l \in 1 .. EntryLimit : Named(e, l) =>
         /\ Target(e, l)' = Target(e, l)
         /\ Target(e, l) \in Inodes /\ Target(e, l) # FirstFree
    <2>1. "free" \notin Kinds
        BY DEF Kinds
    <2> QED BY <1>1, <1>5, <2>1, NamedResult DEF NamesLead, Target
<1>7. NamesLead'
    BY <1>2, <1>5, <1>6 DEF NamesLead
<1>8. NamesDiffer'
    BY <1>5, <1>6 DEF NamesDiffer
<1> QED BY <1>3, <1>4, <1>7, <1>8

\* unlink takes one name away, of an inode that nothing is below.
LEMMA UnlinkNames ==
    ASSUME TypeOK, NamesLead, NamesDiffer,
           NEW d \in Inodes, NEW k, Named(d, k),
           mode[Target(d, k)] = "directory" => IsEmpty(Target(d, k)),
           entries' = [entries EXCEPT ![d][k] = Hole],
           NEW left \in {"free", "lost", mode[Target(d, k)]},
           mode' = [mode EXCEPT ![Target(d, k)] = left]
    PROVE  EntriesOK' /\ StayPut /\ NamesLead' /\ NamesDiffer'
<1> DEFINE i == Target(d, k)
           s == entries[d]
           t == [s EXCEPT ![k] = Hole]
<1>1. /\ k \in 1 .. EntryLimit /\ k \in 1 .. Len(s)
      /\ i \in Inodes \ {Root} /\ mode[d] = "directory" /\ s[k] # Hole
    BY NamedResult DEF NamesLead, Named
<1>2. \A e \in Inodes : Len(entries[e]) \in Nat /\ Len(entries[e]) <= EntryLimit
    BY DEF TypeOK
<1>3. s \in Seq(Entry \cup {Hole}) /\ Len(s) \in Nat
    BY DEF TypeOK
<1>4. i # d
    BY <1>1 DEF IsEmpty
<1>5. entries'[d] = t /\ \A e \in Inodes \ {d} : entries'[e] = entries[e]
    BY DEF TypeOK
<1>6. /\ mode'[d] = "directory"
      /\ \A e \in Inodes \ {i} : mode'[e] = mode[e]
    BY <1>1, <1>4, Zenon DEF TypeOK
<1>7. \A l \in 1 .. EntryLimit : ~Named(i, l)
    BY DEF Named, IsEmpty
<1> HIDE DEF s, i
<1>8. /\ t \in Seq(Entry \cup {Hole}) /\ Len(t) = Len(s)
      /\ t[k] = Hole /\ \A l \in 1 .. Len(s) : l # k => t[l] = s[l]
    BY <1>1, <1>3
<1> HIDE DEF t
<1>9. EntriesOK'
    <2>2. entries' \in [Inodes -> Seq(Entry \cup {Hole})]
        <3> DEFINE content == Seq(Entry \cup {Hole})
        <3>1. t \in content /\ entries \in [Inodes -> content]
            BY <1>8 DEF TypeOK
        <3>2. entries' = [entries EXCEPT ![d] = t]
            BY DEF TypeOK, t, s
        <3> HIDE DEF content
        <3>3. entries' \in [Inodes -> content]
            BY <3>1, <3>2, Zenon
        <3> QED BY <3>3 DEF content
    <2>3. \A e \in Inodes : Len(entries'[e]) <= EntryLimit
        BY <1>2, <1>5, <1>8 DEF s
    <2> QED BY <2>2, <2>3 DEF EntriesOK
<1>10. StayPut
    <2> SUFFICES ASSUME NEW e \in Inodes
                 PROVE  /\ Len(entries'[e]) >= Len(entries[e])
                        /\ \A l \in 1 .. Len(entries[e]) :
                             entries'[e][l] # entries[e][l] =>
                                 Hole \in {entries[e][l], entries'[e][l]}
        BY DEF StayPut
    <2>1. CASE e = d
        BY <1>2, <1>3, <1>5, <1>8, <2>1 DEF s
    <2>2. CASE e # d
        <3>1. entries'[e] = entries[e]
            BY <1>5, <2>2
        <3> QED BY <1>2, <3>1
    <2> QED BY <2>1, <2>2
<1>11. ASSUME NEW e \in Inodes, NEW l \in 1 .. EntryLimit
       PROVE  /\ Named(e, l)' <=> (Named(e, l) /\ (e # d \/ l # k))
              /\ Named(e, l)' => entries'[e][l] = entries[e][l]
    <2>1. CASE e = d
        BY <1>1, <1>3, <1>5, <1>6, <1>8, <2>1 DEF Named, s
    <2>2. CASE e # d /\ e # i
        BY <1>5, <1>6, <2>2 DEF Named
    <2>3. CASE e = i
        <3>1. entries'[i] = entries[i] /\ (mode'[i] = "directory" => mode[i] = "directory")
            BY <1>1, <1>4, <1>5 DEF TypeOK, i
        <3> QED BY <1>4, <1>7, <2>3, <3>1 DEF Named
    <2> QED BY <2>1, <2>2, <2>3
<1>12. ASSUME NEW e \in Inodes, NEW l \in 1 .. EntryLimit, Named(e, l)'
       PROVE  /\ Named(e, l) /\ Target(e, l)' = Target(e, l)
              /\ Target(e, l) \in Inodes /\ Target(e, l) # i
    <2>1. Named(e, l) /\ (e # d \/ l # k) /\ entries'[e][l] = entries[e][l]
        BY <1>11, <1>12
    <2>2. Target(e, l) # i
        BY <1>1, <2>1 DEF NamesDiffer, i
    <2> QED BY <2>1, <2>2, NamedResult DEF Target
<1>13. NamesLead'
    <2>2. ASSUME NEW e \in Inodes, NEW l \in 1 .. EntryLimit, Named(e, l)'
          PROVE  /\ Target(e, l)' # Root /\ mode'[Target(e, l)'] \in Kinds
                 /\ \/ e = Root
                    \/ \E g \in Inodes, m \in 1 .. EntryLimit :
                          Named(g, m)' /\ Target(g, m)' = e
        <3>1. /\ Named(e, l) /\ Target(e, l)' = Target(e, l)
              /\ Target(e, l) \in Inodes /\ Target(e, l) # i /\ e # i
            BY <1>7, <1>12, <2>2
        <3>2. Target(e, l)' # Root /\ mode'[Target(e, l)'] \in Kinds
            BY <1>6, <3>1 DEF NamesLead
        <3>3. CASE e # Root
            <4>1. PICK g \in Inodes, m \in 1 .. EntryLimit :
                          Named(g, m) /\ Target(g, m) = e
                BY <3>1, <3>3 DEF NamesLead
            <4>2. g # d \/ m # k
                BY <3>1, <4>1 DEF i
            <4>3. Named(g, m)' /\ Target(g, m)' = e
                BY <1>11, <1>12, <4>1, <4>2
            <4> QED BY <3>2, <4>3
        <3> QED BY <3>2, <3>3
    <2> QED BY <2>2, Zenon DEF NamesLead
<1>14. NamesDiffer'
    <2> SUFFICES ASSUME NEW e \in Inodes, NEW g \in Inodes,
                        NEW l \in 1 .. EntryLimit, NEW m \in 1 .. EntryLimit,
                        Named(e, l)', Named(g, m)',
                        \/ Target(e, l)' = Target(g, m)'
                        \/ e = g /\ entries'[e][l].name = entries'[g][m].name
                 PROVE  e = g /\ l = m
        BY Zenon DEF NamesDiffer
    <2>1. /\ Named(e, l) /\ Target(e, l)' = Target(e, l)
          /\ Named(g, m) /\ Target(g, m)' = Target(g, m)
        BY <1>12
    <2>2. entries'[e][l] = entries[e][l] /\ entries'[g][m] = entries[g][m]
        BY <1>11
    <2> QED BY <2>1, <2>2 DEF NamesDiffer
<1> QED BY <1>9, <1>10, <1>13, <1>14

-----------------------------------------------------------------------------
\* What the calls do to the two tables.

TablesOK ==
    /\ process \in [Processes -> {"unused", "live", "zombie"}]
    /\ fd_table \in [Processes -> [Descriptors -> Files \cup {NoFile}]]
    /\ file_table \in [Files -> FileObject]

\* The types of the tables and those of the volume.
LEMMA TypeParts == TypeOK <=> TablesOK /\ VolumeOK
  BY DEF TypeOK, TablesOK, VolumeOK, EntriesOK

\* No file object that is in use after the step names another inode than
\* before, or was opened by it.
SameFiles ==
    \A f \in Files : file_table'[f].used =>
       /\ file_table[f].used
       /\ file_table'[f].inode = file_table[f].inode
       /\ file_table'[f].mode = file_table[f].mode

\* A new file object has one descriptor, or there is none of either.
LEMMA InstallResult ==
    ASSUME TablesOK, DescriptorsOwn, FreeFiles # {}, UNCHANGED process,
           NEW p \in Processes, process[p] = "live", NEW i \in Inodes,
           NEW kind \in Kinds, NEW how \in Access,
           Install(p, i, kind, how)
    PROVE  /\ TablesOK' /\ DescriptorsOwn'
           /\ \A f \in Files : file_table'[f].used =>
                 \/ /\ file_table[f].used
                    /\ file_table'[f].inode = file_table[f].inode
                    /\ file_table'[f].mode = file_table[f].mode
                 \/ file_table'[f].inode = i /\ file_table'[f].mode = kind
<1>1. CASE FreeDescriptors(p) = {}
    <2>1. UNCHANGED <<process, fd_table, file_table>>
        BY <1>1 DEF Install
    <2> QED BY <2>1 DEF TablesOK, DescriptorsOwn
<1>2. CASE FreeDescriptors(p) # {}
    <2> DEFINE f == FreeFile
               d == FreeDescriptor(p)
               x == [used |-> TRUE, refcount |-> 1, inode |-> i, offset |-> 0,
                     access |-> how, mode |-> kind]
    <2>1. f \in Files /\ ~file_table[f].used
        BY FreeFileResult
    <2>2. d \in Descriptors /\ fd_table[p][d] = NoFile
        BY <1>2, FreeDescriptorResult
    <2>3. /\ file_table' = [file_table EXCEPT ![f] = x]
          /\ fd_table' = [fd_table EXCEPT ![p][d] = f]
        BY <1>2, Zenon DEF Install
    <2>4. x \in FileObject
        BY VolumeAssumption DEF FileObject, Kinds
    <2>5. x.used /\ x.refcount = 1 /\ x.inode = i /\ x.mode = kind
        OBVIOUS
    <2> HIDE DEF f, d, x
    <2>6. TablesOK'
        BY <2>1, <2>2, <2>3, <2>4 DEF TablesOK
    <2>7. /\ file_table'[f] = x
          /\ \A g \in Files \ {f} : file_table'[g] = file_table[g]
        BY <2>1, <2>3 DEF TablesOK
    <2>8. /\ fd_table'[p][d] = f
          /\ \A q \in Processes, e \in Descriptors :
                (q # p \/ e # d) => fd_table'[q][e] = fd_table[q][e]
        BY <2>2, <2>3 DEF TablesOK
    <2>9. \A q \in Processes, e \in Descriptors : fd_table[q][e] # f
        BY <2>1, NoFileIsNone DEF DescriptorsOwn
    <2>10. \A q \in Processes, e \in Descriptors :
              fd_table[q][e] # NoFile => fd_table[q][e] \in Files
        BY DEF TablesOK
    <2>11. DescriptorsOwn'
        <3>1. ASSUME NEW q \in Processes, NEW e \in Descriptors,
                     fd_table'[q][e] # NoFile
              PROVE  process'[q] = "live" /\ file_table'[fd_table'[q][e]].used
            <4>1. CASE q = p /\ e = d
                BY <2>5, <2>7, <2>8, <4>1
            <4>2. CASE q # p \/ e # d
                BY <2>7, <2>8, <2>9, <2>10, <3>1, <4>2 DEF DescriptorsOwn
            <4> QED BY <4>1, <4>2
        <3>2. ASSUME NEW q \in Processes, NEW r \in Processes,
                     NEW e \in Descriptors, NEW g \in Descriptors,
                     fd_table'[q][e] = fd_table'[r][g], fd_table'[q][e] # NoFile
              PROVE  q = r /\ e = g
            BY <2>8, <2>9, <3>2 DEF DescriptorsOwn
        <3>3. ASSUME NEW g \in Files, file_table'[g].used
              PROVE  /\ file_table'[g].refcount = 1
                     /\ \E q \in Processes, e \in Descriptors : fd_table'[q][e] = g
            <4>1. CASE g = f
                BY <2>2, <2>5, <2>7, <2>8, <4>1
            <4>2. CASE g # f
                <5>1. file_table[g].used /\ file_table'[g] = file_table[g]
                    BY <2>7, <3>3, <4>2
                <5>2. PICK q \in Processes, e \in Descriptors : fd_table[q][e] = g
                    BY <5>1 DEF DescriptorsOwn
                <5>3. q # p \/ e # d
                    BY <2>2, <5>2, NoFileIsNone
                <5>4. fd_table'[q][e] = g
                    BY <2>8, <5>2, <5>3
                <5> QED BY <5>1, <5>4 DEF DescriptorsOwn
            <4> QED BY <4>1, <4>2
        <3> QED BY <3>1, <3>2, <3>3 DEF DescriptorsOwn
    <2> QED BY <2>5, <2>6, <2>7, <2>11
<1> QED BY <1>1, <1>2

\* Moving an offset changes nothing else.
LEMMA SeekResult ==
    ASSUME TablesOK, DescriptorsOwn, UNCHANGED <<process, fd_table>>,
           NEW p \in Processes, NEW d \in Descriptors, Opened(p, d),
           NEW target \in 0 .. OffsetLimit, Seek(p, d, target)
    PROVE  TablesOK' /\ DescriptorsOwn' /\ SameFiles
<1> DEFINE f == fd_table[p][d]
<1>1. f \in Files
    BY DEF Opened, TablesOK
<1>2. file_table' = [file_table EXCEPT ![f] = [@ EXCEPT !.offset = target]]
    BY DEF Seek
<1>3. file_table[f] \in FileObject /\ DOMAIN file_table = Files
    BY <1>1 DEF TablesOK
<1> HIDE DEF f
<1>4. \A g \in Files : /\ file_table'[g].used = file_table[g].used
                       /\ file_table'[g].refcount = file_table[g].refcount
                       /\ file_table'[g].inode = file_table[g].inode
                       /\ file_table'[g].mode = file_table[g].mode
    BY <1>1, <1>2, <1>3 DEF FileObject
<1>5. file_table' \in [Files -> FileObject]
    BY <1>1, <1>2, <1>3, Zenon DEF FileObject, TablesOK
<1>6. TablesOK'
    BY <1>5 DEF TablesOK
<1>7. DescriptorsOwn'
    <2>1. fd_table' = fd_table /\ process' = process
        OBVIOUS
    <2>2. \A q \in Processes, e \in Descriptors :
              fd_table[q][e] # NoFile => fd_table[q][e] \in Files
        BY DEF TablesOK
    <2> QED BY <1>4, <2>1, <2>2 DEF DescriptorsOwn
<1> QED BY <1>4, <1>6, <1>7 DEF SameFiles

\* vfs_close of the one descriptor of a file object clears the object.
LEMMA ReleasedResult ==
    ASSUME TablesOK, DescriptorsOwn,
           NEW p \in Processes, NEW d \in Descriptors, fd_table[p][d] # NoFile
    PROVE  /\ fd_table[p][d] \in Files
           /\ Released(file_table[fd_table[p][d]]) = ClearFile
<1>1. fd_table[p][d] \in Files
    BY DEF TablesOK
<1>2. /\ file_table[fd_table[p][d]].used
      /\ file_table[fd_table[p][d]].refcount = 1
    BY <1>1 DEF DescriptorsOwn
<1> QED BY <1>1, <1>2 DEF Released

\* A cleared file object is not in use.
LEMMA ClearFileResult ==
    ClearFile \in FileObject /\ ~ClearFile.used
  BY RootIsInode, VolumeAssumption DEF ClearFile, FileObject, Access

-----------------------------------------------------------------------------
\* One lemma per operation.

Kept == Inv' /\ StayPut

\* What a step has to keep, part by part.
LEMMA KeptParts ==
    ASSUME TablesOK', VolumeOK', DescriptorsOwn', OpenInodesLive', NamesOK', StayPut
    PROVE  Kept
  BY DEF Kept, Inv, TypeOK, TablesOK, VolumeOK, EntriesOK, NamesOK

\* What Inv says of the volume.
LEMMA InvParts ==
    ASSUME Inv
    PROVE  /\ TypeOK /\ TablesOK /\ VolumeOK /\ DescriptorsOwn
           /\ OpenInodesLive /\ NamesOK
  BY TypeParts DEF Inv, NamesOK

\* Steps that change no name.
LEMMA NamesKept ==
    ASSUME Inv, UNCHANGED <<mode, entries>>,
           size' \in [Inodes -> 0 .. SizeLimit],
           damaged' \in BOOLEAN, damaged => damaged'
    PROVE  VolumeOK' /\ StayPut /\ NamesOK'
<1>0. TypeOK /\ NamesOK
    BY InvParts
<1>1. \A d \in Inodes : Len(entries[d]) \in Nat
    BY <1>0 DEF TypeOK
<1>2. VolumeOK'
    BY <1>0 DEF TypeOK, VolumeOK, EntriesOK
<1>3. StayPut
    BY <1>1 DEF StayPut
<1>4. NamesOK'
    BY <1>0 DEF NamesOK, NamesLead, NamesDiffer, Named, Target
<1> QED BY <1>2, <1>3, <1>4

\* Steps that leave the open files and the inodes that are not free alone.
LEMMA FilesKept ==
    ASSUME TablesOK, OpenInodesLive, SameFiles,
           \A i \in Inodes : mode[i] # "free" => mode'[i] = mode[i]
    PROVE  OpenInodesLive'
<1>1. \A f \in Files : file_table[f].inode \in Inodes
    BY DEF TablesOK, FileObject
<1> QED BY <1>1 DEF OpenInodesLive, SameFiles

\* Steps that change neither of the tables.
LEMMA TablesKept ==
    ASSUME TablesOK, DescriptorsOwn, UNCHANGED <<process, fd_table, file_table>>
    PROVE  TablesOK' /\ DescriptorsOwn' /\ SameFiles
  BY DEF TablesOK, DescriptorsOwn, SameFiles

\* create and mkdir that succeed, and those that fail half way.
Makes(d, n, kind) == MakeInode(d, n, kind) \/ MakeInodeFails(d, n, kind)

\* What they do to the inode they have taken, and to the names.
LEMMA MakesResult ==
    ASSUME TypeOK, NEW d \in Inodes, NEW n, NEW kind \in Kinds, Makes(d, n, kind)
    PROVE  /\ FreeInodes # {}
           /\ FirstFree \in Inodes \ {Root} /\ mode[FirstFree] = "free"
           /\ size' = [size EXCEPT ![FirstFree] = 0]
           /\ \E left \in Modes :
                /\ mode' = [mode EXCEPT ![FirstFree] = left]
                /\ \/ damaged /\ damaged' /\ entries' = entries
                   \/ /\ ~damaged /\ ~damaged'
                      /\ entries' = [entries EXCEPT ![FirstFree] = <<>>]
                   \/ /\ ~damaged /\ CanAppend(d) /\ entries' = Linked(d, n)
                      /\ damaged' \/ (~damaged' /\ left = kind)
           /\ damaged' \in BOOLEAN
<1>1. FreeInodes # {} /\ size' = [size EXCEPT ![FirstFree] = 0]
    BY Zenon DEF Makes, MakeInode, MakeInodeFails
<1>2. FirstFree \in Inodes \ {Root} /\ mode[FirstFree] = "free"
    BY <1>1, FirstFreeResult
<1>3. damaged \in BOOLEAN /\ mode \in [Inodes -> Modes] /\ kind \in Modes
    BY DEF TypeOK, Kinds, Modes
<1>4. CASE MakeInode(d, n, kind)
    <2>1. /\ mode' = [mode EXCEPT ![FirstFree] = kind] /\ damaged' = damaged
          /\ entries' = IF damaged THEN entries ELSE Linked(d, n)
          /\ damaged \/ CanAppend(d)
        BY <1>4, Zenon DEF MakeInode, Enter
    <2> QED BY <1>1, <1>2, <1>3, <2>1, Zenon
<1>5. CASE MakeInodeFails(d, n, kind)
    <2>1. PICK left \in Modes : mode' = [mode EXCEPT ![FirstFree] = left]
        BY <1>5, Zenon DEF MakeInodeFails
    <2>2. mode'[FirstFree] = left
        BY <1>2, <1>3, <2>1
    <2>3. CASE /\ entries' = IF damaged THEN entries
                             ELSE [entries EXCEPT ![FirstFree] = <<>>]
               /\ damaged' = damaged
        BY <1>1, <1>2, <1>3, <2>1, <2>3, Zenon
    <2>4. CASE /\ damaged \/ CanAppend(d)
               /\ entries' = IF damaged THEN entries ELSE Linked(d, n)
               /\ damaged' \in IF mode'[FirstFree] = kind THEN {damaged, TRUE} ELSE {TRUE}
        <3>1. /\ damaged' \in BOOLEAN /\ damaged => damaged'
              /\ damaged' \/ left = kind
            BY <1>3, <2>2, <2>4
        <3> QED BY <1>1, <1>2, <1>3, <2>1, <2>4, <3>1, Zenon
    <2> QED BY <1>5, <2>3, <2>4, Zenon DEF MakeInodeFails, Enter
<1> QED BY <1>4, <1>5 DEF Makes

\* They keep the volume in order, unless they have damaged it.
LEMMA MakesNames ==
    ASSUME Inv, NEW d \in Directories, NEW n \in Names, FindsNone(d, n),
           NEW kind \in Kinds, Makes(d, n, kind)
    PROVE  VolumeOK' /\ StayPut /\ NamesOK'
<1>1. /\ TypeOK /\ VolumeOK /\ NamesOK /\ d \in Inodes /\ mode[d] = "directory"
      /\ damaged \in BOOLEAN
    BY InvParts, DirectoriesNamed DEF VolumeOK
<1>2. /\ FreeInodes # {}
      /\ FirstFree \in Inodes \ {Root} /\ mode[FirstFree] = "free"
      /\ size' = [size EXCEPT ![FirstFree] = 0]
      /\ damaged' \in BOOLEAN
    BY <1>1, MakesResult, Zenon
<1>3. PICK left \in Modes :
         /\ mode' = [mode EXCEPT ![FirstFree] = left]
         /\ \/ damaged /\ damaged' /\ entries' = entries
            \/ /\ ~damaged /\ ~damaged'
               /\ entries' = [entries EXCEPT ![FirstFree] = <<>>]
            \/ /\ ~damaged /\ CanAppend(d) /\ entries' = Linked(d, n)
               /\ damaged' \/ (~damaged' /\ left = kind)
    BY <1>1, MakesResult, Zenon
<1>4. mode' \in [Inodes -> Modes] /\ mode'[Root] = "directory"
    BY <1>1, <1>2, <1>3, RootIsInode, Zenon DEF VolumeOK, NamesOK
<1>5. size' \in [Inodes -> 0 .. SizeLimit]
    <2>1. size \in [Inodes -> 0 .. SizeLimit] /\ 0 \in 0 .. SizeLimit
        BY <1>1, VolumeAssumption DEF VolumeOK
    <2> QED BY <1>2, <2>1, Zenon
<1>6. CASE damaged /\ damaged' /\ entries' = entries
    <2>1. EntriesOK'
        BY <1>1, <1>6 DEF VolumeOK, EntriesOK
    <2>2. StayPut
        BY <1>6 DEF StayPut
    <2> QED BY <1>2, <1>4, <1>5, <1>6, <2>1, <2>2 DEF VolumeOK, NamesOK
<1>7. CASE ~damaged /\ ~damaged' /\ entries' = [entries EXCEPT ![FirstFree] = <<>>]
    <2>1. EntriesOK' /\ StayPut /\ NamesLead' /\ NamesDiffer'
        BY <1>1, <1>2, <1>3, <1>7, LostNames, Zenon DEF NamesOK
    <2> QED BY <1>2, <1>4, <1>5, <2>1 DEF VolumeOK, NamesOK
<1>8. CASE /\ ~damaged /\ CanAppend(d) /\ entries' = Linked(d, n)
           /\ damaged' \/ (~damaged' /\ left = kind)
    <2>1. EntriesOK' /\ StayPut
        BY <1>1, <1>2, <1>3, <1>8, LinkedResult, Zenon
    <2>2. CASE damaged'
        BY <1>2, <1>4, <1>5, <2>1, <2>2 DEF VolumeOK, NamesOK
    <2>3. CASE ~damaged' /\ left = kind
        <3>1. Matches(d, n) = {}
            BY <1>8 DEF FindsNone
        <3>2. NamesLead /\ NamesDiffer /\ mode' = [mode EXCEPT ![FirstFree] = kind]
            BY <1>1, <1>3, <1>8, <2>3, Zenon DEF NamesOK
        <3>3. NamesLead' /\ NamesDiffer'
            BY <1>1, <1>2, <1>8, <3>1, <3>2, LinkedNames, Zenon
        <3> QED BY <1>2, <1>4, <1>5, <2>1, <3>3 DEF VolumeOK, NamesOK
    <2> QED BY <1>8, <2>2, <2>3
<1> QED BY <1>3, <1>6, <1>7, <1>8, Zenon

\* open of the root directory.
LEMMA OpenRootKeeps ==
    ASSUME Inv, NEW p \in Processes, process[p] = "live", FreeFiles # {},
           OpenRoot(p)
    PROVE  Kept
<1>1. Install(p, Root, "directory", "RDONLY") /\ UNCHANGED <<process, volume>>
    BY DEF OpenRoot
<1>2. /\ TablesOK /\ mode[Root] = "directory"
      /\ UNCHANGED <<mode, size, entries, damaged>>
    BY <1>1, TypeParts DEF Inv, volume
<1>3. VolumeOK' /\ StayPut /\ NamesOK'
    BY <1>2, NamesKept DEF Inv, TypeOK
<1>4. /\ TablesOK' /\ DescriptorsOwn'
      /\ \A f \in Files : file_table'[f].used =>
            \/ /\ file_table[f].used
               /\ file_table'[f].inode = file_table[f].inode
               /\ file_table'[f].mode = file_table[f].mode
            \/ file_table'[f].inode = Root /\ file_table'[f].mode = "directory"
    BY <1>1, <1>2, InstallResult, RootIsInode DEF Inv, Access, Kinds
<1>5. OpenInodesLive'
    BY <1>2, <1>4 DEF OpenInodesLive, Inv
<1> QED BY <1>3, <1>4, <1>5, KeptParts

\* open of a name that exists, with truncation or without.
LEMMA OpenFoundKeeps ==
    ASSUME Inv, NEW p \in Processes, process[p] = "live", FreeFiles # {},
           NEW i \in Inodes, mode[i] \in Kinds,
           NEW how \in Access, NEW trunc \in BOOLEAN,
           OpenFound(p, i, how, trunc)
    PROVE  Kept
<1>1. i \in Inodes /\ mode[i] \in Kinds /\ mode[i] # "free"
    BY DEF Kinds
<1>2. /\ UNCHANGED <<process, mode, entries, damaged>>
      /\ size' = size \/ size' = [size EXCEPT ![i] = 0]
      /\ Install(p, i, mode[i], how) \/ UNCHANGED <<fd_table, file_table>>
    BY Zenon DEF OpenFound
<1>3. size' \in [Inodes -> 0 .. SizeLimit]
    <2>1. size \in [Inodes -> 0 .. SizeLimit] /\ 0 \in 0 .. SizeLimit
        BY VolumeAssumption DEF Inv, TypeOK
    <2> QED BY <1>2, <2>1
<1>4. VolumeOK' /\ StayPut /\ NamesOK'
    BY <1>2, <1>3, NamesKept DEF Inv, TypeOK
<1>5. CASE UNCHANGED <<fd_table, file_table>>
    <2>1. TablesOK' /\ DescriptorsOwn' /\ SameFiles
        BY <1>2, <1>5, TablesKept, TypeParts DEF Inv
    <2>2. OpenInodesLive'
        BY <1>2, <2>1, FilesKept, TypeParts DEF Inv
    <2> QED BY <1>4, <2>1, <2>2, KeptParts
<1>6. CASE Install(p, i, mode[i], how)
    <2>1. /\ TablesOK' /\ DescriptorsOwn'
          /\ \A f \in Files : file_table'[f].used =>
                \/ /\ file_table[f].used
                   /\ file_table'[f].inode = file_table[f].inode
                   /\ file_table'[f].mode = file_table[f].mode
                \/ file_table'[f].inode = i /\ file_table'[f].mode = mode[i]
        BY <1>1, <1>2, <1>6, InstallResult, TypeParts DEF Inv
    <2>2. OpenInodesLive'
        BY <1>1, <1>2, <2>1, Zenon DEF OpenInodesLive, Inv
    <2> QED BY <1>4, <2>1, <2>2, KeptParts
<1> QED BY <1>2, <1>5, <1>6

\* create and mkdir.
LEMMA MakeKeeps ==
    ASSUME Inv, NEW d \in Directories, NEW n \in Names, FindsNone(d, n),
           NEW kind \in Kinds, Makes(d, n, kind),
           UNCHANGED <<process, fd_table, file_table>>
    PROVE  Kept
<1>1. TypeOK /\ TablesOK /\ d \in Inodes
    BY DirectoriesNamed, TypeParts DEF Inv
<1>2. VolumeOK' /\ StayPut /\ NamesOK'
    BY MakesNames
<1>3. TablesOK' /\ DescriptorsOwn' /\ SameFiles
    BY <1>1, TablesKept DEF Inv
<1>4. \A i \in Inodes : mode[i] # "free" => mode'[i] = mode[i]
    BY <1>1, MakesResult, Zenon DEF TypeOK
<1>5. OpenInodesLive'
    BY <1>1, <1>3, <1>4, FilesKept DEF Inv
<1> QED BY <1>2, <1>3, <1>5, KeptParts

\* open that creates a file, also where it fails after the creation or in it.
LEMMA OpenCreateKeeps ==
    ASSUME Inv, NEW p \in Processes, process[p] = "live", FreeFiles # {},
           NEW d \in Directories, NEW n \in Names, FindsNone(d, n),
           OpenCreate(p, d, n)
    PROVE  Kept
<1>0. "regular" \in Kinds /\ "regular" # "free" /\ UNCHANGED process
    BY DEF Kinds, OpenCreate
<1>1. CASE MakeInodeFails(d, n, "regular") /\ UNCHANGED <<fd_table, file_table>>
    BY <1>0, <1>1, MakeKeeps DEF Makes
<1>2. ASSUME NEW how \in Access, MakeInode(d, n, "regular"),
             Install(p, FirstFree, "regular", how)
      PROVE  Kept
    <2>1. TypeOK /\ TablesOK /\ DescriptorsOwn /\ OpenInodesLive
        BY InvParts
    <2>2. VolumeOK' /\ StayPut /\ NamesOK'
        BY <1>0, <1>2, MakesNames DEF Makes
    <2>3. /\ FirstFree \in Inodes /\ mode[FirstFree] = "free"
          /\ mode' = [mode EXCEPT ![FirstFree] = "regular"]
        BY <1>2, FirstFreeResult DEF MakeInode
    <2>4. /\ TablesOK' /\ DescriptorsOwn'
          /\ \A f \in Files : file_table'[f].used =>
                \/ /\ file_table[f].used
                   /\ file_table'[f].inode = file_table[f].inode
                   /\ file_table'[f].mode = file_table[f].mode
                \/ file_table'[f].inode = FirstFree /\ file_table'[f].mode = "regular"
        BY <1>0, <1>2, <2>1, <2>3, InstallResult, Zenon
    <2>5. OpenInodesLive'
        <3>1. \A f \in Files : file_table[f].inode \in Inodes
            BY <2>1 DEF TablesOK, FileObject
        <3>2. \A i \in Inodes \ {FirstFree} : mode'[i] = mode[i]
            BY <2>1, <2>3 DEF TypeOK
        <3>3. mode'[FirstFree] = "regular"
            BY <2>1, <2>3 DEF TypeOK
        <3> QED BY <2>1, <2>3, <2>4, <3>1, <3>2, <3>3 DEF OpenInodesLive
    <2> QED BY <2>2, <2>4, <2>5, KeptParts
<1> QED BY <1>1, <1>2, Zenon DEF OpenCreate

\* vfs_open with all of its early returns.
LEMMA OpenKeeps ==
    ASSUME Inv, NEW p \in Processes, Open(p)
    PROVE  Kept
<1>1. process[p] = "live" /\ FreeFiles # {}
    BY DEF Open
<1>2. CASE OpenRoot(p)
    BY <1>1, <1>2, OpenRootKeeps
<1>3. ASSUME NEW d \in Directories, NEW n \in Names, NEW i \in Inodes,
             NEW how \in Access, NEW trunc \in BOOLEAN,
             Finds(d, n, i), OpenFound(p, i, how, trunc)
      PROVE  Kept
    BY <1>1, <1>3, OpenFoundKeeps DEF Finds
<1>4. ASSUME NEW d \in Directories, NEW n \in Names, FindsNone(d, n),
             OpenCreate(p, d, n)
      PROVE  Kept
    BY <1>1, <1>4, OpenCreateKeeps
<1> QED BY <1>2, <1>3, <1>4, Zenon DEF Open

\* read, write, lseek and readdir.
LEMMA MoveKeeps ==
    ASSUME Inv, NEW p \in Processes, NEW d \in Descriptors, Opened(p, d),
           NEW target \in 0 .. OffsetLimit, Seek(p, d, target),
           size' \in [Inodes -> 0 .. SizeLimit],
           damaged' \in BOOLEAN, damaged => damaged',
           UNCHANGED <<process, fd_table, mode, entries>>
    PROVE  Kept
<1>1. TypeOK /\ TablesOK
    BY TypeParts DEF Inv
<1>2. VolumeOK' /\ StayPut /\ NamesOK'
    BY NamesKept
<1>3. TablesOK' /\ DescriptorsOwn' /\ SameFiles
    BY <1>1, SeekResult DEF Inv
<1>4. OpenInodesLive'
    BY <1>1, <1>3, FilesKept DEF Inv
<1> QED BY <1>2, <1>3, <1>4, KeptParts

\* A descriptor in use holds a file object in use, which no other one holds.
LEMMA HeldFile ==
    ASSUME Inv, NEW p \in Processes, NEW d \in Descriptors, fd_table[p][d] # NoFile
    PROVE  /\ fd_table[p][d] \in Files /\ file_table[fd_table[p][d]].used
           /\ \A q \in Processes, e \in Descriptors :
                 fd_table[q][e] = fd_table[p][d] => q = p /\ e = d
<1>1. fd_table[p][d] \in Files \cup {NoFile}
    BY DEF Inv, TypeOK
<1>2. DescriptorsOwn
    BY DEF Inv
<1>3. \A q \in Processes, e \in Descriptors :
          fd_table[q][e] = fd_table[p][d] => q = p /\ e = d
    BY <1>2 DEF DescriptorsOwn
<1>4. file_table[fd_table[p][d]].used
    BY <1>2, Zenon DEF DescriptorsOwn
<1> QED BY <1>1, <1>3, <1>4

\* What an open descriptor leads to.
LEMMA OpenedFile ==
    ASSUME Inv, NEW p \in Processes, NEW d \in Descriptors, Opened(p, d)
    PROVE  /\ fd_table[p][d] \in Files /\ File(p, d) \in FileObject
           /\ File(p, d).inode \in Inodes /\ File(p, d).offset \in 0 .. OffsetLimit
           /\ size[File(p, d).inode] \in 0 .. SizeLimit
<1>1. fd_table[p][d] \in Files
    BY DEF Opened, Inv, TypeOK
<1>2. File(p, d) \in FileObject
    BY <1>1 DEF File, Inv, TypeOK
<1>3. File(p, d).inode \in Inodes /\ File(p, d).offset \in 0 .. OffsetLimit
    BY <1>2 DEF FileObject
<1> QED BY <1>1, <1>2, <1>3 DEF Inv, TypeOK

\* vfs_read moves an offset only.
LEMMA ReadKeeps ==
    ASSUME Inv, NEW p \in Processes, NEW d \in Descriptors, Read(p, d)
    PROVE  Kept
<1>1. Opened(p, d) /\ UNCHANGED <<process, fd_table, mode, size, entries, damaged>>
    BY DEF Read, Readable, volume
<1>2. PICK n \in 1 .. SizeLimit :
          /\ File(p, d).offset + n <= size[File(p, d).inode]
          /\ Seek(p, d, File(p, d).offset + n)
    BY DEF Read
<1>3. File(p, d).offset + n \in 0 .. OffsetLimit
    BY <1>1, <1>2, OpenedFile, VolumeAssumption
<1>4. size' \in [Inodes -> 0 .. SizeLimit] /\ damaged' \in BOOLEAN
    BY <1>1 DEF Inv, TypeOK
<1> QED BY <1>1, <1>2, <1>3, <1>4, MoveKeeps

\* vfs_write moves an offset and extends a file.
LEMMA WriteKeeps ==
    ASSUME Inv, NEW p \in Processes, NEW d \in Descriptors, Write(p, d)
    PROVE  Kept
<1> DEFINE i == File(p, d).inode
           o == File(p, d).offset
<1>1. Opened(p, d) /\ UNCHANGED <<process, fd_table, mode, entries>>
    BY DEF Write, Writable
<1>a. PICK n \in 1 .. SizeLimit : \E m \in 0 .. n :
          /\ o + n <= SizeLimit
          /\ size' = [size EXCEPT ![i] = IF o + n > @ THEN o + n ELSE @]
          /\ Seek(p, d, o + m)
          /\ damaged' \in IF m < n /\ o + n > size[i] THEN {damaged, TRUE} ELSE {damaged}
    BY Zenon DEF Write
<1>2. PICK m \in 0 .. n :
          /\ o + n <= SizeLimit
          /\ size' = [size EXCEPT ![i] = IF o + n > @ THEN o + n ELSE @]
          /\ Seek(p, d, o + m)
          /\ damaged' \in IF m < n /\ o + n > size[i] THEN {damaged, TRUE} ELSE {damaged}
    BY <1>a, Zenon
<1>3. i \in Inodes /\ o \in 0 .. OffsetLimit /\ size[i] \in 0 .. SizeLimit
    BY <1>1, OpenedFile, Zenon
<1>4. size \in [Inodes -> 0 .. SizeLimit]
    BY DEF Inv, TypeOK
<1> HIDE DEF i, o
<1>5. o + m \in 0 .. OffsetLimit
    BY <1>2, <1>3, VolumeAssumption
<1>6. size' \in [Inodes -> 0 .. SizeLimit]
    BY <1>2, <1>3, <1>4, VolumeAssumption
<1>7. damaged' \in BOOLEAN /\ (damaged => damaged')
    <2>1. damaged \in BOOLEAN /\ damaged' \in {damaged, TRUE}
        BY <1>2 DEF Inv, TypeOK
    <2> QED BY <2>1, Zenon
<1> QED BY <1>1, <1>2, <1>5, <1>6, <1>7, MoveKeeps, Zenon

\* vfs_lseek moves an offset only.
LEMMA LseekKeeps ==
    ASSUME Inv, NEW p \in Processes, NEW d \in Descriptors, Lseek(p, d)
    PROVE  Kept
<1>1. Opened(p, d) /\ UNCHANGED <<process, fd_table, mode, size, entries, damaged>>
    BY DEF Lseek, volume
<1>2. PICK target \in 0 .. OffsetLimit : Seek(p, d, target)
    BY DEF Lseek
<1>3. size' \in [Inodes -> 0 .. SizeLimit] /\ damaged' \in BOOLEAN
    BY <1>1 DEF Inv, TypeOK
<1> QED BY <1>1, <1>2, <1>3, MoveKeeps

\* vfs_readdir moves an offset only.
LEMMA ReaddirKeeps ==
    ASSUME Inv, NEW p \in Processes, NEW d \in Descriptors, Readdir(p, d)
    PROVE  Kept
<1>1. Opened(p, d) /\ UNCHANGED <<process, fd_table, mode, size, entries, damaged>>
    BY DEF Readdir, Readable, volume
<1>2. PICK o \in 0 .. OffsetLimit : Seek(p, d, o)
    BY DEF Readdir
<1>3. size' \in [Inodes -> 0 .. SizeLimit] /\ damaged' \in BOOLEAN
    BY <1>1 DEF Inv, TypeOK
<1> QED BY <1>1, <1>2, <1>3, MoveKeeps

\* vfs_unlink refuses open inodes, and frees the inode of a name it clears.
LEMMA UnlinkKeeps ==
    ASSUME Inv, NEW p \in Processes, Unlink(p)
    PROVE  Kept
<1>1. PICK d \in Directories, n \in Names, i \in Inodes \ {Root} :
          /\ Finds(d, n, i) /\ ~Busy(i)
          /\ mode[i] = "directory" => damaged \/ IsEmpty(i)
          /\ Enter([entries EXCEPT ![d][FirstMatch(d, n)] = Hole])
          /\ \E left \in {"free", "lost", mode[i]} : mode' = [mode EXCEPT ![i] = left]
    BY Zenon DEF Unlink
<1>2. PICK left \in {"free", "lost", mode[i]} : mode' = [mode EXCEPT ![i] = left]
    BY <1>1, Zenon
<1>3. UNCHANGED <<process, fd_table, file_table, size, damaged>>
    BY DEF Unlink
<1>4. TypeOK /\ TablesOK /\ VolumeOK /\ NamesOK /\ DescriptorsOwn /\ OpenInodesLive
    BY InvParts
<1>5. mode' \in [Inodes -> Modes] /\ mode'[Root] = "directory"
    <2>1. left \in Modes /\ mode \in [Inodes -> Modes]
        BY <1>4 DEF VolumeOK, Modes
    <2> QED BY <1>2, <1>4, <2>1, RootIsInode, Zenon DEF NamesOK
<1>6. VolumeOK' /\ StayPut /\ NamesOK'
    <2>1. CASE damaged
        <3>1. entries' = entries
            BY <1>1, <2>1, Zenon DEF Enter
        <3>2. StayPut
            BY <2>1 DEF StayPut
        <3> QED BY <1>3, <1>4, <1>5, <2>1, <3>1, <3>2 DEF VolumeOK, EntriesOK, NamesOK
    <2>2. CASE ~damaged
        <3>1. d \in Inodes /\ mode[d] = "directory"
            BY <1>4, DirectoriesNamed
        <3>2. PICK k \in Matches(d, n) : k = FirstMatch(d, n)
            BY <1>1, <2>2, <3>1, FirstMatchResult, Zenon DEF Finds
        <3>3. /\ Target(d, k) = i /\ (mode[i] = "directory" => IsEmpty(i))
              /\ entries' = [entries EXCEPT ![d][k] = Hole]
            BY <1>1, <2>2, <3>2, Zenon DEF Finds, Enter
        <3>4. Named(d, k)
            BY <3>1, MatchesNamed
        <3>5. EntriesOK' /\ StayPut /\ NamesLead' /\ NamesDiffer'
            BY <1>2, <1>4, <2>2, <3>1, <3>3, <3>4, UnlinkNames, Zenon DEF NamesOK
        <3> QED BY <1>3, <1>4, <1>5, <3>5 DEF VolumeOK, NamesOK
    <2> QED BY <2>1, <2>2
<1>7. TablesOK' /\ DescriptorsOwn' /\ SameFiles
    BY <1>3, <1>4, TablesKept
<1>8. OpenInodesLive'
    <2> SUFFICES ASSUME NEW f \in Files, file_table[f].used
                 PROVE  mode'[file_table[f].inode] = mode[file_table[f].inode]
        BY <1>3, <1>4, Zenon DEF OpenInodesLive
    <2>1. file_table[f].inode \in Inodes
        BY <1>4 DEF TypeOK, FileObject
    <2>2. file_table[f].inode # i
        BY <1>1, Zenon DEF Busy
    <2> QED BY <1>2, <1>4, <2>1, <2>2, Zenon DEF TypeOK
<1> QED BY <1>6, <1>7, <1>8, KeptParts

\* A set of descriptors is given up together with the file objects they are
\* the only references to: one descriptor by close, all of a process by exit.
LEMMA GiveUpKeeps ==
    ASSUME Inv, NEW p \in Processes, NEW D \in SUBSET Descriptors,
           \A q \in Processes, e \in Descriptors : fd_table'[q][e] =
               IF q = p /\ e \in D THEN NoFile ELSE fd_table[q][e],
           \A f \in Files : file_table'[f] =
               IF \E e \in D : fd_table[p][e] = f THEN ClearFile ELSE file_table[f],
           \A q \in Processes : process'[q] = "live" \/ process'[q] = process[q]
                                  \/ (q = p /\ D = Descriptors),
           TablesOK', UNCHANGED <<mode, size, entries, damaged>>
    PROVE  Kept
<1>1. TypeOK /\ TablesOK /\ DescriptorsOwn
    BY TypeParts DEF Inv
<1>2. VolumeOK' /\ StayPut /\ NamesOK'
    BY NamesKept DEF Inv, TypeOK
<1>3. SameFiles
    BY ClearFileResult DEF SameFiles
<1>4. OpenInodesLive'
    BY <1>1, <1>3, FilesKept DEF Inv
<1>5. ASSUME NEW q \in Processes, NEW e \in Descriptors, fd_table'[q][e] # NoFile
      PROVE  /\ fd_table'[q][e] = fd_table[q][e] /\ fd_table[q][e] \in Files
             /\ q # p \/ e \notin D
             /\ file_table'[fd_table[q][e]] = file_table[fd_table[q][e]]
    <2>1. /\ fd_table'[q][e] = fd_table[q][e] /\ fd_table[q][e] \in Files
          /\ q # p \/ e \notin D
        BY <1>1, <1>5 DEF TablesOK
    <2>2. ~ \E g \in D : fd_table[p][g] = fd_table[q][e]
        BY <1>1, <1>5, <2>1 DEF DescriptorsOwn
    <2> QED BY <2>1, <2>2
<1>6. DescriptorsOwn'
    <2>1. ASSUME NEW q \in Processes, NEW e \in Descriptors, fd_table'[q][e] # NoFile
          PROVE  process'[q] = "live" /\ file_table'[fd_table'[q][e]].used
        BY <1>1, <1>5, <2>1 DEF DescriptorsOwn
    <2>2. ASSUME NEW q \in Processes, NEW r \in Processes,
                 NEW e \in Descriptors, NEW g \in Descriptors,
                 fd_table'[q][e] = fd_table'[r][g], fd_table'[q][e] # NoFile
          PROVE  q = r /\ e = g
        BY <1>1, <1>5, <2>2 DEF DescriptorsOwn
    <2>3. ASSUME NEW f \in Files, file_table'[f].used
          PROVE  /\ file_table'[f].refcount = 1
                 /\ \E q \in Processes, e \in Descriptors : fd_table'[q][e] = f
        <3>1. file_table'[f] = file_table[f] /\ ~ \E e \in D : fd_table[p][e] = f
            BY <2>3, ClearFileResult
        <3>2. PICK q \in Processes, e \in Descriptors : fd_table[q][e] = f
            BY <1>1, <2>3, <3>1 DEF DescriptorsOwn
        <3>3. fd_table'[q][e] = f
            BY <3>1, <3>2
        <3>4. file_table[f].used
            BY <2>3, <3>1, Zenon
        <3>5. file_table[f].refcount = 1
            BY <1>1, <3>4 DEF DescriptorsOwn
        <3> QED BY <3>1, <3>3, <3>5, Zenon
    <2> QED BY <2>1, <2>2, <2>3 DEF DescriptorsOwn
<1> QED BY <1>2, <1>4, <1>6, KeptParts, Zenon

\* What close does to the tables.
LEMMA CloseResult ==
    ASSUME Inv, NEW p \in Processes, NEW d \in Descriptors, Close(p, d)
    PROVE  /\ \A q \in Processes, e \in Descriptors : fd_table'[q][e] =
                 IF q = p /\ e \in {d} THEN NoFile ELSE fd_table[q][e]
           /\ \A f \in Files : file_table'[f] =
                 IF \E e \in {d} : fd_table[p][e] = f THEN ClearFile ELSE file_table[f]
           /\ TablesOK' /\ UNCHANGED <<process, mode, size, entries, damaged>>
<1>1. TablesOK /\ DescriptorsOwn
    BY TypeParts DEF Inv
<1>2. /\ fd_table[p][d] \in Files
      /\ fd_table' = [fd_table EXCEPT ![p][d] = NoFile]
      /\ file_table' = [file_table EXCEPT ![fd_table[p][d]] = ClearFile]
      /\ UNCHANGED <<process, mode, size, entries, damaged>>
    <2>1. fd_table[p][d] # NoFile
        BY DEF Close
    <2>2. fd_table[p][d] \in Files /\ Released(file_table[fd_table[p][d]]) = ClearFile
        BY <1>1, <2>1, ReleasedResult
    <2> QED BY <2>2 DEF Close, volume
<1>3. TablesOK'
    BY <1>1, <1>2, ClearFileResult DEF TablesOK
<1>4. \A q \in Processes, e \in Descriptors : fd_table'[q][e] =
           IF q = p /\ e \in {d} THEN NoFile ELSE fd_table[q][e]
    BY <1>1, <1>2 DEF TablesOK
<1>5. \A f \in Files : file_table'[f] =
           IF \E e \in {d} : fd_table[p][e] = f THEN ClearFile ELSE file_table[f]
    BY <1>1, <1>2 DEF TablesOK
<1> QED BY <1>2, <1>3, <1>4, <1>5

\* vfs_close.
LEMMA CloseKeeps ==
    ASSUME Inv, NEW p \in Processes, NEW d \in Descriptors, Close(p, d)
    PROVE  Kept
<1>1. {d} \in SUBSET Descriptors
    OBVIOUS
<1> DEFINE D == {d}
<1>2. /\ \A q \in Processes, e \in Descriptors : fd_table'[q][e] =
           IF q = p /\ e \in D THEN NoFile ELSE fd_table[q][e]
      /\ \A f \in Files : file_table'[f] =
           IF \E e \in D : fd_table[p][e] = f THEN ClearFile ELSE file_table[f]
      /\ TablesOK' /\ UNCHANGED <<process, mode, size, entries, damaged>>
    BY CloseResult, Zenon
<1>3. \A q \in Processes : process'[q] = process[q]
    BY <1>2
<1> HIDE DEF D
<1> QED BY <1>1, <1>2, <1>3, GiveUpKeeps, Zenon DEF D

\* What vfs_close_all_current does to the tables.
LEMMA ExitResult ==
    ASSUME Inv, NEW p \in Processes, Exit(p)
    PROVE  /\ \A q \in Processes, e \in Descriptors : fd_table'[q][e] =
                 IF q = p /\ e \in Descriptors THEN NoFile ELSE fd_table[q][e]
           /\ \A f \in Files : file_table'[f] =
                 IF \E e \in Descriptors : fd_table[p][e] = f
                 THEN ClearFile ELSE file_table[f]
           /\ \A q \in Processes : process'[q] = process[q] \/ q = p
           /\ TablesOK' /\ UNCHANGED <<mode, size, entries, damaged>>
<1>1. TablesOK /\ DescriptorsOwn
    BY TypeParts DEF Inv
<1>2. /\ process' = [process EXCEPT ![p] = "zombie"]
      /\ fd_table' = [fd_table EXCEPT ![p] = [d \in Descriptors |-> NoFile]]
      /\ file_table' = [f \in Files |->
            IF \E d \in Descriptors : fd_table[p][d] = f
            THEN Released(file_table[f]) ELSE file_table[f]]
      /\ UNCHANGED <<mode, size, entries, damaged>>
    BY DEF Exit, volume
<1>3. \A q \in Processes, e \in Descriptors : fd_table'[q][e] =
           IF q = p /\ e \in Descriptors THEN NoFile ELSE fd_table[q][e]
    BY <1>1, <1>2 DEF TablesOK
<1>4. ASSUME NEW f \in Files
      PROVE  file_table'[f] = IF \E e \in Descriptors : fd_table[p][e] = f
                              THEN ClearFile ELSE file_table[f]
    <2>1. CASE \E e \in Descriptors : fd_table[p][e] = f
        <3>1. PICK e \in Descriptors : fd_table[p][e] = f
            BY <2>1
        <3>2. Released(file_table[f]) = ClearFile
            BY <1>1, <3>1, ReleasedResult, NoFileIsNone
        <3> QED BY <1>2, <2>1, <3>2
    <2>2. CASE ~ \E e \in Descriptors : fd_table[p][e] = f
        BY <1>2, <2>2
    <2> QED BY <2>1, <2>2
<1>5. TablesOK'
    <2>1. process' \in [Processes -> {"unused", "live", "zombie"}]
        BY <1>1, <1>2 DEF TablesOK
    <2>2. fd_table' \in [Processes -> [Descriptors -> Files \cup {NoFile}]]
        BY <1>1, <1>2 DEF TablesOK
    <2>3. \A f \in Files : file_table'[f] \in FileObject
        BY <1>1, <1>4, ClearFileResult DEF TablesOK
    <2>4. file_table' \in [Files -> FileObject]
        BY <1>2, <2>3
    <2> QED BY <2>1, <2>2, <2>4 DEF TablesOK
<1>6. \A q \in Processes : process'[q] = process[q] \/ q = p
    BY <1>1, <1>2 DEF TablesOK
<1> QED BY <1>2, <1>3, <1>4, <1>5, <1>6

\* An exit closes every descriptor of the process.
LEMMA ExitKeeps ==
    ASSUME Inv, NEW p \in Processes, Exit(p)
    PROVE  Kept
<1>1. Descriptors \in SUBSET Descriptors
    OBVIOUS
<1> QED BY <1>1, ExitResult, GiveUpKeeps

\* A process that is not live has no descriptors: clearing its fd_table, in
\* spawn and in reap, changes nothing.
LEMMA ClearedAlready ==
    ASSUME Inv, NEW q \in Processes, process[q] # "live",
           fd_table' = [fd_table EXCEPT ![q] = [d \in Descriptors |-> NoFile]]
    PROVE  fd_table' = fd_table
<1>1. fd_table \in [Processes -> [Descriptors -> Files \cup {NoFile}]]
    BY DEF Inv, TypeOK
<1>2. \A d \in Descriptors : fd_table[q][d] = NoFile
    BY DEF Inv, DescriptorsOwn
<1>3. fd_table[q] = [d \in Descriptors |-> NoFile]
    BY <1>1, <1>2
<1> QED BY <1>1, <1>3

\* A process that comes or goes has no descriptors.
LEMMA ProcessKeeps ==
    ASSUME Inv, NEW q \in Processes, process[q] # "live",
           NEW st \in {"unused", "live"}, process' = [process EXCEPT ![q] = st],
           UNCHANGED <<fd_table, file_table, mode, size, entries, damaged>>
    PROVE  Kept
<1>1. TypeOK /\ TablesOK /\ DescriptorsOwn
    BY TypeParts DEF Inv
<1>2. VolumeOK' /\ StayPut /\ NamesOK'
    BY NamesKept DEF Inv, TypeOK
<1>3. TablesOK' /\ SameFiles
    BY <1>1 DEF TablesOK, SameFiles
<1>4. OpenInodesLive'
    BY <1>1, <1>3, FilesKept DEF Inv
<1>5. DescriptorsOwn'
    BY <1>1 DEF DescriptorsOwn, TablesOK
<1> QED BY <1>2, <1>3, <1>4, <1>5, KeptParts

\* A spawned process starts without files.
LEMMA SpawnKeeps ==
    ASSUME Inv, NEW p \in Processes, NEW q \in Processes, Spawn(p, q)
    PROVE  Kept /\ UNCHANGED <<fd_table, file_table, mode>>
  BY ClearedAlready, ProcessKeeps, Zenon DEF Spawn, volume

\* A process that is reaped has closed its files when it exited.
LEMMA ReapKeeps ==
    ASSUME Inv, NEW q \in Processes, Reap(q)
    PROVE  Kept /\ UNCHANGED <<fd_table, file_table, mode>>
  BY ClearedAlready, ProcessKeeps, Zenon DEF Reap, volume

\* After vfs_init no file is open and the volume has its root only.
LEMMA InitInv == Init => Inv
<1> SUFFICES ASSUME Init PROVE Inv
    OBVIOUS
<1>1. TypeOK
    <2>1. /\ <<>> \in Seq(Entry \cup {Hole}) /\ Len(<<>>) = 0
          /\ <<Hole>> \in Seq(Entry \cup {Hole}) /\ Len(<<Hole>>) = 1
        OBVIOUS
    <2>2. TablesOK
        BY ClearFileResult DEF Init, TablesOK
    <2>3. /\ mode \in [Inodes -> Modes]
          /\ size \in [Inodes -> 0 .. SizeLimit] /\ damaged \in BOOLEAN
        <3>1. 0 \in 0 .. SizeLimit
            BY VolumeAssumption
        <3>2. "directory" \in Modes /\ "free" \in Modes
            BY DEF Modes, Kinds
        <3> QED BY <3>1, <3>2, Zenon DEF Init
    <2>4. entries \in [Inodes -> Seq(Entry \cup {Hole})]
        BY <2>1, Zenon DEF Init
    <2>5. \A i \in Inodes : Len(entries[i]) <= EntryLimit
        BY <2>1, VolumeAssumption DEF Init
    <2> QED BY <2>2, <2>3, <2>4, <2>5, TypeParts DEF VolumeOK, EntriesOK
<1>2. DescriptorsOwn /\ OpenInodesLive
    BY ClearFileResult DEF Init, DescriptorsOwn, OpenInodesLive
<1>3. \A d \in Inodes, k \in 1 .. EntryLimit : ~Named(d, k)
    BY DEF Init, Named
<1>4. mode[Root] = "directory"
    BY RootIsInode DEF Init
<1>5. NamesLead /\ NamesDiffer
    BY <1>3 DEF NamesLead, NamesDiffer
<1> QED BY <1>1, <1>2, <1>4, <1>5 DEF Inv

\* A step that changes nothing.
LEMMA StutterKeeps ==
    ASSUME Inv, UNCHANGED vars
    PROVE  Kept
<1>1. UNCHANGED <<process, fd_table, file_table, mode, size, entries, damaged>>
    BY DEF vars, volume
<1>2. VolumeOK' /\ StayPut /\ NamesOK'
    BY <1>1, NamesKept DEF Inv, TypeOK
<1>3. TablesOK' /\ DescriptorsOwn' /\ SameFiles
    BY <1>1, TablesKept, TypeParts DEF Inv
<1>4. OpenInodesLive'
    BY <1>1, <1>3, FilesKept, TypeParts DEF Inv
<1> QED BY <1>2, <1>3, <1>4, KeptParts

\* Every system call keeps the invariant and moves no entry.
LEMMA StepKeeps == Inv /\ [Next]_vars => Kept
<1> SUFFICES ASSUME Inv, [Next]_vars PROVE Kept
    OBVIOUS
<1>1. ASSUME NEW p \in Processes, Open(p) PROVE Kept
    BY <1>1, OpenKeeps
<1>2. ASSUME NEW p \in Processes, Create(p) PROVE Kept
    <2>1. PICK d \in Directories, n \in Names :
              FindsNone(d, n) /\ Makes(d, n, "regular")
        BY <1>2 DEF Create, Makes
    <2>2. UNCHANGED <<process, fd_table, file_table>>
        BY <1>2 DEF Create
    <2> QED BY <2>1, <2>2, MakeKeeps DEF Kinds
<1>3. ASSUME NEW p \in Processes, Mkdir(p) PROVE Kept
    <2>1. PICK d \in Directories, n \in Names :
              FindsNone(d, n) /\ Makes(d, n, "directory")
        BY <1>3 DEF Mkdir, Makes
    <2>2. UNCHANGED <<process, fd_table, file_table>>
        BY <1>3 DEF Mkdir
    <2> QED BY <2>1, <2>2, MakeKeeps DEF Kinds
<1>4. ASSUME NEW p \in Processes, Unlink(p) PROVE Kept
    BY <1>4, UnlinkKeeps
<1>5. ASSUME NEW p \in Processes, Exit(p) PROVE Kept
    BY <1>5, ExitKeeps
<1>6. ASSUME NEW p \in Processes, Reap(p) PROVE Kept
    BY <1>6, ReapKeeps
<1>7. ASSUME NEW p \in Processes, NEW d \in Descriptors,
             Close(p, d) \/ Read(p, d) \/ Write(p, d) \/ Lseek(p, d) \/ Readdir(p, d)
      PROVE  Kept
    BY <1>7, CloseKeeps, ReadKeeps, WriteKeeps, LseekKeeps, ReaddirKeeps
<1>8. ASSUME NEW p \in Processes, NEW q \in Processes, Spawn(p, q) PROVE Kept
    BY <1>8, SpawnKeeps
<1>9. CASE UNCHANGED vars
    BY <1>9, StutterKeeps
<1> QED BY <1>1, <1>2, <1>3, <1>4, <1>5, <1>6, <1>7, <1>8, <1>9 DEF Next

\* The invariant of vfs.c holds after any sequence of calls of any processes.
LEMMA Invariance == Spec => []Inv
<1>1. Inv /\ [Next]_vars => Inv'
    BY StepKeeps DEF Kept
<1> QED BY <1>1, InitInv, PTL DEF Spec

-----------------------------------------------------------------------------
\* What Inv says in the terms of the properties.

\* File objects and descriptors belong together one to one.
LEMMA InvOwnsFiles == Inv => FilesOwned
<1> SUFFICES ASSUME Inv, NEW f \in Files
             PROVE  IF file_table[f].used
                    THEN /\ file_table[f].refcount = 1
                         /\ \E r \in References(f) : References(f) = {r}
                                                      /\ process[r[1]] = "live"
                    ELSE References(f) = {}
    BY DEF FilesOwned
<1>1. CASE file_table[f].used
    <2>1. PICK p \in Processes, d \in Descriptors : fd_table[p][d] = f
        BY <1>1, Zenon DEF Inv, DescriptorsOwn
    <2>2. References(f) = {<<p, d>>}
        <3>1. <<p, d>> \in References(f)
            BY <2>1 DEF References
        <3>2. ASSUME NEW r \in References(f) PROVE r = <<p, d>>
            <4>1. /\ r[1] \in Processes /\ r[2] \in Descriptors
                  /\ r = <<r[1], r[2]>> /\ fd_table[r[1]][r[2]] = f
                BY <3>2 DEF References
            <4>2. r[1] = p /\ r[2] = d
                BY <2>1, <4>1, NoFileIsNone DEF Inv, DescriptorsOwn
            <4> QED BY <4>1, <4>2
        <3> QED BY <3>1, <3>2
    <2>3. process[p] = "live" /\ file_table[f].refcount = 1
        BY <1>1, <2>1, NoFileIsNone, Zenon DEF Inv, DescriptorsOwn
    <2>4. <<p, d>>[1] = p
        OBVIOUS
    <2> QED BY <1>1, <2>2, <2>3, <2>4
<1>2. CASE ~file_table[f].used
    <2>1. \A p \in Processes, d \in Descriptors : fd_table[p][d] # f
        BY <1>2, NoFileIsNone DEF Inv, DescriptorsOwn
    <2> QED BY <1>2, <2>1 DEF References
<1> QED BY <1>1, <1>2

\* Names that lead to live inodes, one name each, form a tree.
LEMMA InvShapesTree == Inv => TreeShape
<1> SUFFICES ASSUME Inv, ~damaged
             PROVE  /\ Links(Root) = {}
                    /\ \A i \in Inodes \ {Root} :
                         /\ \A link, other \in Links(i) : link = other
                         /\ mode[i] \notin Kinds => Links(i) = {}
                         /\ \A link \in Links(i) : link[1] \in Directories
                    /\ \A d \in Inodes, n \in Names :
                         mode[d] = "directory" => \A k, l \in Matches(d, n) : k = l
    BY Zenon DEF Inv, TreeShape
<1>0. TypeOK /\ NamesLead /\ NamesDiffer
    BY DEF Inv
<1>1. ASSUME NEW i \in Inodes, NEW link \in Links(i)
      PROVE  /\ link[1] \in Inodes /\ link[2] \in 1 .. EntryLimit
             /\ link = <<link[1], link[2]>>
             /\ Named(link[1], link[2]) /\ Target(link[1], link[2]) = i
    BY <1>1 DEF Links
<1>2. Links(Root) = {}
    BY <1>0, <1>1, RootIsInode DEF NamesLead
<1>3. ASSUME NEW i \in Inodes \ {Root}
      PROVE  /\ \A link, other \in Links(i) : link = other
             /\ mode[i] \notin Kinds => Links(i) = {}
             /\ \A link \in Links(i) : link[1] \in Directories
    <2>1. \A x, y \in Links(i) : x = y
        <3> SUFFICES ASSUME NEW x \in Links(i), NEW y \in Links(i) PROVE x = y
            OBVIOUS
        <3>1. x[1] = y[1] /\ x[2] = y[2]
            BY <1>0, <1>1 DEF NamesDiffer
        <3> QED BY <1>1, <3>1
    <2>3. mode[i] \notin Kinds => Links(i) = {}
        BY <1>0, <1>1 DEF NamesLead
    <2>4. ASSUME NEW link \in Links(i) PROVE link[1] \in Directories
        <3>1. /\ link[1] \in Inodes /\ link[2] \in 1 .. EntryLimit
              /\ Named(link[1], link[2])
            BY <1>1
        <3>2. mode[link[1]] = "directory"
            BY <3>1 DEF Named
        <3>3. CASE link[1] # Root
            <4>1. PICK e \in Inodes, l \in 1 .. EntryLimit :
                          Named(e, l) /\ Target(e, l) = link[1]
                BY <1>0, <3>1, <3>3 DEF NamesLead
            <4>2. <<e, l>> \in Links(link[1])
                BY <4>1 DEF Links
            <4> QED BY <3>1, <3>2, <4>2 DEF Directories
        <3> QED BY <3>1, <3>2, <3>3 DEF Directories
    <2> QED BY <2>1, <2>3, <2>4
<1>4. ASSUME NEW d \in Inodes, NEW n \in Names, mode[d] = "directory"
      PROVE  \A k, l \in Matches(d, n) : k = l
    <2> SUFFICES ASSUME NEW k \in Matches(d, n), NEW l \in Matches(d, n)
                 PROVE  k = l
        OBVIOUS
    <2>1. /\ Named(d, k) /\ entries[d][k].name = n
          /\ Named(d, l) /\ entries[d][l].name = n
        BY <1>4, MatchesNamed
    <2>2. k \in 1 .. EntryLimit /\ l \in 1 .. EntryLimit
        BY <1>0, <2>1, NamedResult
    <2> QED BY <1>0, <2>1, <2>2, Zenon DEF NamesDiffer
<1> QED BY <1>2, <1>3, <1>4

-----------------------------------------------------------------------------
\* The theorems.

\* The two tables and the volume keep their types: offsets stay in the range
\* lseek accepts, no file grows beyond the largest size and no directory
\* beyond its last block (vfs.c, minifs.c).
THEOREM VfsTypes == Spec => []TypeOK
<1>1. Inv => TypeOK
    BY DEF Inv
<1> QED BY <1>1, Invariance, PTL

\* vfs_open, vfs_close and vfs_close_all_current keep the two layers of
\* reference in step, however many processes there are: no file object is
\* lost, none has two descriptors, no descriptor is left without one.
THEOREM FilesStayOwned == Spec => []FilesOwned
  BY InvOwnsFiles, Invariance, PTL

\* vfs_unlink frees no inode a descriptor names, so that allocate_inode never
\* gives one that is open to a new file.
THEOREM OpenInodesStay == Spec => []OpenInodesLive
<1>1. Inv => OpenInodesLive
    BY DEF Inv
<1> QED BY <1>1, Invariance, PTL

\* minifs_create, minifs_mkdir and minifs_unlink keep the names a tree, also
\* when an I/O error ends them half way or their rollback fails in turn.  The
\* one exception is what damaged records: a rollback that takes back what the
\* failed write has put on the disk.  The root directory survives even that.
THEOREM NamesStayTree == Spec => []TreeShape
  BY InvShapesTree, Invariance, PTL

\* directory_append_locked fills holes and unlink leaves them: the entries of
\* a directory never move under a readdir, until the volume is damaged.
THEOREM EntriesNeverMove == Spec => EntriesStayPut
<1>1. Inv /\ [Next]_vars => StayPut
    BY StepKeeps DEF Kept
<1>2. Inv /\ [Next]_vars => [StayPut]_vars
    BY <1>1, Zenon
<1> QED BY <1>2, Invariance, PTL DEF Spec, EntriesStayPut, StayPut

-----------------------------------------------------------------------------
\* The tables implement what OpenFiles promises.

PromiseStep == [Promise!Next]_<<SeenByAll, mode>>

\* What OpenFiles sees of a descriptor.
LEMMA SeenResult ==
    /\ \A p \in Processes, d \in Descriptors : SeenByAll[p][d] = Seen(p, d)
    /\ \A p \in Processes, d \in Descriptors :
          Seen(p, d) = Promise!Closed <=> fd_table[p][d] = NoFile
    /\ SeenByAll = [p \in Processes |-> [d \in Descriptors |-> SeenByAll[p][d]]]
  BY Zenon DEF SeenByAll, Seen, Promise!Closed

\* What is seen of an open descriptor names the inode of its file object.
LEMMA SeenInode ==
    ASSUME NEW p \in Processes, NEW d \in Descriptors, fd_table[p][d] # NoFile
    PROVE  Seen(p, d).inode = file_table[fd_table[p][d]].inode
  BY DEF Seen, File

\* A step that changes at most one descriptor.
LEMMA SeenUpdate ==
    ASSUME NEW p \in Processes, NEW d \in Descriptors, NEW x,
           \A q \in Processes, e \in Descriptors : SeenByAll'[q][e] =
               IF q = p /\ e = d THEN x ELSE SeenByAll[q][e],
           SeenByAll' = [q \in Processes |-> [e \in Descriptors |-> SeenByAll'[q][e]]]
    PROVE  SeenByAll' = [SeenByAll EXCEPT ![p][d] = x]
<1>1. SeenByAll = [q \in Processes |-> [e \in Descriptors |-> SeenByAll[q][e]]]
    BY SeenResult
<1> QED BY <1>1

\* All descriptors look the same when neither table changes.
LEMMA SeenSame ==
    ASSUME UNCHANGED <<fd_table, file_table>>
    PROVE  UNCHANGED SeenByAll
  BY Zenon DEF SeenByAll, Seen, File

\* The end of vfs_open is the opening of a descriptor, or nothing.
LEMMA InstallSeen ==
    ASSUME Inv, FreeFiles # {}, NEW p \in Processes, NEW i \in Inodes,
           NEW kind \in Kinds, NEW how \in Access,
           Install(p, i, kind, how), FreeDescriptors(p) # {},
           mode[i] \in {"free", kind}, mode' = [mode EXCEPT ![i] = kind]
    PROVE  Promise!Next
<1>1. PICK f \in Files : f = FreeFile /\ ~file_table[f].used
    BY FreeFileResult, Zenon
<1>2. PICK d \in Descriptors : d = FreeDescriptor(p) /\ fd_table[p][d] = NoFile
    BY FreeDescriptorResult, Zenon
<1> DEFINE x == [used |-> TRUE, refcount |-> 1, inode |-> i, offset |-> 0,
                 access |-> how, mode |-> kind]
           y == [inode |-> i, offset |-> 0, access |-> how, mode |-> kind]
<1>3. /\ file_table' = [file_table EXCEPT ![f] = x]
      /\ fd_table' = [fd_table EXCEPT ![p][d] = f]
    BY <1>1, <1>2, Zenon DEF Install
<1>4. x.inode = i /\ x.offset = 0 /\ x.access = how /\ x.mode = kind
    OBVIOUS
<1> HIDE DEF x
<1>5. TablesOK /\ DescriptorsOwn
    BY TypeParts, Zenon DEF Inv
<1>6. Seen(p, d)' = y
    <2>1. fd_table'[p][d] = f /\ f # NoFile /\ file_table'[f] = x
        BY <1>1, <1>2, <1>3, <1>5, NoFileIsNone DEF TablesOK
    <2> QED BY <1>4, <2>1, Zenon DEF Seen, File
<1>7. ASSUME NEW q \in Processes, NEW e \in Descriptors, q # p \/ e # d
      PROVE  Seen(q, e)' = Seen(q, e)
    <2>1. fd_table'[q][e] = fd_table[q][e]
        BY <1>2, <1>3, <1>5, <1>7, Zenon DEF TablesOK
    <2>2. CASE fd_table[q][e] # NoFile
        <3>1. fd_table[q][e] \in Files \ {f}
            BY <1>1, <1>5, <2>2 DEF TablesOK, DescriptorsOwn
        <3>2. file_table'[fd_table[q][e]] = file_table[fd_table[q][e]]
            BY <1>3, <1>5, <3>1, Zenon DEF TablesOK
        <3> QED BY <2>1, <2>2, <3>2, Zenon DEF Seen, File
    <2>3. CASE fd_table[q][e] = NoFile
        BY <2>1, <2>3, Zenon DEF Seen
    <2> QED BY <2>2, <2>3
<1> HIDE DEF y
<1>8. \A q \in Processes, e \in Descriptors : SeenByAll'[q][e] =
               IF q = p /\ e = d THEN y ELSE SeenByAll[q][e]
    BY <1>6, <1>7 DEF SeenByAll
<1>9. SeenByAll' = [q \in Processes |-> [e \in Descriptors |-> SeenByAll'[q][e]]]
    BY DEF SeenByAll
<1>10. SeenByAll' = [SeenByAll EXCEPT ![p][d] = y]
    BY <1>8, <1>9, SeenUpdate, ZenonT(30)
<1>11. SeenByAll[p][d] = Promise!Closed
    BY <1>2, SeenResult
<1>12. Promise!Open(p, d)
    BY <1>10, <1>11, Zenon DEF Promise!Open, y
<1> QED BY <1>2, <1>12 DEF Promise!Next

\* A new inode that is not opened, by create, by mkdir, or by an open that
\* fails or finds no descriptor.
LEMMA MakesSeen ==
    ASSUME TypeOK, NEW d \in Inodes, NEW n, NEW kind \in Kinds,
           Makes(d, n, kind), UNCHANGED <<fd_table, file_table>>
    PROVE  PromiseStep
<1>1. PICK i \in Inodes : i = FirstFree /\ mode[i] = "free"
    BY MakesResult, Zenon
<1>2. PICK left \in Modes : mode' = [mode EXCEPT ![i] = left]
    BY <1>1, MakesResult, Zenon
<1>3. UNCHANGED SeenByAll
    BY SeenSame
<1>4. CASE left = "free"
    <2>1. UNCHANGED mode
        BY <1>1, <1>2, <1>4 DEF TypeOK
    <2> QED BY <1>3, <2>1 DEF PromiseStep
<1>5. CASE left # "free"
    <2>1. left \in Kinds \cup {"lost"}
        BY <1>5 DEF Modes
    <2>2. Promise!Allocate(i)
        BY <1>1, <1>2, <1>3, <2>1, Zenon DEF Promise!Allocate
    <2> QED BY <2>2 DEF PromiseStep, Promise!Next
<1> QED BY <1>4, <1>5

\* open of the root directory is an open of OpenFiles.
LEMMA OpenRootSeen ==
    ASSUME Inv, NEW p \in Processes, FreeFiles # {}, OpenRoot(p)
    PROVE  PromiseStep
<1>1. Install(p, Root, "directory", "RDONLY") /\ UNCHANGED mode
    BY DEF OpenRoot, volume
<1>2. CASE FreeDescriptors(p) = {}
    <2>1. UNCHANGED <<SeenByAll, mode>>
        BY <1>1, <1>2, SeenSame DEF Install
    <2> QED BY <2>1 DEF PromiseStep
<1>3. CASE FreeDescriptors(p) # {}
    <2>1. mode[Root] = "directory" /\ mode' = [mode EXCEPT ![Root] = "directory"]
        BY <1>1 DEF Inv, TypeOK
    <2>2. Promise!Next
        BY <1>1, <1>3, <2>1, InstallSeen, RootIsInode, Zenon DEF Access, Kinds
    <2> QED BY <2>2 DEF PromiseStep
<1> QED BY <1>2, <1>3

\* open of a name that exists is an open of OpenFiles.
LEMMA OpenFoundSeen ==
    ASSUME Inv, NEW p \in Processes, FreeFiles # {},
           NEW i \in Inodes, mode[i] \in Kinds,
           NEW how \in Access, NEW trunc \in BOOLEAN,
           OpenFound(p, i, how, trunc)
    PROVE  PromiseStep
<1>2. PICK kind \in Kinds : kind = mode[i]
    BY Zenon
<1>3. /\ UNCHANGED mode
      /\ Install(p, i, kind, how) \/ UNCHANGED <<fd_table, file_table>>
    BY <1>2, Zenon DEF OpenFound
<1>4. CASE UNCHANGED <<fd_table, file_table>>
    BY <1>3, <1>4, SeenSame DEF PromiseStep
<1>5. CASE Install(p, i, kind, how) /\ FreeDescriptors(p) = {}
    <2>1. UNCHANGED <<fd_table, file_table>>
        BY <1>5 DEF Install
    <2> QED BY <1>4, <2>1
<1>6. CASE Install(p, i, kind, how) /\ FreeDescriptors(p) # {}
    <2>1. mode[i] \in {"free", kind} /\ mode' = [mode EXCEPT ![i] = kind]
        BY <1>2, <1>3 DEF Inv, TypeOK
    <2>2. Promise!Next
        BY <1>6, <2>1, InstallSeen, Zenon
    <2> QED BY <2>2 DEF PromiseStep
<1> QED BY <1>3, <1>4, <1>5, <1>6

\* open that creates a file is one of OpenFiles, or leaves the descriptors alone.
LEMMA OpenCreateSeen ==
    ASSUME Inv, NEW p \in Processes, FreeFiles # {},
           NEW d \in Directories, NEW n, OpenCreate(p, d, n)
    PROVE  PromiseStep
<1>1. TypeOK /\ d \in Inodes /\ "regular" \in Kinds
    BY DirectoriesNamed DEF Inv, Kinds
<1>2. CASE MakeInodeFails(d, n, "regular") /\ UNCHANGED <<fd_table, file_table>>
    BY <1>1, <1>2, MakesSeen DEF Makes
<1>3. ASSUME NEW how \in Access, MakeInode(d, n, "regular"),
             Install(p, FirstFree, "regular", how)
      PROVE  PromiseStep
    <2>1. CASE FreeDescriptors(p) = {}
        <3>1. UNCHANGED <<fd_table, file_table>>
            BY <1>3, <2>1 DEF Install
        <3> QED BY <1>1, <1>3, <3>1, MakesSeen DEF Makes
    <2>2. CASE FreeDescriptors(p) # {}
        <3>1. PICK i \in Inodes : i = FirstFree /\ mode[i] = "free"
            BY <1>3, FirstFreeResult DEF MakeInode
        <3>2. mode' = [mode EXCEPT ![i] = "regular"] /\ Install(p, i, "regular", how)
            BY <1>3, <3>1 DEF MakeInode
        <3>3. Promise!Next
            BY <1>1, <2>2, <3>1, <3>2, InstallSeen, Zenon
        <3> QED BY <3>3 DEF PromiseStep
    <2> QED BY <2>1, <2>2
<1> QED BY <1>2, <1>3, Zenon DEF OpenCreate

\* vfs_open is an open of OpenFiles, or leaves the descriptors alone.
LEMMA OpenSeen ==
    ASSUME Inv, NEW p \in Processes, Open(p)
    PROVE  PromiseStep
<1>1. FreeFiles # {}
    BY DEF Open
<1>2. CASE OpenRoot(p)
    BY <1>1, <1>2, OpenRootSeen
<1>3. ASSUME NEW d \in Directories, NEW n \in Names, NEW i \in Inodes,
             NEW how \in Access, NEW trunc \in BOOLEAN,
             Finds(d, n, i), OpenFound(p, i, how, trunc)
      PROVE  PromiseStep
    BY <1>1, <1>3, OpenFoundSeen DEF Finds
<1>4. ASSUME NEW d \in Directories, NEW n \in Names, OpenCreate(p, d, n)
      PROVE  PromiseStep
    BY <1>1, <1>4, OpenCreateSeen
<1> QED BY <1>2, <1>3, <1>4, Zenon DEF Open

\* Moving an offset moves that of one descriptor: no other shares the object.
LEMMA SeekSeen ==
    ASSUME Inv, NEW p \in Processes, NEW d \in Descriptors, Opened(p, d),
           NEW target \in 0 .. OffsetLimit, Seek(p, d, target),
           UNCHANGED <<fd_table, mode>>
    PROVE  PromiseStep
<1>1. TablesOK /\ DescriptorsOwn
    BY TypeParts DEF Inv
<1>2. PICK f \in Files : f = fd_table[p][d]
    BY <1>1 DEF Opened, TablesOK
<1>3. file_table' = [file_table EXCEPT ![f] = [@ EXCEPT !.offset = target]]
    BY <1>2 DEF Seek
<1>4. PICK x \in FileObject : x = file_table[f]
    BY <1>1 DEF TablesOK
<1> DEFINE y == [inode |-> x.inode, offset |-> target,
                 access |-> x.access, mode |-> x.mode]
<1>5. /\ file_table'[f] = [x EXCEPT !.offset = target]
      /\ \A g \in Files \ {f} : file_table'[g] = file_table[g]
    BY <1>1, <1>3, <1>4 DEF TablesOK
<1>6. /\ file_table'[f].inode = x.inode /\ file_table'[f].offset = target
      /\ file_table'[f].access = x.access /\ file_table'[f].mode = x.mode
    BY <1>5, Zenon DEF FileObject
<1>7. Seen(p, d)' = y
    BY <1>2, <1>6, NoFileIsNone, Zenon DEF Seen, File
<1>8. ASSUME NEW q \in Processes, NEW e \in Descriptors, q # p \/ e # d
      PROVE  Seen(q, e)' = Seen(q, e)
    <2>1. CASE fd_table[q][e] # NoFile
        <3>1. fd_table[q][e] \in Files \ {f}
            BY <1>2, <1>8, <2>1, HeldFile, Zenon
        <3> QED BY <1>5, <3>1 DEF Seen, File
    <2>2. CASE fd_table[q][e] = NoFile
        BY <2>2, Zenon DEF Seen
    <2> QED BY <2>1, <2>2
<1>9. Seen(p, d) = [inode |-> x.inode, offset |-> x.offset,
                    access |-> x.access, mode |-> x.mode]
    BY <1>2, <1>4, NoFileIsNone, Zenon DEF Seen, File
<1>10. y = [Seen(p, d) EXCEPT !.offset = target]
    BY <1>9
<1> HIDE DEF y
<1>11. \A q \in Processes, e \in Descriptors : SeenByAll'[q][e] =
               IF q = p /\ e = d THEN y ELSE SeenByAll[q][e]
    BY <1>7, <1>8 DEF SeenByAll
<1>12. SeenByAll' = [q \in Processes |-> [e \in Descriptors |-> SeenByAll'[q][e]]]
    BY DEF SeenByAll
<1>13. SeenByAll' = [SeenByAll EXCEPT ![p][d] = y]
    BY <1>11, <1>12, SeenUpdate, ZenonT(30)
<1>14. SeenByAll[p][d] # Promise!Closed /\ SeenByAll[p][d] = Seen(p, d)
    BY <1>2, SeenResult, NoFileIsNone
<1>15. SeenByAll' = [SeenByAll EXCEPT ![p][d].offset = target]
    BY <1>10, <1>13, <1>14, Zenon
<1>16. Promise!Move(p, d)
    BY <1>14, <1>15, Zenon DEF Promise!Move
<1> QED BY <1>16 DEF PromiseStep, Promise!Next

\* read, write, lseek and readdir move the offset of their descriptor only.
LEMMA MoveSeen ==
    ASSUME Inv, NEW p \in Processes, NEW d \in Descriptors,
           Read(p, d) \/ Write(p, d) \/ Lseek(p, d) \/ Readdir(p, d)
    PROVE  PromiseStep
<1>1. CASE Read(p, d)
    <2>1. Opened(p, d) /\ UNCHANGED <<fd_table, mode>>
        BY <1>1, Zenon DEF Read, Readable, volume
    <2>2. PICK n \in 1 .. SizeLimit :
              /\ File(p, d).offset + n <= size[File(p, d).inode]
              /\ Seek(p, d, File(p, d).offset + n)
        BY <1>1, Zenon DEF Read
    <2>3. PICK o \in 0 .. OffsetLimit : o = File(p, d).offset + n
        <3>1. /\ File(p, d).offset \in 0 .. OffsetLimit
              /\ size[File(p, d).inode] \in 0 .. SizeLimit
            BY <2>1, OpenedFile, Zenon
        <3>2. SizeLimit \in Nat /\ OffsetLimit \in Nat /\ SizeLimit <= OffsetLimit
            BY VolumeAssumption
        <3>3. File(p, d).offset \in Nat /\ n \in Nat
            BY <3>1, <3>2, InInterval, Zenon
        <3>4. size[File(p, d).inode] \in Nat /\ size[File(p, d).inode] <= SizeLimit
            BY <3>1, <3>2, InInterval, Zenon
        <3>5. File(p, d).offset + n \in 0 .. OffsetLimit
            BY <2>2, <3>2, <3>3, <3>4, Advanced, Zenon
        <3> QED BY <3>5, Zenon
    <2> QED BY <2>1, <2>2, <2>3, SeekSeen, Zenon
<1>2. CASE Write(p, d)
    <2>1. Opened(p, d) /\ UNCHANGED <<fd_table, mode>>
        BY <1>2, Zenon DEF Write, Writable
    <2>a. PICK n \in 1 .. SizeLimit : \E m \in 0 .. n :
              /\ File(p, d).offset + n <= SizeLimit
              /\ Seek(p, d, File(p, d).offset + m)
        BY <1>2, Zenon DEF Write
    <2>2. PICK m \in 0 .. n : /\ File(p, d).offset + n <= SizeLimit
                              /\ Seek(p, d, File(p, d).offset + m)
        BY <2>a, Zenon
    <2>3. PICK o \in 0 .. OffsetLimit : o = File(p, d).offset + m
        <3>1. File(p, d).offset \in 0 .. OffsetLimit
            BY <2>1, OpenedFile, Zenon
        <3>2. /\ SizeLimit \in Nat /\ OffsetLimit \in Nat
              /\ SizeLimit <= OffsetLimit /\ SizeLimit <= SizeLimit
            BY VolumeAssumption
        <3>3. File(p, d).offset \in Nat /\ n \in Nat
            BY <3>1, <3>2, InInterval, Zenon
        <3>4. m \in Nat /\ m <= n
            BY <3>3, InInterval, Zenon
        <3>5. File(p, d).offset + m \in 0 .. OffsetLimit
            BY <2>2, <3>2, <3>3, <3>4, AdvancedLess, Zenon
        <3> QED BY <3>5, Zenon
    <2> QED BY <2>1, <2>2, <2>3, SeekSeen
<1>3. CASE Lseek(p, d)
    BY <1>3, SeekSeen DEF Lseek, volume
<1>4. CASE Readdir(p, d)
    <2>1. Opened(p, d) /\ UNCHANGED <<fd_table, mode>>
        BY <1>4, Zenon DEF Readdir, Readable, volume
    <2>2. PICK o \in 0 .. OffsetLimit : Seek(p, d, o)
        BY <1>4, Zenon DEF Readdir
    <2> QED BY <2>1, <2>2, SeekSeen
<1> QED BY <1>1, <1>2, <1>3, <1>4, Zenon

\* What the others see of their descriptors when p gives up those in D.
LEMMA GiveUpSeen ==
    ASSUME Inv, NEW p \in Processes, NEW D \in SUBSET Descriptors,
           \A q \in Processes, e \in Descriptors : fd_table'[q][e] =
               IF q = p /\ e \in D THEN NoFile ELSE fd_table[q][e],
           \A f \in Files : file_table'[f] =
               IF \E e \in D : fd_table[p][e] = f THEN ClearFile ELSE file_table[f]
    PROVE  \A q \in Processes, e \in Descriptors : SeenByAll'[q][e] =
               IF q = p /\ e \in D THEN Promise!Closed ELSE SeenByAll[q][e]
<1> SUFFICES ASSUME NEW q \in Processes, NEW e \in Descriptors
             PROVE  Seen(q, e)' =
                      IF q = p /\ e \in D THEN Promise!Closed ELSE Seen(q, e)
    BY Zenon DEF SeenByAll
<1>1. CASE q = p /\ e \in D
    BY <1>1, Zenon DEF Seen, Promise!Closed
<1>2. CASE ~(q = p /\ e \in D) /\ fd_table[q][e] = NoFile
    BY <1>2, Zenon DEF Seen
<1>3. CASE ~(q = p /\ e \in D) /\ fd_table[q][e] # NoFile
    <2>1. fd_table'[q][e] = fd_table[q][e] /\ fd_table[q][e] \in Files
        <3>1. fd_table[q][e] \in Files
            BY <1>3, HeldFile, Zenon
        <3> QED BY <1>3, <3>1, Zenon
    <2>2. ~ \E g \in D : fd_table[p][g] = fd_table[q][e]
        <3> SUFFICES ASSUME NEW g \in D, fd_table[p][g] = fd_table[q][e] PROVE FALSE
            BY Zenon
        <3>1. g \in Descriptors
            BY Zenon
        <3>2. \A r \in Processes, x \in Descriptors :
                  fd_table[r][x] = fd_table[q][e] => r = q /\ x = e
            BY <1>3, HeldFile, Zenon
        <3>3. p = q /\ g = e
            BY <3>1, <3>2
        <3> QED BY <1>3, <3>3, Zenon
    <2>3. file_table'[fd_table[q][e]] = file_table[fd_table[q][e]]
        BY <2>1, <2>2
    <2> QED BY <1>3, <2>1, <2>3, Zenon DEF Seen, File
<1> QED BY <1>1, <1>2, <1>3, Zenon

\* vfs_close is a close of OpenFiles.
LEMMA CloseSeen ==
    ASSUME Inv, NEW p \in Processes, NEW d \in Descriptors, Close(p, d)
    PROVE  PromiseStep
<1> DEFINE D == {d}
<1>1. /\ \A q \in Processes, e \in Descriptors : fd_table'[q][e] =
           IF q = p /\ e \in D THEN NoFile ELSE fd_table[q][e]
      /\ \A f \in Files : file_table'[f] =
           IF \E e \in D : fd_table[p][e] = f THEN ClearFile ELSE file_table[f]
      /\ UNCHANGED mode
    BY CloseResult, Zenon
<1>2. D \in SUBSET Descriptors /\ \A e \in Descriptors : e \in D <=> e = d
    OBVIOUS
<1> HIDE DEF D
<1>3. \A q \in Processes, e \in Descriptors : SeenByAll'[q][e] =
           IF q = p /\ e \in D THEN Promise!Closed ELSE SeenByAll[q][e]
    BY <1>1, <1>2, GiveUpSeen, Zenon
<1>4. \A q \in Processes, e \in Descriptors : SeenByAll'[q][e] =
           IF q = p /\ e = d THEN Promise!Closed ELSE SeenByAll[q][e]
    BY <1>2, <1>3
<1>5. SeenByAll' = [q \in Processes |-> [e \in Descriptors |-> SeenByAll'[q][e]]]
    BY DEF SeenByAll
<1>6. SeenByAll' = [SeenByAll EXCEPT ![p][d] = Promise!Closed]
    BY <1>4, <1>5, SeenUpdate, ZenonT(30)
<1>7. SeenByAll[p][d] # Promise!Closed
    BY SeenResult DEF Close
<1>8. Promise!Close(p, d)
    BY <1>1, <1>6, <1>7, Zenon DEF Promise!Close
<1> QED BY <1>8 DEF PromiseStep, Promise!Next

\* An exit closes the descriptors of its process and of no other.
LEMMA ExitSeen ==
    ASSUME Inv, NEW p \in Processes, Exit(p)
    PROVE  PromiseStep
<1>1. /\ \A q \in Processes, e \in Descriptors : fd_table'[q][e] =
           IF q = p /\ e \in Descriptors THEN NoFile ELSE fd_table[q][e]
      /\ \A f \in Files : file_table'[f] =
           IF \E e \in Descriptors : fd_table[p][e] = f
           THEN ClearFile ELSE file_table[f]
      /\ UNCHANGED mode
    BY ExitResult, Zenon
<1>2. Descriptors \in SUBSET Descriptors
    OBVIOUS
<1>3. \A q \in Processes, e \in Descriptors : SeenByAll'[q][e] =
           IF q = p /\ e \in Descriptors THEN Promise!Closed ELSE SeenByAll[q][e]
    BY <1>1, <1>2, GiveUpSeen, Zenon
<1>4. SeenByAll' = [q \in Processes |-> [e \in Descriptors |-> SeenByAll'[q][e]]]
    BY DEF SeenByAll
<1>5. SeenByAll = [q \in Processes |-> [e \in Descriptors |-> SeenByAll[q][e]]]
    BY SeenResult
<1>6. SeenByAll' = [SeenByAll EXCEPT ![p] = [d \in Descriptors |-> Promise!Closed]]
    BY <1>3, <1>4, <1>5
<1>7. Promise!End(p)
    BY <1>1, <1>6 DEF Promise!End
<1> QED BY <1>7 DEF PromiseStep, Promise!Next

\* unlink frees an inode that no descriptor of any process names.
LEMMA UnlinkSeen ==
    ASSUME Inv, NEW p \in Processes, Unlink(p)
    PROVE  PromiseStep
<1>1. PICK i \in Inodes : /\ ~Busy(i)
                          /\ \E left \in {"free", "lost", mode[i]} :
                                mode' = [mode EXCEPT ![i] = left]
    BY Zenon DEF Unlink
<1>2. PICK left \in {"free", "lost", mode[i]} : mode' = [mode EXCEPT ![i] = left]
    BY <1>1, Zenon
<1>4. UNCHANGED SeenByAll
    BY SeenSame DEF Unlink
<1>5. ~Promise!InUse(i)
    <2> SUFFICES ASSUME NEW q \in Processes, NEW e \in Descriptors,
                        SeenByAll[q][e] # Promise!Closed, SeenByAll[q][e].inode = i
                 PROVE  FALSE
        BY DEF Promise!InUse
    <2>1. fd_table[q][e] # NoFile /\ SeenByAll[q][e] = Seen(q, e)
        BY SeenResult
    <2>2. fd_table[q][e] \in Files /\ file_table[fd_table[q][e]].used
        BY <2>1, HeldFile, Zenon
    <2>3. file_table[fd_table[q][e]].inode = i
        BY <2>1, SeenInode, Zenon
    <2> QED BY <1>1, <2>2, <2>3, Zenon DEF Busy
<1>6. CASE left \in {"free", "lost"}
    <2>1. Promise!Free(i)
        BY <1>2, <1>4, <1>5, <1>6, Zenon DEF Promise!Free
    <2> QED BY <2>1 DEF PromiseStep, Promise!Next
<1>7. CASE left = mode[i]
    <2>1. UNCHANGED mode
        BY <1>2, <1>7 DEF Inv, TypeOK
    <2> QED BY <1>4, <2>1 DEF PromiseStep
<1> QED BY <1>6, <1>7

\* Every step of vfs.c is a step of OpenFiles, or invisible to it.
LEMMA StepSeen == Inv /\ [Next]_vars => [Promise!Next]_<<SeenByAll, mode>>
<1> SUFFICES ASSUME Inv, [Next]_vars PROVE PromiseStep
    BY DEF PromiseStep
<1>1. ASSUME NEW p \in Processes, Open(p) PROVE PromiseStep
    BY <1>1, OpenSeen
<1>2. ASSUME NEW p \in Processes, Create(p) \/ Mkdir(p) PROVE PromiseStep
    <2>1. PICK d \in Directories, n \in Names, kind \in Kinds : Makes(d, n, kind)
        BY <1>2 DEF Create, Mkdir, Makes, Kinds
    <2>2. UNCHANGED <<fd_table, file_table>>
        BY <1>2 DEF Create, Mkdir
    <2>3. TypeOK /\ d \in Inodes
        BY DirectoriesNamed DEF Inv
    <2> QED BY <2>1, <2>2, <2>3, MakesSeen
<1>3. ASSUME NEW p \in Processes, Unlink(p) PROVE PromiseStep
    BY <1>3, UnlinkSeen
<1>4. ASSUME NEW p \in Processes, Exit(p) PROVE PromiseStep
    BY <1>4, ExitSeen
<1>5. ASSUME NEW p \in Processes, Reap(p) PROVE PromiseStep
    BY <1>5, ReapKeeps, SeenSame DEF PromiseStep
<1>6. ASSUME NEW p \in Processes, NEW d \in Descriptors,
             Close(p, d) \/ Read(p, d) \/ Write(p, d) \/ Lseek(p, d) \/ Readdir(p, d)
      PROVE  PromiseStep
    BY <1>6, CloseSeen, MoveSeen
<1>7. ASSUME NEW p \in Processes, NEW q \in Processes, Spawn(p, q) PROVE PromiseStep
    BY <1>7, SpawnKeeps, SeenSame DEF PromiseStep
<1>8. CASE UNCHANGED vars
    BY <1>8, SeenSame DEF PromiseStep, vars, volume
<1> QED BY <1>1, <1>2, <1>3, <1>4, <1>5, <1>6, <1>7, <1>8 DEF Next

\* Although all processes share one table of file objects, every descriptor
\* of every process behaves as if it had its file object to itself: vfs.c
\* implements OpenFiles.
THEOREM DescriptorsKeepPromise == Spec => DescriptorsIndependent
<1>1. Init => Promise!Init
    <2> SUFFICES ASSUME Init PROVE Promise!Init
        OBVIOUS
    <2>1. \A p \in Processes, d \in Descriptors : Seen(p, d) = Promise!Closed
        BY Zenon DEF Init, Seen, Promise!Closed
    <2>2. SeenByAll = [p \in Processes |-> [d \in Descriptors |-> Promise!Closed]]
        BY <2>1 DEF SeenByAll
    <2>3. mode \in [Inodes -> Kinds \cup {"free"}]
        BY DEF Init, Kinds
    <2> QED BY <2>2, <2>3 DEF Promise!Init
<1> QED BY <1>1, StepSeen, Invariance, PTL
        DEF Spec, DescriptorsIndependent, Promise!Spec
=============================================================================
