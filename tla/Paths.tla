------------------------------- MODULE Paths --------------------------------
(***************************************************************************)
(* Path names at the system call interface (kernel/core/syscall.c): the    *)
(* name that a program passes is made absolute with the process's working  *)
(* directory and normalised, in a buffer of fixed size, before the virtual *)
(* file system sees it; chdir stores such a path in the process.  A path   *)
(* is a sequence of characters, strings of length one.                     *)
(***************************************************************************)
EXTENDS Integers, Sequences, FiniteSets, SequencesExt

CONSTANTS NameLetters,      \* the characters of names besides "." and "/"
          PathMax           \* SYSCALL_PATH_MAX = MINIOS_PROCESS_CWD_SIZE, 256

ASSUME PathAssumption ==
    /\ NameLetters \cap {"/", "."} = {}
    /\ PathMax \in Nat /\ PathMax >= 2

VARIABLES
    cwd,        \* the process's current_working_directory
    name        \* the path it passes to the next system call

pathVars == <<cwd, name>>

EINVAL == <<"EINVAL">>

Root == <<"/">>

-----------------------------------------------------------------------------
\* The components that append_path_components finds in a source: the longest
\* runs of characters without a slash.
Components(source) ==
    LET slash(k) == k \notin DOMAIN source \/ source[k] = "/"
        starts == SetToSortSeq({k \in DOMAIN source : ~slash(k) /\ slash(k - 1)}, <)
        end(k) == CHOOSE e \in k .. Len(source) : slash(e + 1) /\ \A i \in k .. e : ~slash(i)
    IN  [n \in DOMAIN starts |-> SubSeq(source, starts[n], end(starts[n]))]

\* Mutant of RemoveLastComponent: the slash before the component stays.
RemoveLastComponentOnly(path) ==
    LET last == CHOOSE k \in DOMAIN path :
                    path[k] = "/" /\ \A i \in k + 1 .. Len(path) : path[i] # "/"
    IN  SubSeq(path, 1, last)

\* remove_last_path_component
RemoveLastComponent(path) ==
    LET last == CHOOSE k \in DOMAIN path :
                    path[k] = "/" /\ \A i \in k + 1 .. Len(path) : path[i] # "/"
    IN  SubSeq(path, 1, IF last > 1 THEN last - 1 ELSE 1)

\* The body of the loop of append_path_components.
AppendComponent(path, component) ==
    LET separator == IF Len(path) > 1 THEN Root ELSE <<>>
    IN  CASE path = EINVAL -> EINVAL
          [] path # EINVAL /\ component = <<".">> -> path
          [] path # EINVAL /\ component = <<".", ".">> -> RemoveLastComponent(path)
          [] OTHER -> IF Len(separator) + Len(component) >= PathMax - Len(path) THEN EINVAL
                      ELSE path \o separator \o component

AppendPathComponents(path, source) == FoldLeft(AppendComponent, path, Components(source))

\* normalize_path
NormalizePath(input) ==
    LET base == IF input[1] = "/" THEN Root ELSE AppendPathComponents(Root, cwd)
        path == AppendPathComponents(base, input)
    IN  IF path # EINVAL /\ Len(input) > 1 /\ Last(input) = "/" /\ Len(path) > 1
        THEN IF Len(path) + 1 >= PathMax THEN EINVAL ELSE Append(path, "/")
        ELSE path

\* copy_syscall_path, once the string has been copied: the path that open, create,
\* unlink, mkdir, stat, chdir and spawn hand on to the file system.
CopySyscallPath(input) == IF input = <<>> THEN EINVAL ELSE NormalizePath(input)

\* The process makes up its next path; copy_user_string takes no longer one.
Spell == \E c \in NameLetters \cup {"/", "."} :
    /\ Len(name) < PathMax - 1
    /\ name' = Append(name, c)
    /\ UNCHANGED cwd

\* syscall_chdir and scheduler_set_current_working_directory; whether the path
\* names a directory is the file system's to say.
Chdir == \E isDirectory \in BOOLEAN :
    LET path == CopySyscallPath(name)
        bare == IF Len(path) > 1 /\ Last(path) = "/" THEN Front(path) ELSE path
    IN  /\ cwd' = IF path # EINVAL /\ isDirectory /\ bare[1] = "/" /\ Len(bare) \in 1 .. PathMax - 1
                  THEN bare ELSE cwd
        /\ name' = <<>>

PathInit == cwd = Root /\ name = <<>>

PathNext == Spell \/ Chdir

PathSpec == PathInit /\ [][PathNext]_pathVars

-----------------------------------------------------------------------------
\* Properties.

\* The directories passed on the way from the root, one per component.
Walk(components) ==
    LET walk[k \in 0 .. Len(components)] ==
            IF k = 0 THEN <<>>
            ELSE CASE components[k] = <<".">> -> walk[k - 1]
                   [] components[k] = <<".", ".">> ->
                         IF walk[k - 1] = <<>> THEN <<>> ELSE Front(walk[k - 1])
                   [] OTHER -> Append(walk[k - 1], components[k])
    IN  walk

\* A list of names as an absolute path.
Spelled(names) ==
    IF names = <<>> THEN Root
    ELSE FoldLeft(LAMBDA path, n : path \o Root \o n, <<>>, names)

\* A system call gets the path that walking from the working directory, or from
\* the root, component by component leads to: ".." leaves a directory and stays
\* at the root, "." and repeated slashes do nothing, a final slash is kept.  It
\* is refused exactly when a path on the way, its final slash and the NUL
\* included, does not fit in the buffer.  And after any sequence of chdirs the
\* working directory is such a path itself, without a final slash.
PathsResolve ==
    LET from  == IF name # <<>> /\ name[1] = "/" THEN <<>> ELSE Components(cwd)
        all   == from \o Components(name)
        walk  == Walk(all)
        target == Spelled(walk[Len(all)])
        slash == IF Len(name) > 1 /\ Last(name) = "/" /\ target # Root THEN Root ELSE <<>>
        fits  == /\ \A k \in DOMAIN walk : Len(Spelled(walk[k])) < PathMax
                 /\ Len(target \o slash) < PathMax
    IN  /\ name # <<>> => CopySyscallPath(name) = IF fits THEN target \o slash ELSE EINVAL
        /\ Len(cwd) < PathMax /\ cwd = Spelled(Components(cwd))
        /\ \A k \in DOMAIN Components(cwd) : Components(cwd)[k] \notin {<<".">>, <<".", ".">>}
=============================================================================
