-------------------------- MODULE SchedulerProofs --------------------------
(***************************************************************************)
(* Proofs about Scheduler, for every size of the process table, every PID  *)
(* range, every time slice and every width of the tick counter.            *)
(*                                                                         *)
(* Inv is inductive.  The proof has one lemma per operation; what the      *)
(* searches of the table return is settled first.                          *)
(***************************************************************************)
EXTENDS Scheduler, WellFoundedInduction, TLAPS

-----------------------------------------------------------------------------
\* Numbers.

\* A difference of two residues needs at most one correction.
LEMMA ModDifference ==
    ASSUME NEW m \in Nat \ {0}, NEW a \in 0 .. m - 1, NEW b \in 0 .. m - 1
    PROVE  (a - b) % m = IF a < b THEN a - b + m ELSE a - b
<1> DEFINE d == a - b
<1>1. d \in Int /\ -m < d /\ d < m
    OBVIOUS
<1> HIDE DEF d
<1>2. d % m = IF d < 0 THEN d + m ELSE d
    BY <1>1
<1> QED BY <1>2 DEF d

\* A sum of two residues needs at most one correction.
LEMMA ModSum ==
    ASSUME NEW m \in Nat \ {0}, NEW a \in 0 .. m - 1, NEW b \in 0 .. m - 1
    PROVE  /\ (a + b) % m \in 0 .. m - 1
           /\ (a + b) % m = IF a + b < m THEN a + b ELSE a + b - m
<1> DEFINE d == a + b
<1>1. d \in Nat /\ d < 2 * m
    OBVIOUS
<1> HIDE DEF d
<1>2. /\ d % m \in 0 .. m - 1
      /\ d % m = IF d < m THEN d ELSE d - m
    BY <1>1
<1> QED BY <1>2 DEF d

\* A non-empty set of naturals has a least element.
LEMMA LeastElement ==
    ASSUME NEW T \in SUBSET Nat, T # {}
    PROVE  \E x \in T : \A y \in T : x <= y
<1>1. PICK x \in T : \A y \in T : ~(<<y, x>> \in OpToRel(<, Nat))
    BY NatLessThanWellFounded, WFMin, Zenon
<1>2. \A y \in T : ~(y < x)
    BY <1>1, Zenon DEF OpToRel
<1> QED BY <1>2

\* A function on n numbers misses one of any m > n numbers.  (Take the least n
\* for which one does not; where it yields m, let it yield the value at n
\* instead, and there is a smaller n.)
LEMMA Pigeonhole ==
    ASSUME NEW n \in Nat, NEW m \in Nat, n < m, NEW f \in [1 .. n -> Nat]
    PROVE  \E p \in 1 .. m : \A s \in 1 .. n : f[s] # p
<1> DEFINE Onto(g, k, l) == \A p \in 1 .. l : \E s \in 1 .. k : g[s] = p
           Small == {k \in Nat : \E l \in Nat, g \in [1 .. k -> Nat] : k < l /\ Onto(g, k, l)}
<1> SUFFICES ASSUME Onto(f, n, m) PROVE FALSE
    OBVIOUS
<1>1. n \in Small
    BY Zenon
<1>2. PICK k \in Small : \A j \in Small : k <= j
    <2>1. Small \in SUBSET Nat /\ Small # {}
        BY <1>1, Zenon
    <2> HIDE DEF Small
    <2> QED BY <2>1, LeastElement, Zenon
<1>3. PICK l \in Nat, g \in [1 .. k -> Nat] : k < l /\ Onto(g, k, l)
    BY <1>2, Zenon
<1>4. k \in Nat /\ k # 0
    <2>1. PICK s \in 1 .. k : g[s] = l
        BY <1>2, <1>3
    <2> QED BY <1>2, <2>1
<1> DEFINE h == [s \in 1 .. k - 1 |-> IF g[s] = l THEN g[k] ELSE g[s]]
<1>5. h \in [1 .. k - 1 -> Nat]
    BY <1>3, <1>4
<1>6. Onto(h, k - 1, l - 1)
    <2> SUFFICES ASSUME NEW p \in 1 .. l - 1
                 PROVE  \E s \in 1 .. k - 1 : h[s] = p
        BY Zenon
    <2>1. PICK s \in 1 .. k : g[s] = p
        BY <1>3
    <2>2. PICK r \in 1 .. k : g[r] = l
        <3>1. l \in 1 .. l
            BY <1>3, <1>4
        <3> QED BY <1>3, <3>1, Zenon
    <2>3. CASE s # k
        <3>1. s \in 1 .. k - 1 /\ p # l
            BY <1>4, <2>3
        <3> QED BY <2>1, <3>1
    <2>4. CASE s = k
        <3>1. r \in 1 .. k - 1
            BY <1>4, <2>1, <2>2, <2>4
        <3> QED BY <2>1, <2>2, <2>4, <3>1
    <2> QED BY <2>3, <2>4
<1>7. k - 1 \in Nat /\ l - 1 \in Nat /\ k - 1 < l - 1
    BY <1>3, <1>4
<1>8. k - 1 \in Small
    <2> HIDE DEF h, Onto
    <2> QED BY <1>5, <1>6, <1>7, Zenon
<1> HIDE DEF Small
<1> QED BY <1>2, <1>4, <1>8

-----------------------------------------------------------------------------
\* Searches of the process table.

\* Slot 0 is in the table, and NULL is no slot.
LEMMA SlotFacts ==
    /\ 0 \in Slots
    /\ Slots \subseteq Nat
    /\ NULL \notin Slots
    /\ \A s \in Slots \ {0} : s > 0
  BY LimitAssumption DEF Slots, NULL

\* find_next_ready returns a READY slot whenever there is one.
LEMMA FindNextReadyResult ==
    ASSUME NEW st, NEW after \in Slots
    PROVE  LET n == FindNextReady(st, after)
           IN  \/ n = NULL /\ \A s \in Slots : st[s] # "READY"
               \/ n \in Slots /\ st[n] = "READY"
<1> DEFINE ready == {s \in Slots : st[s] = "READY"}
           D == {Distance(after, s) : s \in ready}
<1>1. CASE ready = {}
    BY <1>1 DEF FindNextReady
<1>2. CASE ready # {}
    <2>1. D \in SUBSET Nat /\ D # {}
        BY <1>2, LimitAssumption DEF Distance, Slots
    <2>2. PICK d \in D : \A e \in D : d <= e
        BY <2>1, LeastElement, Zenon
    <2>3. \E s \in ready :
              \A r \in ready : Distance(after, s) <= Distance(after, r)
        BY <2>2
    <2>4. FindNextReady(st, after) \in ready
        BY <1>2, <2>3, Zenon DEF FindNextReady
    <2> QED BY <2>4
<1> QED BY <1>1, <1>2

\* find_child returns one of the slots it accepts.
LEMMA FindChildResult ==
    ASSUME NEW C \in SUBSET Slots
    PROVE  IF C = {} THEN FindChild(C) = NULL ELSE FindChild(C) \in C
<1>1. CASE C # {}
    <2>1. \E c \in C : \A d \in C : c <= d
        BY <1>1, LeastElement, SlotFacts, Zenon
    <2> QED BY <1>1, <2>1, Zenon DEF FindChild
<1> QED BY <1>1 DEF FindChild

\* find_unused_process returns an UNUSED slot other than slot 0, if any.
LEMMA FindUnusedResult ==
    \/ FindUnused = NULL
    \/ FindUnused \in Slots \ {0} /\ state[FindUnused] = "UNUSED"
<1> DEFINE unused == {s \in Slots \ {0} : state[s] = "UNUSED"}
<1>1. CASE unused # {}
    <2>1. \E s \in unused : \A r \in unused : s <= r
        BY <1>1, LeastElement, SlotFacts, Zenon
    <2>2. FindUnused \in unused
        BY <1>1, <2>1, Zenon DEF FindUnused
    <2> QED BY <2>2
<1>2. CASE unused = {}
    BY <1>2 DEF FindUnused
<1> QED BY <1>1, <1>2

\* allocate_pid succeeds and returns a PID that no entry of the table has: the
\* table is smaller than the range of PIDs, and the boot thread's is 0.
LEMMA AllocatedPidResult ==
    ASSUME TypeOK, PidsAllocated, pid[0] = 0
    PROVE  AllocatedPid \in 1 .. PidMaximum /\ ~PidInUse(AllocatedPid)
<1>1. CASE next_pid # 0
    BY <1>1, SMT DEF AllocatedPid, PidInUse, TypeOK, PidsAllocated
<1>2. CASE next_pid = 0
    <2> DEFINE last == ProcessLimit - 1
               pids == [s \in 1 .. last |-> pid[s]]
               free == {p \in 1 .. PidMaximum : ~PidInUse(p)}
    <2>1. last \in Nat /\ PidMaximum \in Nat /\ last < PidMaximum
        BY LimitAssumption, PidAssumption
    <2>2. /\ pids \in [1 .. last -> Nat]
          /\ \A s \in Slots : s = 0 \/ s \in 1 .. last
        <3>1. \A s \in Slots : s = 0 \/ s \in 1 .. last
            BY LimitAssumption DEF Slots
        <3>2. \A s \in 1 .. last : s \in Slots
            BY LimitAssumption DEF Slots
        <3>3. \A s \in Slots : pid[s] \in Nat
            BY PidAssumption DEF TypeOK
        <3> QED BY <3>1, <3>2, <3>3, Zenon
    <2>3. PICK p \in 1 .. PidMaximum : \A s \in 1 .. last : pids[s] # p
        <3> HIDE DEF last, pids
        <3> QED BY <2>1, <2>2, Pigeonhole, Zenon
    <2>4. p # 0 /\ \A s \in Slots : pid[s] # p
        BY <2>1, <2>2, <2>3
    <2>5. free # {}
        BY <2>3, <2>4 DEF PidInUse
    <2>6. PICK first \in free : \A q \in free : first <= q
        <3>1. free \in SUBSET Nat
            OBVIOUS
        <3> HIDE DEF free
        <3> QED BY <2>5, <3>1, LeastElement
    <2>7. ~PidInUse(first) /\ \A q \in 1 .. first - 1 : PidInUse(q)
        <3> SUFFICES ASSUME NEW q \in 1 .. first - 1, ~PidInUse(q) PROVE FALSE
            BY <2>6
        <3>1. q \in free
            BY PidAssumption
        <3> QED BY <2>6, <3>1
    <2>8. AllocatedPid = CHOOSE x \in 1 .. PidMaximum :
                            ~PidInUse(x) /\ \A q \in 1 .. x - 1 : PidInUse(q)
        BY <1>2 DEF AllocatedPid
    <2> QED BY <2>6, <2>7, <2>8, Zenon
<1> QED BY <1>1, <1>2

-----------------------------------------------------------------------------
\* One lemma per operation.

\* The children and the zombies of every process stay the same in a step that
\* creates, ends and reaps nothing.
LEMMA SameChildren ==
    ASSUME UNCHANGED <<pid, parent_pid>>,
           \A s \in Slots : /\ state'[s] = "UNUSED" <=> state[s] = "UNUSED"
                            /\ state'[s] = "ZOMBIE" <=> state[s] = "ZOMBIE"
    PROVE  \A p, w : /\ Children(p, w)' = Children(p, w)
                     /\ Zombies(p, w)' = Zombies(p, w)
  BY Zenon DEF Children, Zombies

\* kernel_thread_create, user_process_create and scheduler_spawn_image.
LEMMA CreateStep ==
    ASSUME Inv, Executing(current), NEW u \in BOOLEAN, Create(u),
           phase' \in {"threads", "programs", "idle"},
           phase' = "threads" => phase = "threads" /\ ~u,
           wait_pid[0] # NoCall => phase' = phase
    PROVE  Inv'
<1> DEFINE new == FindUnused
           np == AllocatedPid
<1>1. new \in Slots \ {0} /\ state[new] = "UNUSED"
    BY FindUnusedResult DEF Create
<1>2. np \in 1 .. PidMaximum /\ ~PidInUse(np)
    BY AllocatedPidResult DEF Inv, BootThread
<1>3. /\ pid' = [pid EXCEPT ![new] = np]
      /\ next_pid' = PidAfterAllocation
      /\ state' = [state EXCEPT ![new] = "READY"]
      /\ parent_pid' = [parent_pid EXCEPT ![new] = pid[current]]
      /\ time_slice' = [time_slice EXCEPT ![new] = DefaultSlice]
      /\ user' = [user EXCEPT ![new] = u]
      /\ orphan' = [orphan EXCEPT ![new] = FALSE]
      /\ UNCHANGED <<exit_code, wake_tick, wait_node, current, tick,
                     wait_pid, panicked>>
    BY DEF Create
<1>4. np = next_pid \/ next_pid = 0
    BY DEF AllocatedPid
<1> HIDE DEF new, np
<1> USE DEF Inv
<1>5. TypeOK'
    BY <1>1, <1>2, <1>3, SliceAssumption, PidAssumption
       DEF TypeOK, ProcessStates, PidAfterAllocation
<1>6. SoleRunner' /\ NoPanic'
    BY <1>1, <1>3 DEF SoleRunner, NoPanic, TypeOK
<1>7. PidsUnique'
    BY <1>1, <1>2, <1>3 DEF PidsUnique, PidInUse, TypeOK
<1>8. BootThread'
    BY <1>1, <1>3 DEF BootThread, Sleeping, TypeOK
<1>9. OnlyUsersBlock'
    BY <1>1, <1>3 DEF OnlyUsersBlock, TypeOK
<1>10. CallStates'
    BY <1>1, <1>3 DEF CallStates, Runnable, TypeOK
<1>11. current \in Slots /\ state[current] = "RUNNING"
    BY DEF TypeOK, SoleRunner
<1>12. PidsAllocated'
    BY <1>1, <1>2, <1>3, <1>4, <1>11, SMT
       DEF PidsAllocated, PidAfterAllocation, PidInUse, TypeOK
<1>13. \A p \in Slots \ {new, current}, w \in Int :
           state[p] # "UNUSED" => Children(p, w)' = Children(p, w)
    BY <1>1, <1>3, <1>11 DEF Children, PidsUnique, TypeOK
<1>14. \A p \in Slots \ {new}, w \in Int : Zombies(p, w)' = Zombies(p, w)
    BY <1>1, <1>3 DEF Children, Zombies, TypeOK
<1>15. WaiterHasLiveChild'
    <2> SUFFICES ASSUME NEW p \in Slots,
                        state'[p] = "BLOCKED", wait_node'[p] # NULL
                 PROVE  WaiterHasLiveChild!(p)!2'
        BY DEF WaiterHasLiveChild
    <2>1. p # new /\ p # current /\ state[p] = "BLOCKED"
        BY <1>1, <1>3, <1>11 DEF TypeOK
    <2>2. wait_pid[p] \in Int
        BY DEF TypeOK
    <2>3. Children(p, wait_pid[p])' = Children(p, wait_pid[p])
        BY <1>3, <1>13, <2>1, <2>2
    <2>4. Zombies(p, wait_pid[p])' = Zombies(p, wait_pid[p])
        BY <1>3, <1>14, <2>1, <2>2
    <2> QED BY <1>3, <2>1, <2>3, <2>4 DEF WaiterHasLiveChild
<1>16. WokenWaiterFindsZombie'
    <2> SUFFICES ASSUME NEW p \in Slots, wait_pid'[p] # NoCall, Runnable(p)'
                 PROVE  Zombies(p, wait_pid[p])' # {}
        BY DEF WokenWaiterFindsZombie
    <2>1. p # new /\ Runnable(p) /\ wait_pid[p] # NoCall
        BY <1>1, <1>3 DEF TypeOK, CallStates, Runnable
    <2>2. wait_pid[p] \in Int
        BY DEF TypeOK
    <2>3. Zombies(p, wait_pid[p])' = Zombies(p, wait_pid[p])
        BY <1>3, <1>14, <2>1, <2>2
    <2> QED BY <2>1, <2>3 DEF WokenWaiterFindsZombie
<1>17. SleepersOnTime'
    BY <1>1, <1>3 DEF SleepersOnTime, Sleeping, TypeOK
<1>18. OrphansStayOrphans'
    BY <1>1, <1>2, <1>3, <1>4, <1>11, SMT
       DEF OrphansStayOrphans, PidsAllocated, PidAfterAllocation, TypeOK
<1> QED BY <1>5, <1>6, <1>7, <1>8, <1>9, <1>10, <1>12, <1>15, <1>16, <1>17,
           <1>18

\* reap_process, as waitpid and the boot thread's tests use it.
LEMMA ReapStep ==
    ASSUME Inv, NEW c \in Slots \ {0}, state[c] = "ZOMBIE", Reap(c),
           parent_pid[c] = pid[current],
           wait_pid' = [wait_pid EXCEPT ![current] = NoCall],
           UNCHANGED <<current, next_pid, tick, phase>>
    PROVE  Inv'
<1> USE DEF Inv
<1>1. current \in Slots /\ state[current] = "RUNNING" /\ c # current
    BY DEF TypeOK, SoleRunner
<1>2. TypeOK'
    BY PidAssumption, SliceAssumption, TickAssumption
       DEF TypeOK, Reap, ProcessStates, NoCall
<1>3. SoleRunner' /\ NoPanic'
    BY <1>1 DEF SoleRunner, NoPanic, TypeOK, Reap
<1>4. PidsUnique'
    BY DEF PidsUnique, TypeOK, Reap
<1>5. BootThread'
    BY <1>1, SlotFacts DEF BootThread, Sleeping, TypeOK, Reap
<1>6. OnlyUsersBlock'
    BY DEF OnlyUsersBlock, TypeOK, Reap
<1>7. CallStates'
    BY <1>1 DEF CallStates, Runnable, TypeOK, Reap
<1>8. PidsAllocated'
    BY DEF PidsAllocated, TypeOK, Reap
<1>9. \A p \in Slots \ {c, current}, w \in Int :
          state[p] # "UNUSED" => /\ Children(p, w)' = Children(p, w)
                                 /\ Zombies(p, w)' = Zombies(p, w)
    BY <1>1 DEF Children, Zombies, PidsUnique, TypeOK, Reap
<1>10. WaiterHasLiveChild'
    <2> SUFFICES ASSUME NEW p \in Slots,
                        state'[p] = "BLOCKED", wait_node'[p] # NULL
                 PROVE  WaiterHasLiveChild!(p)!2'
        BY DEF WaiterHasLiveChild
    <2>1. /\ p # c /\ p # current
          /\ state[p] = "BLOCKED" /\ wait_node[p] # NULL
          /\ wait_pid'[p] = wait_pid[p] /\ wait_node'[p] = wait_node[p]
        BY <1>1 DEF TypeOK, Reap
    <2>2. wait_pid[p] \in Int
        BY DEF TypeOK
    <2>3. /\ Children(p, wait_pid[p])' = Children(p, wait_pid[p])
          /\ Zombies(p, wait_pid[p])' = Zombies(p, wait_pid[p])
        BY <1>9, <2>1, <2>2
    <2> QED BY <2>1, <2>3 DEF WaiterHasLiveChild
<1>11. WokenWaiterFindsZombie'
    <2> SUFFICES ASSUME NEW p \in Slots, wait_pid'[p] # NoCall, Runnable(p)'
                 PROVE  Zombies(p, wait_pid[p])' # {}
        BY DEF WokenWaiterFindsZombie
    <2>1. /\ p # c /\ p # current
          /\ wait_pid[p] # NoCall /\ Runnable(p)
          /\ wait_pid'[p] = wait_pid[p]
        BY <1>1 DEF TypeOK, Reap, Runnable
    <2>2. wait_pid[p] \in Int /\ state[p] # "UNUSED"
        BY <2>1 DEF TypeOK, Runnable
    <2>3. Zombies(p, wait_pid[p])' = Zombies(p, wait_pid[p])
        BY <1>9, <2>1, <2>2
    <2> QED BY <2>1, <2>3 DEF WokenWaiterFindsZombie
<1>12. SleepersOnTime'
    BY DEF SleepersOnTime, Sleeping, TypeOK, Reap
<1>13. OrphansStayOrphans'
    BY DEF OrphansStayOrphans, TypeOK, Reap
<1> QED BY <1>2, <1>3, <1>4, <1>5, <1>6, <1>7, <1>8, <1>10, <1>11, <1>12, <1>13

\* switch_to leaves one RUNNING process, current_process.
LEMMA SwitchResult ==
    ASSUME NEW st \in [Slots -> ProcessStates], NEW n \in Slots,
           \A s \in Slots : st[s] # "RUNNING",
           SwitchTo(st, n), time_slice \in [Slots -> 0 .. DefaultSlice]
    PROVE  /\ SoleRunner'
           /\ current' \in Slots
           /\ state' \in [Slots -> ProcessStates]
           /\ time_slice' \in [Slots -> 0 .. DefaultSlice]
  BY SliceAssumption DEF SwitchTo, SoleRunner, ProcessStates

\* A step that only moves the CPU between runnable processes and wakes
\* sleepers keeps what the invariant says about the others.
LEMMA QuietStep ==
    ASSUME Inv, TypeOK', SoleRunner', SleepersOnTime',
           UNCHANGED <<identity, exit_code, wait_node, next_pid, wait_pid,
                       phase, panicked, orphan>>,
           \A s \in Slots : \/ state'[s] = state[s]
                            \/ Runnable(s) /\ Runnable(s)'
                            \/ Sleeping(s) /\ Runnable(s)'
    PROVE  Inv'
<1> USE DEF Inv, identity
<1>1. \A s \in Slots : /\ state'[s] = "UNUSED" <=> state[s] = "UNUSED"
                       /\ state'[s] = "ZOMBIE" <=> state[s] = "ZOMBIE"
                       /\ state'[s] = "BLOCKED" => state[s] = "BLOCKED"
    BY DEF Runnable, Sleeping
<1>2. \A p, w : /\ Children(p, w)' = Children(p, w)
                /\ Zombies(p, w)' = Zombies(p, w)
    BY <1>1, SameChildren
<1>3. NoPanic' /\ PidsUnique' /\ PidsAllocated' /\ OrphansStayOrphans'
    BY <1>1 DEF NoPanic, PidsUnique, PidsAllocated, OrphansStayOrphans
<1>4. BootThread' /\ OnlyUsersBlock'
    BY <1>1, SlotFacts
       DEF BootThread, OnlyUsersBlock, Runnable, Sleeping
<1>5. CallStates'
    BY DEF CallStates, Runnable, Sleeping
<1>6. WaiterHasLiveChild'
    BY <1>1, <1>2 DEF WaiterHasLiveChild
<1>7. WokenWaiterFindsZombie'
    BY <1>2, Zenon DEF WokenWaiterFindsZombie, CallStates, Runnable, Sleeping
<1> QED BY <1>3, <1>4, <1>5, <1>6, <1>7

\* scheduler_yield.
LEMMA YieldStep ==
    ASSUME Inv, Yield
    PROVE  Inv'
<1> DEFINE st == [state EXCEPT ![current] = "READY"]
           n == FindNextReady(st, current)
<1> USE DEF Inv
<1>1. current \in Slots /\ wait_pid[current] = NoCall
    BY DEF TypeOK, Yield, Executing
<1>2. n \in Slots /\ st[n] = "READY"
    BY <1>1, FindNextReadyResult, Zenon DEF TypeOK
<1>3. /\ SwitchTo(st, n)
      /\ UNCHANGED <<identity, exit_code, wake_tick, wait_node, next_pid,
                     tick, wait_pid, phase, panicked, orphan>>
    BY DEF Yield
<1> HIDE DEF n
<1>4. st \in [Slots -> ProcessStates] /\ \A s \in Slots : st[s] # "RUNNING"
    BY <1>1 DEF TypeOK, SoleRunner, ProcessStates
<1>5. /\ SoleRunner'
      /\ current' \in Slots
      /\ state' \in [Slots -> ProcessStates]
      /\ time_slice' \in [Slots -> 0 .. DefaultSlice]
    <2> HIDE DEF st
    <2> QED BY <1>2, <1>3, <1>4, SwitchResult DEF TypeOK
<1>6. \A s \in Slots : \/ state'[s] = state[s]
                       \/ Runnable(s) /\ Runnable(s)'
    BY <1>1, <1>2, <1>3 DEF SwitchTo, SoleRunner, TypeOK, Runnable
<1>7. TypeOK' /\ SleepersOnTime'
    BY <1>3, <1>5, <1>6
       DEF TypeOK, identity, SleepersOnTime, Sleeping, Runnable
<1> QED BY <1>3, <1>5, <1>6, <1>7, QuietStep

\* The distance to a deadline on the circle of tick values: one tick before it
\* is reached, the timer finds it due, and not before.
LEMMA DeadlineAhead ==
    ASSUME NEW t \in 0 .. TickModulus - 1, NEW w \in 0 .. TickModulus - 1,
           (w - t) % TickModulus \in 1 .. SleepMaximum
    PROVE  LET now == (t + 1) % TickModulus
           IN  /\ now \in 0 .. TickModulus - 1
               /\ now # t
               /\ Due(now, w) <=> now = w
               /\ ~Due(now, w)
                     => (w - now) % TickModulus \in 1 .. SleepMaximum
<1> DEFINE M == TickModulus
           now == (t + 1) % M
<1>1. M \in Nat \ {0} /\ M = 2 * (SleepMaximum + 1) /\ SleepMaximum \in Nat \ {0}
    BY TickAssumption
<1> HIDE DEF M
<1>2. t \in 0 .. M - 1 /\ w \in 0 .. M - 1 /\ 1 \in 0 .. M - 1
    BY <1>1 DEF M
<1>3. now \in 0 .. M - 1 /\ now = IF t + 1 < M THEN t + 1 ELSE t + 1 - M
    BY <1>1, <1>2, ModSum, Zenon
<1>4. (w - t) % M = IF w < t THEN w - t + M ELSE w - t
    BY <1>1, <1>2, ModDifference, Zenon
<1> HIDE DEF now
<1>5. /\ (w - now) % M = IF w < now THEN w - now + M ELSE w - now
      /\ (now - w) % M = IF now < w THEN now - w + M ELSE now - w
    <2>1. now \in 0 .. M - 1
        BY <1>3
    <2>2. (w - now) % M = IF w < now THEN w - now + M ELSE w - now
        BY <1>1, <1>2, <2>1, ModDifference, Zenon
    <2>3. (now - w) % M = IF now < w THEN now - w + M ELSE now - w
        BY <1>1, <1>2, <2>1, ModDifference, Zenon
    <2> QED BY <2>2, <2>3
<1>6. /\ now # t
      /\ Due(now, w) <=> now = w
      /\ ~Due(now, w) => (w - now) % M \in 1 .. SleepMaximum
    BY <1>1, <1>2, <1>3, <1>4, <1>5 DEF Due, M
<1> QED BY <1>3, <1>6 DEF now, M

\* irq_dispatch for the PIT.
LEMMA TickStep ==
    ASSUME Inv, Tick
    PROVE  Inv'
<1> DEFINE now == (tick + 1) % TickModulus
           expired == Expired(now)
           st == [s \in Slots |-> IF s \in expired THEN "READY" ELSE state[s]]
           ready == [st EXCEPT ![current] = "READY"]
           n == FindNextReady(ready, current)
<1> USE DEF Inv
<1>1. current \in Slots /\ state[current] = "RUNNING"
    BY DEF TypeOK, SoleRunner
<1>2. expired \subseteq {s \in Slots \ {0} : Sleeping(s)}
    BY DEF Expired, Sleeping
<1>3. st \in [Slots -> ProcessStates] /\ ready \in [Slots -> ProcessStates]
    BY <1>1 DEF TypeOK, ProcessStates
<1>4. \A s \in Slots : ready[s] # "RUNNING"
    BY <1>1, <1>2 DEF SoleRunner, TypeOK
<1>5. n \in Slots /\ ready[n] = "READY"
    BY <1>1, FindNextReadyResult, Zenon DEF TypeOK
<1>6. /\ tick' = now
      /\ wake_tick' = [s \in Slots |-> IF s \in expired THEN 0 ELSE wake_tick[s]]
      /\ UNCHANGED <<identity, exit_code, wait_node, next_pid, wait_pid,
                     phase, panicked, orphan>>
    BY Zenon DEF Tick
<1>7. \/ /\ time_slice[current] > 1
         /\ time_slice' = [time_slice EXCEPT ![current] = @ - 1]
         /\ state' = st
         /\ UNCHANGED current
      \/ SwitchTo(ready, n)
    BY Zenon DEF Tick
<1>8. now \in 0 .. TickModulus - 1
    <2>1. /\ TickModulus \in Nat \ {0}
          /\ tick \in 0 .. TickModulus - 1
          /\ 1 \in 0 .. TickModulus - 1
        BY TickAssumption DEF TypeOK
    <2> QED BY <2>1, ModSum
<1> HIDE DEF n, now, expired
<1>9. /\ SoleRunner'
      /\ current' \in Slots
      /\ state' \in [Slots -> ProcessStates]
      /\ time_slice' \in [Slots -> 0 .. DefaultSlice]
    <2>1. CASE SwitchTo(ready, n)
        <3> HIDE DEF ready
        <3> QED BY <1>3, <1>4, <1>5, <2>1, SwitchResult DEF TypeOK
    <2>2. CASE /\ time_slice[current] > 1
               /\ time_slice' = [time_slice EXCEPT ![current] = @ - 1]
               /\ state' = st
               /\ UNCHANGED current
        BY <1>1, <1>2, <1>3, <2>2, SliceAssumption
           DEF SoleRunner, TypeOK, Sleeping
    <2> QED BY <1>7, <2>1, <2>2, Zenon
<1>10. \A s \in Slots : \/ s \notin expired /\ state'[s] = state[s]
                        \/ Runnable(s) /\ Runnable(s)'
                        \/ s \in expired /\ Sleeping(s) /\ Runnable(s)'
    BY <1>1, <1>2, <1>5, <1>7 DEF SwitchTo, Runnable, TypeOK, Sleeping
<1>11. TypeOK'
    BY <1>6, <1>8, <1>9, TickAssumption DEF TypeOK, identity
<1>12. SleepersOnTime'
    <2> SUFFICES ASSUME NEW s \in Slots, Sleeping(s)'
                 PROVE  (wake_tick'[s] - tick') % TickModulus
                            \in 1 .. SleepMaximum
        BY DEF SleepersOnTime
    <2>1. Sleeping(s) /\ s \notin expired
        BY <1>6, <1>10 DEF Sleeping, Runnable
    <2>2. ~Due(now, wake_tick[s])
        BY <2>1 DEF expired, Expired, Sleeping, BootThread
    <2>3. /\ tick \in 0 .. TickModulus - 1
          /\ wake_tick[s] \in 0 .. TickModulus - 1
          /\ (wake_tick[s] - tick) % TickModulus \in 1 .. SleepMaximum
        BY <2>1 DEF TypeOK, SleepersOnTime
    <2>4. (wake_tick[s] - now) % TickModulus \in 1 .. SleepMaximum
        BY <2>2, <2>3, DeadlineAhead DEF now
    <2> QED BY <1>6, <2>1, <2>4
<1> QED BY <1>6, <1>9, <1>10, <1>11, <1>12, QuietStep

\* scheduler_sleep_current.
LEMMA SleepStep ==
    ASSUME Inv, NEW ticks \in 1 .. TickModulus - 1, Sleep(ticks)
    PROVE  Inv'
<1> DEFINE st == [state EXCEPT ![current] = "BLOCKED"]
           n == FindNextReady(state, current)
           wake == (tick + ticks) % TickModulus
<1> USE DEF Inv
<1>1. /\ current \in Slots /\ state[current] = "RUNNING"
      /\ wait_pid[current] = NoCall /\ user[current] /\ current # 0
    BY Zenon DEF TypeOK, SoleRunner, Sleep, Executing, BootThread
<1>2. n \in Slots /\ state[n] = "READY" /\ n # current
    BY <1>1, FindNextReadyResult DEF Sleep
<1>3. /\ wake_tick' = [wake_tick EXCEPT ![current] = wake]
      /\ wait_node' = [wait_node EXCEPT ![current] = NULL]
      /\ SwitchTo(st, n)
      /\ UNCHANGED <<identity, exit_code, next_pid, tick, wait_pid, phase,
                     panicked, orphan>>
    BY DEF Sleep
<1>4. /\ wake \in 0 .. TickModulus - 1
      /\ (wake - tick) % TickModulus = ticks
    <2> DEFINE M == TickModulus
    <2>1. M \in Nat \ {0} /\ tick \in 0 .. M - 1 /\ ticks \in 0 .. M - 1
        BY TickAssumption DEF TypeOK
    <2> HIDE DEF M
    <2>2. /\ (tick + ticks) % M \in 0 .. M - 1
          /\ (tick + ticks) % M = IF tick + ticks < M THEN tick + ticks
                                  ELSE tick + ticks - M
        BY <2>1, ModSum, Zenon
    <2>3. \A x \in 0 .. M - 1 :
              (x - tick) % M = IF x < tick THEN x - tick + M ELSE x - tick
        BY <2>1, ModDifference
    <2>4. wake = (tick + ticks) % M
        BY DEF M
    <2> HIDE DEF wake
    <2>5. (wake - tick) % M = ticks
        BY <2>1, <2>2, <2>3, <2>4
    <2> QED BY <2>2, <2>4, <2>5 DEF M
<1>5. ticks \in 1 .. SleepMaximum
    BY DEF Sleep
<1> HIDE DEF n, wake
<1>6. st \in [Slots -> ProcessStates] /\ \A s \in Slots : st[s] # "RUNNING"
    BY <1>1 DEF TypeOK, SoleRunner, ProcessStates
<1>7. /\ SoleRunner'
      /\ current' \in Slots
      /\ state' \in [Slots -> ProcessStates]
      /\ time_slice' \in [Slots -> 0 .. DefaultSlice]
    <2> HIDE DEF st
    <2> QED BY <1>2, <1>3, <1>6, SwitchResult, Zenon DEF TypeOK
<1>8. \A s \in Slots : \/ s # current /\ state'[s] = state[s]
                       \/ s = n /\ Runnable(s) /\ Runnable(s)'
                       \/ s = current /\ state'[s] = "BLOCKED"
    BY <1>1, <1>2, <1>3, Zenon DEF SwitchTo, Runnable, TypeOK
<1>9. \A p, w : /\ Children(p, w)' = Children(p, w)
                /\ Zombies(p, w)' = Zombies(p, w)
    <2>1. \A s \in Slots : /\ state'[s] = "UNUSED" <=> state[s] = "UNUSED"
                           /\ state'[s] = "ZOMBIE" <=> state[s] = "ZOMBIE"
        BY <1>1, <1>8 DEF Runnable
    <2> QED BY <1>3, <2>1, SameChildren DEF identity
<1>10. TypeOK'
    BY <1>3, <1>4, <1>7, ZenonT(30) DEF TypeOK, identity
<1>11. NoPanic' /\ PidsUnique' /\ PidsAllocated' /\ OrphansStayOrphans'
    BY <1>1, <1>3, <1>8
       DEF NoPanic, PidsUnique, PidsAllocated, OrphansStayOrphans, identity,
           Runnable
<1>12. BootThread' /\ OnlyUsersBlock'
    BY <1>1, <1>3, <1>8, SlotFacts, Zenon
       DEF BootThread, OnlyUsersBlock, Runnable, Sleeping, identity, TypeOK
<1>13. CallStates'
    BY <1>1, <1>3, <1>8, Zenon DEF CallStates, Runnable, TypeOK
<1>14. WaiterHasLiveChild'
    BY <1>1, <1>3, <1>8, <1>9, Zenon DEF WaiterHasLiveChild, Runnable, TypeOK
<1>15. WokenWaiterFindsZombie'
    BY <1>1, <1>3, <1>8, <1>9, Zenon DEF WokenWaiterFindsZombie, Runnable, TypeOK
<1>16. SleepersOnTime'
    BY <1>1, <1>3, <1>4, <1>5, <1>8
       DEF SleepersOnTime, Sleeping, Runnable, TypeOK
<1> QED BY <1>7, <1>10, <1>11, <1>12, <1>13, <1>14, <1>15, <1>16

\* scheduler_waitpid blocks the caller on a child that has not exited.
LEMMA BlockStep ==
    ASSUME Inv, NEW want \in -1 .. PidMaximum, MayWait, want # NoCall,
           Zombies(current, want) = {}, Children(current, want) # {},
           NEW n \in Slots, state[n] = "READY",
           WaitpidBlock(want, [state EXCEPT ![current] = "BLOCKED"], n)
    PROVE  Inv'
<1> DEFINE st == [state EXCEPT ![current] = "BLOCKED"]
           node == IF want = AnyChild THEN current
                   ELSE FindChild(Children(current, want))
<1> USE DEF Inv
<1>1. current \in Slots /\ state[current] = "RUNNING" /\ n # current
    BY DEF TypeOK, SoleRunner
<1>2. /\ node \in Slots
      /\ IF want = AnyChild THEN node = current
         ELSE node \in Children(current, want)
    <2>1. Children(current, want) \in SUBSET Slots
        BY DEF Children
    <2>2. FindChild(Children(current, want)) \in Children(current, want)
        BY <2>1, FindChildResult
    <2> QED BY <1>1, <2>1, <2>2
<1>3. /\ wait_node' = [wait_node EXCEPT ![current] = node]
      /\ wait_pid' = [wait_pid EXCEPT ![current] = want]
      /\ SwitchTo(st, n)
      /\ UNCHANGED <<identity, exit_code, wake_tick, next_pid, tick, phase,
                     panicked, orphan>>
    BY DEF WaitpidBlock
<1> HIDE DEF node
<1>4. st \in [Slots -> ProcessStates] /\ \A s \in Slots : st[s] # "RUNNING"
    BY <1>1 DEF TypeOK, SoleRunner, ProcessStates
<1>5. /\ SoleRunner'
      /\ current' \in Slots
      /\ state' \in [Slots -> ProcessStates]
      /\ time_slice' \in [Slots -> 0 .. DefaultSlice]
    <2> HIDE DEF st
    <2> QED BY <1>3, <1>4, SwitchResult, Zenon DEF TypeOK
<1>6. \A s \in Slots : \/ s # current /\ state'[s] = state[s]
                       \/ s = n /\ Runnable(s) /\ Runnable(s)'
                       \/ s = current /\ state'[s] = "BLOCKED"
    BY <1>1, <1>3 DEF SwitchTo, Runnable, TypeOK
<1>7. \A p, w : /\ Children(p, w)' = Children(p, w)
                /\ Zombies(p, w)' = Zombies(p, w)
    <2>1. \A s \in Slots : /\ state'[s] = "UNUSED" <=> state[s] = "UNUSED"
                           /\ state'[s] = "ZOMBIE" <=> state[s] = "ZOMBIE"
        BY <1>1, <1>6 DEF Runnable
    <2> QED BY <1>3, <2>1, SameChildren DEF identity
<1>8. node # NULL
    BY <1>2, SlotFacts
<1>9. TypeOK'
    BY <1>1, <1>2, <1>3, <1>5, Zenon DEF TypeOK, identity
<1>10. NoPanic' /\ PidsUnique' /\ PidsAllocated' /\ OrphansStayOrphans'
    BY <1>1, <1>3, <1>6
       DEF NoPanic, PidsUnique, PidsAllocated, OrphansStayOrphans, identity,
           Runnable
<1>11. BootThread'
    BY <1>1, <1>3, <1>6, <1>8, SlotFacts
       DEF BootThread, Runnable, Sleeping, identity, TypeOK, MayWait
<1>12. OnlyUsersBlock'
    BY <1>1, <1>3, <1>6, SlotFacts
       DEF OnlyUsersBlock, Runnable, identity, TypeOK, MayWait
<1>13. CallStates'
    BY <1>1, <1>3, <1>6, <1>8 DEF CallStates, Runnable, TypeOK
<1>14. WaiterHasLiveChild'
    BY <1>1, <1>2, <1>3, <1>6, <1>7, Zenon DEF WaiterHasLiveChild, Runnable, TypeOK
<1>15. WokenWaiterFindsZombie'
    BY <1>1, <1>3, <1>6, <1>7, Zenon DEF WokenWaiterFindsZombie, Runnable, TypeOK
<1>16. SleepersOnTime'
    BY <1>1, <1>3, <1>6, <1>8 DEF SleepersOnTime, Sleeping, Runnable, TypeOK
<1> QED BY <1>5, <1>9, <1>10, <1>11, <1>12, <1>13, <1>14, <1>15, <1>16

\* scheduler_waitpid returns ECHILD.
LEMMA NoChildStep ==
    ASSUME Inv, WaitpidNoChild
    PROVE  Inv'
<1> USE DEF Inv, identity, WaitpidNoChild
<1>1. current \in Slots /\ state[current] = "RUNNING"
    BY DEF TypeOK, SoleRunner
<1>2. TypeOK'
    BY PidAssumption, LimitAssumption DEF TypeOK, NoCall
<1>3. \A p, w : /\ Children(p, w)' = Children(p, w)
                /\ Zombies(p, w)' = Zombies(p, w)
    BY SameChildren
<1>4. \A s \in Slots : \/ wait_pid'[s] = wait_pid[s]
                       \/ s = current /\ wait_pid'[s] = NoCall
    <2>1. /\ wait_pid \in [Slots -> -1 .. PidMaximum]
          /\ wait_pid' = [wait_pid EXCEPT ![current] = NoCall]
        BY DEF TypeOK
    <2> QED BY <1>1, <2>1
<1>5. /\ NoPanic' /\ SoleRunner' /\ PidsUnique' /\ PidsAllocated'
      /\ OrphansStayOrphans' /\ OnlyUsersBlock' /\ SleepersOnTime'
    BY Zenon DEF NoPanic, SoleRunner, PidsUnique, PidsAllocated, OrphansStayOrphans,
           OnlyUsersBlock, SleepersOnTime, Sleeping
<1>6. BootThread' /\ CallStates'
    BY <1>1, <1>4, SlotFacts, Zenon
       DEF BootThread, CallStates, Sleeping, Runnable
<1>7. WaiterHasLiveChild' /\ WokenWaiterFindsZombie'
    BY <1>1, <1>3, <1>4, Zenon
       DEF WaiterHasLiveChild, WokenWaiterFindsZombie, Runnable
<1> QED BY <1>2, <1>5, <1>6, <1>7

\* One turn of the loop of scheduler_waitpid.
LEMMA WaitpidStep ==
    ASSUME Inv, NEW want \in WaitArguments, Waitpid(want)
    PROVE  Inv'
<1> DEFINE st == [state EXCEPT ![current] = "BLOCKED"]
           n == FindNextReady(st, current)
<1>1. want \in -1 .. PidMaximum /\ want # NoCall
    BY PidAssumption, LimitAssumption
       DEF Inv, TypeOK, WaitArguments, AnyChild, NoCall
<1>2. current \in Slots
    BY SMTT(30) DEF Inv, TypeOK
<1>3. CASE Zombies(current, want) # {}
    <2> DEFINE c == FindChild(Zombies(current, want))
    <2>1. c \in Zombies(current, want)
        BY <1>3, FindChildResult, Zenon DEF Zombies, Children
    <2>2. c \in Slots \ {0} /\ state[c] = "ZOMBIE" /\ parent_pid[c] = pid[current]
        BY <2>1, Zenon DEF Zombies, Children
    <2>3. WaitpidReap(want)
        BY <1>3 DEF Waitpid
    <2> QED BY <2>2, <2>3, ReapStep, ZenonT(30) DEF WaitpidReap
<1>4. CASE Zombies(current, want) = {} /\ (Children(current, want) = {} \/ n = NULL)
    <2>1. WaitpidNoChild
        BY <1>4 DEF Waitpid
    <2> QED BY <2>1, NoChildStep
<1>5. CASE Zombies(current, want) = {} /\ Children(current, want) # {} /\ n # NULL
    <2>1. MayWait /\ WaitpidBlock(want, st, n)
        BY <1>5 DEF Waitpid
    <2>2. n \in Slots /\ st[n] = "READY"
        BY <1>2, <1>5, FindNextReadyResult, Zenon
    <2>3. state[n] = "READY"
        BY <1>2, <2>2 DEF Inv, TypeOK
    <2> HIDE DEF n
    <2> QED BY <1>1, <1>5, <2>1, <2>2, <2>3, BlockStep, Zenon
<1> QED BY <1>3, <1>4, <1>5

\* scheduler_exit_current.
LEMMA ExitStep ==
    ASSUME Inv, current # 0, NEW code \in ExitCodes \cup {EFAULT},
           ExitCurrent(code)
    PROVE  Inv'
<1> DEFINE woken == WokenBy(current)
           st == [s \in Slots |-> IF s = current THEN "ZOMBIE"
                                  ELSE IF s \in woken THEN "READY"
                                  ELSE state[s]]
           n == FindNextReady(st, current)
<1> USE DEF Inv
<1>1. /\ current \in Slots /\ state[current] = "RUNNING"
      /\ wait_pid[current] = NoCall /\ wait_node[current] = NULL
    BY Zenon DEF TypeOK, SoleRunner, ExitCurrent, Executing, CallStates
<1>2. \A p \in Slots : p \in woken <=> /\ state[p] = "BLOCKED"
                                       /\ pid[p] = parent_pid[current]
                                       /\ wait_node[p] \in {current, p}
    BY DEF WokenBy
<1>3. \A p \in woken : p \in Slots /\ p # current
    BY <1>1 DEF WokenBy
<1> HIDE DEF woken
<1>4. PICK r \in Slots : st[r] = "READY"
    <2>1. CASE state[0] = "READY"
        BY <2>1, SlotFacts
    <2>2. CASE state[0] # "READY"
        <3>1. state[0] = "BLOCKED" /\ wait_node[0] # NULL
            BY <1>1, <2>2, SlotFacts DEF BootThread, SoleRunner, Sleeping
        <3>2. /\ phase = "threads"
              /\ Children(0, wait_pid[0]) # {} /\ Zombies(0, wait_pid[0]) = {}
              /\ IF wait_pid[0] = AnyChild THEN wait_node[0] = 0
                 ELSE wait_node[0] \in Children(0, wait_pid[0])
            BY <3>1, SlotFacts DEF BootThread, WaiterHasLiveChild
        <3>3. PICK c \in Children(0, wait_pid[0]) :
                       wait_node[0] \in {c, 0}
            BY <3>2
        <3>4. /\ c \in Slots \ {0} /\ parent_pid[c] = pid[0]
              /\ state[c] \in {"READY", "RUNNING"}
            BY <3>2, <3>3 DEF Children, Zombies, OnlyUsersBlock, TypeOK,
                              ProcessStates
        <3>5. CASE c = current
            <4>1. 0 \in woken
                BY <1>2, <3>1, <3>3, <3>4, <3>5, SlotFacts
            <4> QED BY <4>1, SlotFacts
        <3>6. CASE c # current
            BY <3>4, <3>6 DEF SoleRunner
        <3> QED BY <3>5, <3>6
    <2> QED BY <2>1, <2>2
<1>5. n \in Slots /\ st[n] = "READY" /\ n # NULL
    <2>1. \/ n = NULL /\ \A s \in Slots : st[s] # "READY"
          \/ n \in Slots /\ st[n] = "READY"
        <3> HIDE DEF st
        <3> QED BY <1>1, FindNextReadyResult, Zenon
    <2> QED BY <1>4, <2>1, SlotFacts
<1>6. /\ exit_code' = [exit_code EXCEPT ![current] = code]
      /\ wait_node' = [s \in Slots |-> IF s \in woken THEN NULL
                                       ELSE wait_node[s]]
      /\ orphan' = [c \in Slots |->
                      \/ orphan[c]
                      \/ state[c] # "UNUSED" /\ parent_pid[c] = pid[current]]
      /\ SwitchTo(st, n)
      /\ UNCHANGED <<identity, wake_tick, next_pid, tick, wait_pid, phase,
                     panicked>>
    BY <1>5, Zenon DEF ExitCurrent, woken
<1> HIDE DEF n
<1>7. st \in [Slots -> ProcessStates] /\ \A s \in Slots : st[s] # "RUNNING"
    BY <1>1, SMTT(30) DEF TypeOK, SoleRunner, ProcessStates
<1>8. /\ SoleRunner'
      /\ current' \in Slots
      /\ state' \in [Slots -> ProcessStates]
      /\ time_slice' \in [Slots -> 0 .. DefaultSlice]
    <2> HIDE DEF st
    <2> QED BY <1>5, <1>6, <1>7, SwitchResult, Zenon DEF TypeOK
<1>9. /\ state'[current] = "ZOMBIE"
      /\ \A s \in Slots \ {current} :
            IF s \in woken THEN state[s] = "BLOCKED" /\ Runnable(s)'
            ELSE state'[s] = state[s] \/ (Runnable(s) /\ Runnable(s)')
    <2>1. state' = [st EXCEPT ![n] = "RUNNING"]
        BY <1>6, Zenon DEF SwitchTo
    <2>2. \A s \in Slots : state'[s] = IF s = n THEN "RUNNING" ELSE st[s]
        BY <2>1
    <2>3. /\ st[current] = "ZOMBIE"
          /\ \A s \in Slots \ {current} :
                st[s] = IF s \in woken THEN "READY" ELSE state[s]
        BY <1>1
    <2> HIDE DEF st
    <2> QED BY <1>1, <1>2, <1>5, <2>2, <2>3 DEF Runnable
<1> HIDE DEF st
<1>10. \A p, w : Children(p, w)' = Children(p, w)
    <2>1. \A s \in Slots : state'[s] = "UNUSED" <=> state[s] = "UNUSED"
        BY <1>1, <1>9 DEF Runnable
    <2> QED BY <1>6, <2>1, Zenon DEF Children, identity
<1>11. \A p, w : /\ Zombies(p, w) \subseteq Zombies(p, w)'
                 /\ Zombies(p, w)' \subseteq Zombies(p, w) \cup {current}
                 /\ current \in Children(p, w) => current \in Zombies(p, w)'
    <2>1. \A s \in Slots : state[s] = "ZOMBIE" => state'[s] = "ZOMBIE"
        BY <1>9 DEF Runnable
    <2>2. \A s \in Slots \ {current} :
              state'[s] = "ZOMBIE" => state[s] = "ZOMBIE"
        BY <1>9 DEF Runnable
    <2>3. \A p, w : Children(p, w) \subseteq Slots
        BY DEF Children
    <2> QED BY <1>1, <1>9, <1>10, <2>1, <2>2, <2>3 DEF Zombies
<1>12. TypeOK'
    BY <1>1, <1>6, <1>8, Zenon DEF TypeOK, identity
<1>13. NoPanic' /\ PidsUnique' /\ PidsAllocated'
    BY <1>1, <1>6, <1>9
       DEF NoPanic, PidsUnique, PidsAllocated, identity, Runnable
<1>14. BootThread'
    BY <1>1, <1>6, <1>9, SlotFacts, Zenon
       DEF BootThread, identity, Runnable, Sleeping, TypeOK
<1>15. OnlyUsersBlock'
    BY <1>1, <1>6, <1>9, Zenon DEF OnlyUsersBlock, identity, Runnable
<1>16. CallStates'
    <2> SUFFICES ASSUME NEW s \in Slots PROVE CallStates!(s)'
        BY Zenon DEF CallStates
    <2>1. CASE s = current
        BY <1>1, <1>3, <1>6, <1>9, <2>1, Zenon DEF TypeOK
    <2>2. CASE s # current /\ s \in woken
        BY <1>6, <1>9, <2>2, Zenon
    <2>3. CASE s # current /\ s \notin woken
        BY <1>6, <1>9, <2>3, Zenon DEF CallStates, Runnable
    <2> QED BY <2>1, <2>2, <2>3, SMTT(30)
<1>17. \A p \in Slots : p \in woken =>
            wait_pid[p] # NoCall /\ current \in Children(p, wait_pid[p])
    <2> SUFFICES ASSUME NEW p \in Slots, p \in woken
                 PROVE  wait_pid[p] # NoCall /\ current \in Children(p, wait_pid[p])
        OBVIOUS
    <2>1. /\ state[p] = "BLOCKED" /\ pid[p] = parent_pid[current]
          /\ wait_node[p] \in {current, p} /\ wait_node[p] # NULL
        BY <1>1, <1>2, SlotFacts, ZenonT(30)
    <2>2. /\ wait_pid[p] # NoCall
          /\ IF wait_pid[p] = AnyChild THEN wait_node[p] = p
             ELSE wait_node[p] \in Children(p, wait_pid[p])
        BY <2>1, Zenon DEF WaiterHasLiveChild
    <2>3. p \notin Children(p, wait_pid[p])
        BY DEF Children, PidsAllocated
    <2> QED BY <1>1, <2>1, <2>2, <2>3, Zenon DEF Children
<1>18. WaiterHasLiveChild'
    <2> SUFFICES ASSUME NEW p \in Slots,
                        state'[p] = "BLOCKED", wait_node'[p] # NULL
                 PROVE  WaiterHasLiveChild!(p)!2'
        BY ZenonT(30) DEF WaiterHasLiveChild
    <2>1. /\ p # current /\ p \notin woken
          /\ state[p] = "BLOCKED" /\ wait_node'[p] = wait_node[p]
        BY <1>6, <1>9, Zenon DEF Runnable
    <2>2. /\ wait_pid[p] # NoCall
          /\ Children(p, wait_pid[p]) # {}
          /\ Zombies(p, wait_pid[p]) = {}
          /\ IF wait_pid[p] = AnyChild THEN wait_node[p] = p
             ELSE wait_node[p] \in Children(p, wait_pid[p])
        BY <2>1, SMTT(30) DEF WaiterHasLiveChild
    <2>3. current \notin Children(p, wait_pid[p])
        <3> SUFFICES ASSUME current \in Children(p, wait_pid[p]) PROVE FALSE
            BY Zenon
        <3>1. pid[p] = parent_pid[current]
            BY DEF Children
        <3>2. wait_node[p] \in {current, p}
            <4>1. CASE wait_pid[p] = AnyChild
                BY <2>2, <4>1
            <4>2. CASE wait_pid[p] # AnyChild
                <5>1. \A c \in Children(p, wait_pid[p]) :
                          c \in Slots /\ state[c] # "UNUSED" /\ pid[c] = wait_pid[p]
                    BY <4>2, Zenon DEF Children
                <5> QED BY <1>1, <2>2, <4>2, <5>1, Zenon DEF PidsUnique
            <4> QED BY <4>1, <4>2
        <3> QED BY <1>2, <2>1, <3>1, <3>2, ZenonT(30)
    <2>4. Zombies(p, wait_pid[p])' = {}
        <3>1. Zombies(p, wait_pid[p])' \subseteq Children(p, wait_pid[p])
            BY <1>6, <1>10, Zenon DEF Zombies
        <3> QED BY <1>6, <1>11, <2>2, <2>3, <3>1, Zenon
    <2> QED BY <1>6, <1>10, <2>1, <2>2, <2>4, Zenon
<1>19. WokenWaiterFindsZombie'
    <2> SUFFICES ASSUME NEW p \in Slots, wait_pid'[p] # NoCall, Runnable(p)'
                 PROVE  Zombies(p, wait_pid[p])' # {}
        BY Zenon DEF WokenWaiterFindsZombie
    <2>1. p # current /\ wait_pid[p] # NoCall
        BY <1>6, <1>9, Zenon DEF Runnable
    <2>2. CASE p \in woken
        BY <1>6, <1>11, <1>17, <2>2, Zenon
    <2>3. CASE p \notin woken
        <3>1. Runnable(p)
            BY <1>9, <2>1, <2>3 DEF Runnable
        <3>2. Zombies(p, wait_pid[p]) # {}
            BY <2>1, <3>1, Zenon DEF WokenWaiterFindsZombie
        <3> QED BY <1>6, <1>11, <3>2, Zenon
    <2> QED BY <2>2, <2>3
<1>20. SleepersOnTime'
    BY <1>1, <1>6, <1>9, Zenon DEF SleepersOnTime, Sleeping, Runnable
<1>21. OrphansStayOrphans'
    <2> SUFFICES ASSUME next_pid' # 0, NEW c \in Slots, NEW p \in Slots, orphan'[c],
                        state'[p] \notin {"UNUSED", "ZOMBIE"}
                 PROVE  pid'[p] # parent_pid'[c]
        BY DEF OrphansStayOrphans
    <2>1. pid' = pid /\ parent_pid' = parent_pid /\ next_pid # 0
        BY <1>6 DEF identity
    <2>2. p # current /\ state[p] \notin {"UNUSED", "ZOMBIE"}
        BY <1>9 DEF Runnable
    <2>3. orphan[c] \/ parent_pid[c] = pid[current]
        BY <1>6, Zenon
    <2>4. pid[p] # pid[current]
        BY <1>1, <2>2 DEF PidsUnique
    <2> QED BY <2>1, <2>2, <2>3, <2>4, Zenon DEF OrphansStayOrphans
<1> QED BY <1>8, <1>12, <1>13, <1>14, <1>15, <1>16, <1>18, <1>19, <1>20, <1>21,
           Zenon

-----------------------------------------------------------------------------
\* The theorems.

\* scheduler_init leaves the boot thread alone in the table.
LEMMA InitInv == Init => Inv
<1> SUFFICES ASSUME Init PROVE Inv
    OBVIOUS
<1>1. TypeOK
    <2>1. /\ 0 \in 0 .. PidMaximum /\ 1 \in 0 .. PidMaximum
          /\ 0 \in 0 .. TickModulus - 1 /\ NoCall \in -1 .. PidMaximum
          /\ 0 \in 0 .. DefaultSlice /\ DefaultSlice \in 0 .. DefaultSlice
        BY LimitAssumption, PidAssumption, SliceAssumption, TickAssumption
           DEF NoCall
    <2> QED BY <2>1, SlotFacts, Zenon DEF Init, TypeOK, ProcessStates
<1>2. NoPanic /\ SoleRunner /\ PidsUnique /\ PidsAllocated
    BY LimitAssumption
       DEF Init, NoPanic, SoleRunner, PidsUnique, PidsAllocated, Slots
<1>3. BootThread /\ OnlyUsersBlock /\ CallStates
    BY SlotFacts DEF Init, BootThread, OnlyUsersBlock, CallStates, Sleeping
<1>4. WaiterHasLiveChild /\ WokenWaiterFindsZombie /\ SleepersOnTime
    BY DEF Init, WaiterHasLiveChild, WokenWaiterFindsZombie, SleepersOnTime,
           Sleeping
<1>5. OrphansStayOrphans
    BY DEF Init, OrphansStayOrphans
<1> QED BY <1>1, <1>2, <1>3, <1>4, <1>5 DEF Inv

\* Every system call, interrupt and step of the boot thread keeps the invariant.
LEMMA NextInv == Inv /\ [Next]_vars => Inv'
<1> SUFFICES ASSUME Inv, [Next]_vars PROVE Inv'
    OBVIOUS
<1>1. CASE KernelThreadCreate
    BY <1>1, CreateStep, Zenon DEF KernelThreadCreate, Executing
<1>2. CASE UserProcessCreate
    BY <1>2, CreateStep, Zenon DEF UserProcessCreate, Executing
<1>3. CASE StartShell
    BY <1>3, CreateStep, Zenon DEF StartShell, Executing
<1>4. CASE Spawn
    <2>1. phase # "threads" /\ phase \in {"threads", "programs", "idle"}
        BY <1>4 DEF Spawn, Inv, TypeOK, OnlyUsersBlock, BootThread
    <2> QED BY <1>4, <2>1, CreateStep, Zenon DEF Spawn
<1>5. ASSUME NEW c \in Slots, BootReap(c) PROVE Inv'
    <2>1. /\ c \in Slots \ {0} /\ state[c] = "ZOMBIE"
          /\ parent_pid[c] = pid[current] /\ Reap(c)
        BY <1>5 DEF BootReap, BootChildren, Executing, Inv, BootThread
    <2>2. wait_pid' = [wait_pid EXCEPT ![current] = NoCall]
        BY <1>5 DEF BootReap, Executing, Inv, TypeOK
    <2> QED BY <1>5, <2>1, <2>2, ReapStep, Zenon DEF BootReap
<1>6. CASE ThreadTestsDone
    <2> USE <1>6 DEF ThreadTestsDone, Inv, identity
    <2>1. TypeOK'
        BY Zenon DEF TypeOK
    <2>2. \A p, w : /\ Children(p, w)' = Children(p, w)
                    /\ Zombies(p, w)' = Zombies(p, w)
        BY SameChildren
    <2>3. BootThread'
        BY Zenon DEF BootThread, Sleeping, Executing
    <2>4. /\ NoPanic' /\ SoleRunner' /\ PidsUnique' /\ PidsAllocated'
          /\ OnlyUsersBlock' /\ CallStates' /\ SleepersOnTime'
          /\ OrphansStayOrphans'
        BY Zenon DEF NoPanic, SoleRunner, PidsUnique, PidsAllocated, OnlyUsersBlock,
               CallStates, SleepersOnTime, OrphansStayOrphans, Sleeping,
               Runnable
    <2>5. WaiterHasLiveChild' /\ WokenWaiterFindsZombie'
        BY <2>2, Zenon DEF WaiterHasLiveChild, WokenWaiterFindsZombie, Runnable
    <2> QED BY <2>1, <2>3, <2>4, <2>5
<1>7. CASE Yield
    BY <1>7, YieldStep
<1>8. ASSUME NEW ticks \in 1 .. TickModulus - 1, Sleep(ticks) PROVE Inv'
    BY <1>8, SleepStep
<1>9. ASSUME NEW code \in ExitCodes, Exit(code) PROVE Inv'
    BY <1>9, ExitStep DEF Exit
<1>10. CASE UserPageFault
    <2>1. current # 0
        BY <1>10 DEF UserPageFault, Inv, BootThread
    <2> QED BY <1>10, <2>1, ExitStep DEF UserPageFault
<1>11. ASSUME NEW want \in WaitArguments, Waitpid(want) PROVE Inv'
    BY <1>11, WaitpidStep
<1>12. CASE Tick
    BY <1>12, TickStep
<1>13. CASE UNCHANGED vars
    <2> USE <1>13 DEF vars, Inv
    <2>1. \A p, w : /\ Children(p, w)' = Children(p, w)
                    /\ Zombies(p, w)' = Zombies(p, w)
        BY SameChildren
    <2>2. TypeOK' /\ BootThread'
        BY Zenon DEF TypeOK, BootThread, Sleeping
    <2>3. NoPanic' /\ SoleRunner' /\ PidsUnique' /\ PidsAllocated'
        BY Zenon DEF NoPanic, SoleRunner, PidsUnique, PidsAllocated
    <2>4. OnlyUsersBlock' /\ CallStates'
        BY Zenon DEF OnlyUsersBlock, CallStates, Runnable
    <2>5. SleepersOnTime' /\ OrphansStayOrphans'
        BY Zenon DEF SleepersOnTime, OrphansStayOrphans, Sleeping
    <2>6. WaiterHasLiveChild' /\ WokenWaiterFindsZombie'
        BY <2>1, Zenon DEF WaiterHasLiveChild, WokenWaiterFindsZombie, Runnable
    <2> QED BY <2>2, <2>3, <2>4, <2>5, <2>6
<1> QED BY <1>1, <1>2, <1>3, <1>4, <1>5, <1>6, <1>7, <1>8, <1>9, <1>10, <1>11,
           <1>12, <1>13 DEF Next

\* The invariant holds in every reachable state, for every size of the table.
THEOREM Invariance == Spec => []Inv
  BY InitInv, NextInv, PTL DEF Spec

\* Types are respected: no index leaves the table, next_pid and the PIDs stay
\* within PID_MAXIMUM, and deadlines stay within the tick counter's width.
THEOREM TypeCorrectness == Spec => []TypeOK
<1>1. Inv => TypeOK
    BY DEF Inv
<1> QED BY <1>1, Invariance, PTL

\* No panic in scheduler.c is reachable: an exiting process always finds
\* another one to switch to, and waitpid always can reap what it found.
THEOREM PanicFreedom == Spec => []NoPanic
<1>1. Inv => NoPanic
    BY DEF Inv
<1> QED BY <1>1, Invariance, PTL

\* current_process is always the one RUNNING process.
THEOREM OneRunner == Spec => []SoleRunner
<1>1. Inv => SoleRunner
    BY DEF Inv
<1> QED BY <1>1, Invariance, PTL

\* PIDs are unique, before and after next_pid wraps.
THEOREM UniquePids == Spec => []PidsUnique
<1>1. Inv => PidsUnique
    BY DEF Inv
<1> QED BY <1>1, Invariance, PTL

\* wake_waiting_parent loses no wake-up.
THEOREM NoLostWakeup == Spec => []WaiterHasLiveChild
<1>1. Inv => WaiterHasLiveChild
    BY DEF Inv
<1> QED BY <1>1, Invariance, PTL

\* A process that waitpid resumes finds the zombie it was woken for.
THEOREM NoSpuriousWakeup == Spec => []WokenWaiterFindsZombie
<1>1. Inv => WokenWaiterFindsZombie
    BY DEF Inv
<1> QED BY <1>1, Invariance, PTL

\* The deadline comparison of scheduler_on_tick is right for every position of
\* the wrapping tick counter: no sleeper is ever overdue.
THEOREM TimelySleep == Spec => []SleepersOnTime
<1>1. Inv => SleepersOnTime
    BY DEF Inv
<1> QED BY <1>1, Invariance, PTL

\* Until next_pid wraps, nobody has the PID of an orphan's creator.
THEOREM OrphanIsolation == Spec => []OrphansStayOrphans
<1>1. Inv => OrphansStayOrphans
    BY SMTT(30) DEF Inv
<1> QED BY <1>1, Invariance, PTL

-----------------------------------------------------------------------------
\* What one step may do to a zombie and to a sleeper.

\* What waitpid reads of a process, and what tells a sleeper, stays.
KeptProcess(s) == /\ state'[s] = state[s]
                  /\ pid'[s] = pid[s]
                  /\ parent_pid'[s] = parent_pid[s]
                  /\ exit_code'[s] = exit_code[s]
                  /\ wait_node'[s] = wait_node[s]

\* The body of ZombieKept, for one slot.
ZombieFate(c) ==
    state[c] = "ZOMBIE" =>
        \/ /\ state'[c] = "ZOMBIE"
           /\ <<pid[c], parent_pid[c], exit_code[c]>>'
                 = <<pid[c], parent_pid[c], exit_code[c]>>
        \/ /\ state'[c] = "UNUSED"
           /\ parent_pid[c] = pid[current]
           /\ current' = current
           /\ state' = [state EXCEPT ![c] = "UNUSED"]

\* The body of WakesAtDeadline, for one slot.
SleeperFate(s) ==
    Sleeping(s) /\ ~Sleeping(s)' =>
        tick' = wake_tick[s] /\ tick' # tick /\ Runnable(s)'

\* A step that keeps every zombie and every blocked process is harmless.
LEMMA KeptFates ==
    ASSUME NEW s \in Slots,
           state[s] \in {"ZOMBIE", "BLOCKED"} => KeptProcess(s)
    PROVE  ZombieFate(s) /\ SleeperFate(s)
  BY Zenon DEF KeptProcess, ZombieFate, SleeperFate, Sleeping

\* Creating a process takes an UNUSED slot.
LEMMA CreateFates ==
    ASSUME Inv, NEW u \in BOOLEAN, Create(u), NEW s \in Slots
    PROVE  ZombieFate(s) /\ SleeperFate(s)
<1>1. FindUnused \in Slots /\ state[FindUnused] = "UNUSED"
    BY FindUnusedResult DEF Create
<1>2. PICK new \in Slots : new = FindUnused
    BY <1>1
<1>3. /\ state[new] = "UNUSED"
      /\ pid' = [pid EXCEPT ![new] = AllocatedPid]
      /\ state' = [state EXCEPT ![new] = "READY"]
      /\ parent_pid' = [parent_pid EXCEPT ![new] = pid[current]]
      /\ UNCHANGED <<exit_code, wait_node>>
    BY <1>1, <1>2 DEF Create
<1>4. state[s] \in {"ZOMBIE", "BLOCKED"} => KeptProcess(s)
    BY <1>3 DEF KeptProcess, Inv, TypeOK
<1> QED BY <1>4, KeptFates

\* Reaping touches one zombie, and the one that calls is its parent.
LEMMA ReapFates ==
    ASSUME Inv, NEW c \in Slots, state[c] = "ZOMBIE", Reap(c),
           parent_pid[c] = pid[current], UNCHANGED current, NEW s \in Slots
    PROVE  ZombieFate(s) /\ SleeperFate(s)
<1>1. CASE s = c
    <2>1. state' = [state EXCEPT ![s] = "UNUSED"] /\ state'[s] = "UNUSED"
        BY <1>1, Zenon DEF Reap, Inv, TypeOK
    <2> QED BY <1>1, <2>1, Zenon DEF ZombieFate, SleeperFate, Sleeping
<1>2. CASE s # c
    <2>1. KeptProcess(s)
        BY <1>2, Zenon DEF KeptProcess, Reap, Inv, TypeOK
    <2> QED BY <2>1, KeptFates, Zenon
<1> QED BY <1>1, <1>2

\* scheduler_exit_current wakes waiters, and those are not asleep.
LEMMA ExitFates ==
    ASSUME Inv, NEW code, ExitCurrent(code), NEW s \in Slots
    PROVE  ZombieFate(s) /\ SleeperFate(s)
<1> DEFINE woken == WokenBy(current)
           st == [x \in Slots |-> IF x = current THEN "ZOMBIE"
                                  ELSE IF x \in woken THEN "READY"
                                  ELSE state[x]]
           n == FindNextReady(st, current)
<1>1. current \in Slots /\ state[current] = "RUNNING"
    BY DEF Inv, TypeOK, SoleRunner
<1>2. \A x \in woken : /\ state[x] = "BLOCKED"
                       /\ wait_node[x] \in {current, x}
                       /\ wait_node[x] # NULL
    BY <1>1, SlotFacts, SMTT(30) DEF WokenBy
<1>3. /\ exit_code' = [exit_code EXCEPT ![current] = code]
      /\ wait_node' = [x \in Slots |-> IF x \in woken THEN NULL
                                       ELSE wait_node[x]]
      /\ \/ state' = st
         \/ n # NULL /\ state' = [st EXCEPT ![n] = "RUNNING"]
      /\ UNCHANGED <<pid, parent_pid>>
    BY Zenon DEF ExitCurrent, SwitchTo, identity
<1>4. n # NULL => n \in Slots /\ st[n] = "READY"
    BY <1>1, FindNextReadyResult, Zenon
<1> HIDE DEF woken, n
<1>5. CASE s \in woken
    BY <1>2, <1>5, Zenon DEF ZombieFate, SleeperFate, Sleeping
<1>6. CASE s \notin woken
    <2>1. state[s] \in {"ZOMBIE", "BLOCKED"} => KeptProcess(s)
        BY <1>1, <1>3, <1>4, <1>6, Zenon DEF KeptProcess, Inv, TypeOK
    <2> QED BY <2>1, KeptFates
<1> QED BY <1>5, <1>6

\* scheduler_on_tick wakes a sleeper when the counter reaches its deadline.
LEMMA TickFates ==
    ASSUME Inv, Tick, NEW s \in Slots
    PROVE  ZombieFate(s) /\ SleeperFate(s)
<1> DEFINE now == (tick + 1) % TickModulus
           expired == Expired(now)
           st == [x \in Slots |-> IF x \in expired THEN "READY" ELSE state[x]]
           ready == [st EXCEPT ![current] = "READY"]
           n == FindNextReady(ready, current)
<1>1. current \in Slots /\ state[current] = "RUNNING"
    BY DEF Inv, TypeOK, SoleRunner
<1>2. \A x \in expired : Sleeping(x) /\ Due(now, wake_tick[x])
    BY DEF Expired, Sleeping
<1>3. n \in Slots /\ ready[n] = "READY"
    BY <1>1, FindNextReadyResult, Zenon DEF Inv, TypeOK
<1>4. /\ tick' = now
      /\ state' = st \/ state' = [ready EXCEPT ![n] = "RUNNING"]
      /\ UNCHANGED <<pid, parent_pid, exit_code, wait_node>>
    BY Zenon DEF Tick, SwitchTo, identity
<1>5. s \in expired => now = wake_tick[s] /\ now # tick
    <2> SUFFICES ASSUME s \in expired PROVE now = wake_tick[s] /\ now # tick
        OBVIOUS
    <2>1. /\ tick \in 0 .. TickModulus - 1
          /\ wake_tick[s] \in 0 .. TickModulus - 1
          /\ (wake_tick[s] - tick) % TickModulus \in 1 .. SleepMaximum
        BY <1>2, Zenon DEF Inv, TypeOK, SleepersOnTime
    <2> QED BY <1>2, <2>1, DeadlineAhead
<1> HIDE DEF now, expired, n
<1>6. CASE s \in expired
    <2>1. state'[s] \in {"READY", "RUNNING"}
        BY <1>1, <1>3, <1>4, <1>6, Zenon DEF Inv, TypeOK
    <2>2. state[s] = "BLOCKED"
        BY <1>2, <1>6 DEF Sleeping
    <2> QED BY <1>4, <1>5, <1>6, <2>1, <2>2, Zenon
            DEF ZombieFate, SleeperFate, Runnable
<1>7. CASE s \notin expired
    <2>1. state[s] \in {"ZOMBIE", "BLOCKED"} => KeptProcess(s)
        BY <1>1, <1>3, <1>4, <1>7, Zenon DEF KeptProcess, Inv, TypeOK
    <2> QED BY <2>1, KeptFates
<1> QED BY <1>6, <1>7

\* scheduler_waitpid: a caller that blocks was running.
LEMMA WaitpidFates ==
    ASSUME Inv, NEW want \in WaitArguments, Waitpid(want), NEW s \in Slots
    PROVE  ZombieFate(s) /\ SleeperFate(s)
<1> DEFINE st == [state EXCEPT ![current] = "BLOCKED"]
           n == FindNextReady(st, current)
<1>1. current \in Slots /\ state[current] = "RUNNING"
    BY Zenon DEF Inv, TypeOK, SoleRunner
<1>2. CASE Zombies(current, want) # {}
    <2>1. FindChild(Zombies(current, want)) \in Zombies(current, want)
        BY <1>2, FindChildResult, Zenon DEF Zombies, Children
    <2>2. PICK c \in Zombies(current, want) :
                    c = FindChild(Zombies(current, want))
        BY <2>1
    <2>3. c \in Slots /\ state[c] = "ZOMBIE" /\ parent_pid[c] = pid[current]
        BY DEF Zombies, Children
    <2>4. Reap(c) /\ UNCHANGED current
        BY <1>2, <2>2 DEF Waitpid, WaitpidReap
    <2> QED BY <2>3, <2>4, ReapFates, Zenon
<1>3. CASE WaitpidNoChild
    <2>1. KeptProcess(s)
        BY <1>3, Zenon DEF WaitpidNoChild, KeptProcess, identity
    <2> QED BY <2>1, KeptFates, Zenon
<1>4. CASE n # NULL /\ WaitpidBlock(want, st, n)
    <2>1. n \in Slots /\ st[n] = "READY"
        BY <1>1, <1>4, FindNextReadyResult, Zenon
    <2>2. /\ state' = [st EXCEPT ![n] = "RUNNING"]
          /\ \A x \in Slots \ {current} : wait_node'[x] = wait_node[x]
          /\ UNCHANGED <<pid, parent_pid, exit_code>>
        BY <1>1, <1>4, Zenon DEF WaitpidBlock, SwitchTo, identity, Inv, TypeOK
    <2> HIDE DEF n
    <2>3. state[s] \in {"ZOMBIE", "BLOCKED"} => KeptProcess(s)
        BY <1>1, <2>1, <2>2, Zenon DEF KeptProcess, Inv, TypeOK
    <2> QED BY <2>3, KeptFates
<1> QED BY <1>2, <1>3, <1>4 DEF Waitpid

\* Every step of the scheduler, for every process.
LEMMA StepFates ==
    ASSUME Inv, Next, NEW s \in Slots
    PROVE  ZombieFate(s) /\ SleeperFate(s)
<1>0. current \in Slots /\ state[current] = "RUNNING"
    BY DEF Inv, TypeOK, SoleRunner
<1>1. CASE KernelThreadCreate \/ UserProcessCreate \/ StartShell \/ Spawn
    BY <1>1, CreateFates, Zenon
       DEF KernelThreadCreate, UserProcessCreate, StartShell, Spawn
<1>2. ASSUME NEW c \in Slots, BootReap(c)
      PROVE  ZombieFate(s) /\ SleeperFate(s)
    <2>1. /\ state[c] = "ZOMBIE" /\ parent_pid[c] = pid[current] /\ Reap(c)
          /\ UNCHANGED current
        BY <1>2 DEF BootReap, BootChildren, Executing, Inv, BootThread
    <2> QED BY <2>1, ReapFates
<1>3. CASE ThreadTestsDone
    <2>1. KeptProcess(s)
        BY <1>3 DEF ThreadTestsDone, KeptProcess, identity
    <2> QED BY <2>1, KeptFates
<1>4. CASE Yield
    <2> DEFINE st == [state EXCEPT ![current] = "READY"]
               n == FindNextReady(st, current)
    <2>1. n \in Slots /\ st[n] = "READY"
        BY <1>0, FindNextReadyResult, Zenon DEF Inv, TypeOK
    <2>2. /\ state' = [st EXCEPT ![n] = "RUNNING"]
          /\ UNCHANGED <<pid, parent_pid, exit_code, wait_node>>
        BY <1>4 DEF Yield, SwitchTo, identity
    <2> HIDE DEF n
    <2>3. state[s] \in {"ZOMBIE", "BLOCKED"} => KeptProcess(s)
        BY <1>0, <2>1, <2>2, Zenon DEF KeptProcess, Inv, TypeOK
    <2> QED BY <2>3, KeptFates
<1>5. ASSUME NEW ticks \in 1 .. TickModulus - 1, Sleep(ticks)
      PROVE  ZombieFate(s) /\ SleeperFate(s)
    <2> DEFINE n == FindNextReady(state, current)
    <2>1. n \in Slots /\ state[n] = "READY"
        BY <1>0, <1>5, FindNextReadyResult DEF Sleep
    <2>2. /\ state' = [[state EXCEPT ![current] = "BLOCKED"]
                          EXCEPT ![n] = "RUNNING"]
          /\ wait_node' = [wait_node EXCEPT ![current] = NULL]
          /\ UNCHANGED <<pid, parent_pid, exit_code>>
        BY <1>5 DEF Sleep, SwitchTo, identity
    <2> HIDE DEF n
    <2>3. state[s] \in {"ZOMBIE", "BLOCKED"} => KeptProcess(s)
        BY <1>0, <2>1, <2>2, Zenon DEF KeptProcess, Inv, TypeOK
    <2> QED BY <2>3, KeptFates
<1>6. ASSUME NEW code \in ExitCodes, Exit(code)
      PROVE  ZombieFate(s) /\ SleeperFate(s)
    BY <1>6, ExitFates DEF Exit
<1>7. CASE UserPageFault
    BY <1>7, ExitFates DEF UserPageFault
<1>8. ASSUME NEW want \in WaitArguments, Waitpid(want)
      PROVE  ZombieFate(s) /\ SleeperFate(s)
    BY <1>8, WaitpidFates
<1>9. CASE Tick
    BY <1>9, TickFates
<1> QED BY <1>1, <1>2, <1>3, <1>4, <1>5, <1>6, <1>7, <1>8, <1>9 DEF Next

\* reap_process is the only end of a zombie, and waitpid (or the boot thread)
\* calls it on children of the caller only.
THEOREM StatusDeliveredOnce == Spec => ZombieKept
<1>1. Inv /\ [Next]_vars => [\A c \in Slots : ZombieFate(c)]_vars
    BY StepFates
<1>2. Spec => [][\A c \in Slots : ZombieFate(c)]_vars
    BY <1>1, Invariance, PTL DEF Spec
<1> QED BY <1>2 DEF ZombieFate, ZombieKept

\* scheduler_on_tick is the only code that ends a sleep, and it does so in the
\* very tick the deadline names, wherever the counter wraps.
THEOREM SleepEndsOnTime == Spec => WakesAtDeadline
<1>1. Inv /\ [Next]_vars => [\A s \in Slots : SleeperFate(s)]_vars
    BY StepFates
<1>2. Spec => [][\A s \in Slots : SleeperFate(s)]_vars
    BY <1>1, Invariance, PTL DEF Spec
<1> QED BY <1>2 DEF SleeperFate, WakesAtDeadline

=============================================================================
