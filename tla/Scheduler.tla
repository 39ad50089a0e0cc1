----------------------------- MODULE Scheduler -----------------------------
(***************************************************************************)
(* Process management of the kernel (kernel/proc/scheduler.c): the process *)
(* table, PID allocation, round-robin dispatch, preemption by the PIT,     *)
(* sleep, waitpid, exit and reaping.                                       *)
(*                                                                         *)
(* The machine has one CPU.  int 0x80 is an interrupt gate, and the        *)
(* functions of scheduler.c run between irq_save_disable and irq_restore,  *)
(* so a call is one step up to the point where it switches to another      *)
(* process.  The only call that goes on after such a switch is waitpid,    *)
(* whose loop re-runs with interrupts still disabled: wait_pid holds the   *)
(* argument that its stack frame keeps, and while the current process has  *)
(* one, no interrupt is taken and nothing else runs.                       *)
(***************************************************************************)
EXTENDS Integers

CONSTANTS ProcessLimit,    \* PROCESS_LIMIT, 16 in the code
          PidMaximum,      \* PID_MAXIMUM, 2^31 - 1 in the code
          DefaultSlice,    \* DEFAULT_TIME_SLICE, 5 in the code
          TickModulus,     \* the tick counter is a uint32_t: 2^32
          SleepMaximum,    \* SLEEP_MAXIMUM_TICKS, 2^31 - 1 in the code
          ExitCodes        \* the exit codes that programs pass to exit

ASSUME LimitAssumption == ProcessLimit \in Nat /\ ProcessLimit >= 2
ASSUME PidAssumption == PidMaximum \in Nat /\ PidMaximum >= ProcessLimit
ASSUME SliceAssumption == DefaultSlice \in Nat \ {0}
ASSUME TickAssumption == /\ SleepMaximum \in Nat \ {0}
                         /\ TickModulus = 2 * (SleepMaximum + 1)
ASSUME ExitCodeAssumption == ExitCodes \subseteq Int

Slots == 0 .. ProcessLimit - 1

NULL == -1          \* no process_table entry

EFAULT == -14       \* -MINIOS_EFAULT, the exit code of a faulting process

AnyChild == -1      \* waitpid(-1): wait for any child

NoCall == 0         \* wait_pid of a process that is not inside waitpid

VARIABLES
    pid, state, parent_pid, exit_code, wake_tick, time_slice, wait_node,
    user,        \* page_directory # 0: a user process, not a kernel thread
    current,     \* current_process
    next_pid,
    tick,        \* pit_ticks()
    wait_pid,    \* argument of the waitpid a process is inside of
    phase,       \* how far kernel_main has got in the boot thread, slot 0
    panicked,
    orphan       \* history: the process that created this one has exited

vars == <<pid, state, parent_pid, exit_code, wake_tick, time_slice, wait_node,
          user, current, next_pid, tick, wait_pid, phase, panicked, orphan>>

identity == <<pid, parent_pid, user>>

-----------------------------------------------------------------------------
\* Searches of the process table.

\* The number of steps from slot a to slot s, going up and around, 1 for the
\* next slot and ProcessLimit for a itself.
Distance(a, s) == IF s > a THEN s - a ELSE s - a + ProcessLimit

\* Mutant of FindNextReady: always the lowest READY slot.
FindFirstReady(st, after) ==
    LET ready == {s \in Slots : st[s] = "READY"}
    IN  IF ready = {} THEN NULL
        ELSE CHOOSE s \in ready : \A r \in ready : s <= r

\* find_next_ready: the first READY slot after `after`, that slot itself last.
FindNextReady(st, after) ==
    LET ready == {s \in Slots : st[s] = "READY"}
    IN  IF ready = {} THEN NULL
        ELSE CHOOSE s \in ready :
                \A r \in ready : Distance(after, s) <= Distance(after, r)

\* find_unused_process; slot 0 belongs to the boot thread.
FindUnused ==
    LET unused == {s \in Slots \ {0} : state[s] = "UNUSED"}
    IN  IF unused = {} THEN NULL
        ELSE CHOOSE s \in unused : \A r \in unused : s <= r

\* Mutant of Children: a child is not asked who its parent is.
ChildrenOfAnyone(parent, want) ==
    {c \in Slots \ {0} : /\ state[c] # "UNUSED"
                         /\ c # parent
                         /\ want \in {AnyChild, pid[c]}}

\* The slots that find_child accepts.
Children(parent, want) ==
    {c \in Slots \ {0} : /\ state[c] # "UNUSED"
                         /\ parent_pid[c] = pid[parent]
                         /\ want \in {AnyChild, pid[c]}}

Zombies(parent, want) == {c \in Children(parent, want) : state[c] = "ZOMBIE"}

\* find_child over a set of accepted slots: the lowest.
FindChild(children) ==
    IF children = {} THEN NULL
    ELSE CHOOSE c \in children : \A d \in children : c <= d

\* find_process_by_pid(p) # NULL
PidInUse(p) == \E s \in Slots : state[s] # "UNUSED" /\ pid[s] = p

\* Mutant of AllocatedPid: restart at 1 after the wrap.
RestartedPid == IF next_pid # 0 THEN next_pid ELSE 1

\* allocate_pid: count up once, and after the wrap take the lowest free PID.
AllocatedPid ==
    IF next_pid # 0 THEN next_pid
    ELSE CHOOSE p \in 1 .. PidMaximum :
            ~PidInUse(p) /\ \A q \in 1 .. p - 1 : PidInUse(q)

\* Mutant of PidAfterAllocation: the counter restarts at 1.
PidAfterRestart == IF next_pid = PidMaximum THEN 1 ELSE next_pid + 1

PidAfterAllocation ==
    IF next_pid \in {0, PidMaximum} THEN 0 ELSE next_pid + 1

-----------------------------------------------------------------------------
\* Building blocks of the operations.

\* switch_to, applied to the states st that the caller has already written.
\* The address space that it activates is the subject of Memory.
SwitchTo(st, next) ==
    /\ current' = next
    /\ state' = [st EXCEPT ![next] = "RUNNING"]
    /\ time_slice' = [time_slice EXCEPT ![next] = DefaultSlice]

\* Mutants of WokenBy: nobody; of the programs only one that waits for this
\* child by its PID; any blocked parent, whatever it waits for.
WokenNobody(c) == {}

WokenByPidOnly(c) ==
    {p \in Slots : /\ state[p] = "BLOCKED"
                   /\ pid[p] = parent_pid[c]
                   /\ wait_node[p] \in IF user[p] THEN {c} ELSE {c, p}}

WokenWhateverFor(c) ==
    {p \in Slots : state[p] = "BLOCKED" /\ pid[p] = parent_pid[c]}

\* wake_waiting_parent: the waiters that the exit of c makes READY.
WokenBy(c) ==
    {p \in Slots : /\ state[p] = "BLOCKED"
                   /\ pid[p] = parent_pid[c]
                   /\ wait_node[p] \in {c, p}}

\* Mutant of Due: an unsigned comparison.
DueUnsigned(now, deadline) == now >= deadline

\* (int32_t)(now - deadline) >= 0 on uint32_t operands.
Due(now, deadline) == (now - deadline) % TickModulus <= SleepMaximum

\* A process executes outside the kernel, with interrupts enabled.
Executing(s) == /\ ~panicked
                /\ current = s
                /\ wait_pid[s] = NoCall

\* Publication of a new process: the common end of kernel_thread_create,
\* user_process_create and scheduler_spawn_image, reached when a slot is free
\* and every allocation succeeded.  A failure before it leaves this state as
\* it was: allocate_pid is the last step that can fail.
Create(isUser) ==
    LET s == FindUnused
    IN  /\ s # NULL
        /\ pid' = [pid EXCEPT ![s] = AllocatedPid]
        /\ next_pid' = PidAfterAllocation
        /\ state' = [state EXCEPT ![s] = "READY"]
        /\ parent_pid' = [parent_pid EXCEPT ![s] = pid[current]]
        /\ time_slice' = [time_slice EXCEPT ![s] = DefaultSlice]
        /\ user' = [user EXCEPT ![s] = isUser]
        /\ orphan' = [orphan EXCEPT ![s] = FALSE]
        /\ UNCHANGED <<exit_code, wake_tick, wait_node, current, tick,
                       wait_pid, panicked>>

\* reap_process: clear_process on a zombie that is not running.
Reap(c) ==
    /\ pid' = [pid EXCEPT ![c] = 0]
    /\ state' = [state EXCEPT ![c] = "UNUSED"]
    /\ parent_pid' = [parent_pid EXCEPT ![c] = 0]
    /\ exit_code' = [exit_code EXCEPT ![c] = 0]
    /\ wake_tick' = [wake_tick EXCEPT ![c] = 0]
    /\ time_slice' = [time_slice EXCEPT ![c] = 0]
    /\ wait_node' = [wait_node EXCEPT ![c] = NULL]
    /\ user' = [user EXCEPT ![c] = FALSE]
    /\ orphan' = [orphan EXCEPT ![c] = FALSE]
    /\ panicked' = (state[c] # "ZOMBIE" \/ c = current)

-----------------------------------------------------------------------------
\* Calls of the current process.

\* scheduler_yield: with no other READY process the slice goes on as it was.
Yield ==
    LET st == [state EXCEPT ![current] = "READY"]
        next == FindNextReady(st, current)
    IN  /\ Executing(current)
        /\ current = 0 => phase # "idle"
        /\ next # current
        /\ SwitchTo(st, next)
        /\ UNCHANGED <<identity, exit_code, wake_tick, wait_node, next_pid,
                       tick, wait_pid, phase, panicked, orphan>>

\* scheduler_sleep_current for ticks > 0 (sleep(0) is Yield).  With nothing
\* READY, or ticks above the maximum, the call fails and changes nothing.
Sleep(ticks) ==
    LET next == FindNextReady(state, current)
    IN  /\ Executing(current)
        /\ user[current]
        /\ ticks <= SleepMaximum
        /\ next # NULL
        /\ wake_tick' = [wake_tick EXCEPT
                            ![current] = (tick + ticks) % TickModulus]
        /\ wait_node' = [wait_node EXCEPT ![current] = NULL]
        /\ SwitchTo([state EXCEPT ![current] = "BLOCKED"], next)
        /\ UNCHANGED <<identity, exit_code, next_pid, tick, wait_pid, phase,
                       panicked, orphan>>

\* scheduler_exit_current.  The children of the exiting process keep its PID
\* as their parent_pid: nobody inherits them.
ExitCurrent(code) ==
    LET woken == WokenBy(current)
        st == [s \in Slots |-> IF s = current THEN "ZOMBIE"
                               ELSE IF s \in woken THEN "READY"
                               ELSE state[s]]
        next == FindNextReady(st, current)
    IN  /\ Executing(current)
        /\ exit_code' = [exit_code EXCEPT ![current] = code]
        /\ wait_node' = [s \in Slots |-> IF s \in woken THEN NULL
                                         ELSE wait_node[s]]
        /\ orphan' = [c \in Slots |->
                         \/ orphan[c]
                         \/ state[c] # "UNUSED" /\ parent_pid[c] = pid[current]]
        /\ IF next = NULL
           THEN /\ panicked' = TRUE
                /\ state' = st
                /\ UNCHANGED <<current, time_slice>>
           ELSE /\ SwitchTo(st, next)
                /\ UNCHANGED panicked
        /\ UNCHANGED <<identity, wake_tick, next_pid, tick, wait_pid, phase>>

\* A thread or a program ends: SYS_exit, or thread_trampoline's exit(0).
Exit(code) == current # 0 /\ ExitCurrent(code)

\* scheduler_user_page_fault: a fault at CPL 3 ends the process.
UserPageFault == user[current] /\ ExitCurrent(EFAULT)

\* scheduler_spawn_image called by syscall_spawn.
Spawn == /\ Executing(current)
         /\ user[current]
         /\ Create(TRUE)
         /\ UNCHANGED phase

-----------------------------------------------------------------------------
\* waitpid.

\* The argument of the waitpid that runs now: a new call's, or the one of the
\* call that the current process resumes.  0 and values below -1 are refused
\* with EINVAL before anything else.
WaitArguments ==
    IF wait_pid[current] = NoCall
    THEN {AnyChild} \cup (1 .. PidMaximum)
    ELSE {wait_pid[current]}

\* Who calls waitpid: user programs, and kernel_main in its lifecycle test.
MayWait == user[current] \/ (current = 0 /\ phase = "threads")

\* A zombie child is found: it is reaped and its status returned.
WaitpidReap(want) ==
    /\ Reap(FindChild(Zombies(current, want)))
    /\ wait_pid' = [wait_pid EXCEPT ![current] = NoCall]
    /\ UNCHANGED <<current, next_pid, tick, phase>>

\* ECHILD: the call returns with nothing else changed.
WaitpidNoChild ==
    /\ wait_pid' = [wait_pid EXCEPT ![current] = NoCall]
    /\ UNCHANGED <<identity, state, exit_code, wake_tick, time_slice,
                   wait_node, current, next_pid, tick, phase, panicked, orphan>>

\* No zombie yet: block until wake_waiting_parent, and switch to `next`.
WaitpidBlock(want, st, next) ==
    /\ wait_node' = [wait_node EXCEPT ![current] =
                        IF want = AnyChild THEN current
                        ELSE FindChild(Children(current, want))]
    /\ wait_pid' = [wait_pid EXCEPT ![current] = want]
    /\ SwitchTo(st, next)
    /\ UNCHANGED <<identity, exit_code, wake_tick, next_pid, tick, phase,
                   panicked, orphan>>

\* One turn of the loop of scheduler_waitpid.  With a child but nothing READY
\* to switch to, the call gives up with ECHILD.
Waitpid(want) ==
    LET st == [state EXCEPT ![current] = "BLOCKED"]
        next == FindNextReady(st, current)
    IN  /\ ~panicked
        /\ MayWait
        /\ IF Zombies(current, want) # {} THEN WaitpidReap(want)
           ELSE IF Children(current, want) = {} \/ next = NULL
           THEN WaitpidNoChild
           ELSE WaitpidBlock(want, st, next)

-----------------------------------------------------------------------------
\* The timer.

\* Mutant of Expired: the loop stops one entry early.
ExpiredButLast(now) ==
    {s \in 1 .. ProcessLimit - 2 : /\ state[s] = "BLOCKED"
                                   /\ wait_node[s] = NULL
                                   /\ Due(now, wake_tick[s])}

\* The sleepers that scheduler_on_tick wakes at time now.  Its loop starts at
\* index 1: the boot thread never sleeps.
Expired(now) ==
    {s \in Slots \ {0} : /\ state[s] = "BLOCKED"
                         /\ wait_node[s] = NULL
                         /\ Due(now, wake_tick[s])}

\* irq_dispatch for IRQ 0: pit_handle_irq, then scheduler_on_tick.  When the
\* slice is used up and nothing else is READY, the process gets a new slice,
\* which is what a switch to itself amounts to.
Tick ==
    LET now == (tick + 1) % TickModulus
        expired == Expired(now)
        st == [s \in Slots |-> IF s \in expired THEN "READY" ELSE state[s]]
        ready == [st EXCEPT ![current] = "READY"]
    IN  /\ Executing(current)
        /\ tick' = now
        /\ wake_tick' = [s \in Slots |-> IF s \in expired THEN 0
                                         ELSE wake_tick[s]]
        /\ IF time_slice[current] > 1
           THEN /\ time_slice' = [time_slice EXCEPT ![current] = @ - 1]
                /\ state' = st
                /\ UNCHANGED current
           ELSE SwitchTo(ready, FindNextReady(ready, current))
        /\ UNCHANGED <<identity, exit_code, wait_node, next_pid, wait_pid,
                       phase, panicked, orphan>>

-----------------------------------------------------------------------------
\* The boot thread, kernel_main in slot 0.  It first runs the scheduler's own
\* tests with kernel threads, then starts test programs one at a time, then
\* the shell; after that it only halts.

BootChildren == {s \in Slots \ {0} : state[s] # "UNUSED" /\ parent_pid[s] = 0}

\* scheduler_self_test, _preemption_self_test and _lifecycle_self_test.
KernelThreadCreate == /\ Executing(0)
                      /\ phase = "threads"
                      /\ Create(FALSE)
                      /\ UNCHANGED phase

\* user_process_self_test, user_elf_self_test, user_page_fault_self_test.
UserProcessCreate == /\ Executing(0)
                     /\ phase = "programs"
                     /\ BootChildren = {}
                     /\ Create(TRUE)
                     /\ UNCHANGED phase

\* The tests poll their threads and programs, and reap each one themselves.
BootReap(c) == /\ Executing(0)
               /\ phase # "idle"
               /\ c \in BootChildren
               /\ state[c] = "ZOMBIE"
               /\ Reap(c)
               /\ UNCHANGED <<current, next_pid, tick, wait_pid, phase>>

\* The scheduler's tests are over: every thread has been reaped.
ThreadTestsDone == /\ Executing(0)
                   /\ phase = "threads"
                   /\ BootChildren = {}
                   /\ phase' = "programs"
                   /\ UNCHANGED <<identity, state, exit_code, wake_tick,
                                  time_slice, wait_node, current, next_pid,
                                  tick, wait_pid, panicked, orphan>>

\* start_interactive_shell, and then the hlt loop.
StartShell == /\ Executing(0)
              /\ phase = "programs"
              /\ BootChildren = {}
              /\ Create(TRUE)
              /\ phase' = "idle"

-----------------------------------------------------------------------------
\* scheduler_init.
Init == /\ pid = [s \in Slots |-> 0]
        /\ state = [s \in Slots |-> IF s = 0 THEN "RUNNING" ELSE "UNUSED"]
        /\ parent_pid = [s \in Slots |-> 0]
        /\ exit_code = [s \in Slots |-> 0]
        /\ wake_tick = [s \in Slots |-> 0]
        /\ time_slice = [s \in Slots |-> IF s = 0 THEN DefaultSlice ELSE 0]
        /\ wait_node = [s \in Slots |-> NULL]
        /\ user = [s \in Slots |-> FALSE]
        /\ current = 0
        /\ next_pid = 1
        /\ tick = 0
        /\ wait_pid = [s \in Slots |-> NoCall]
        /\ phase = "threads"
        /\ panicked = FALSE
        /\ orphan = [s \in Slots |-> FALSE]

Next == \/ KernelThreadCreate
        \/ UserProcessCreate
        \/ \E c \in Slots : BootReap(c)
        \/ ThreadTestsDone
        \/ StartShell
        \/ Spawn
        \/ Yield
        \/ \E ticks \in 1 .. TickModulus - 1 : Sleep(ticks)
        \/ \E code \in ExitCodes : Exit(code)
        \/ UserPageFault
        \/ \E want \in WaitArguments : Waitpid(want)
        \/ Tick

Spec == Init /\ [][Next]_vars

\* A PIT interrupt that arrives while interrupts are disabled stays latched in
\* the interrupt controller and is delivered when they are enabled again, so
\* Tick is strongly fair.  A resumed waitpid is kernel code that nothing can
\* interrupt.  User programs may loop for ever: nothing is assumed of them.
Fairness == /\ SF_vars(Tick)
            /\ WF_vars(/\ wait_pid[current] # NoCall
                       /\ Waitpid(wait_pid[current]))

FairSpec == Spec /\ Fairness

-----------------------------------------------------------------------------
\* Properties.

ProcessStates == {"UNUSED", "READY", "RUNNING", "BLOCKED", "ZOMBIE"}

\* Every variable has the type its C declaration gives it.
TypeOK == /\ pid \in [Slots -> 0 .. PidMaximum]
          /\ state \in [Slots -> ProcessStates]
          /\ parent_pid \in [Slots -> 0 .. PidMaximum]
          /\ exit_code \in [Slots -> ExitCodes \cup {0, EFAULT}]
          /\ wake_tick \in [Slots -> 0 .. TickModulus - 1]
          /\ time_slice \in [Slots -> 0 .. DefaultSlice]
          /\ wait_node \in [Slots -> Slots \cup {NULL}]
          /\ user \in [Slots -> BOOLEAN]
          /\ current \in Slots
          /\ next_pid \in 0 .. PidMaximum
          /\ tick \in 0 .. TickModulus - 1
          /\ wait_pid \in [Slots -> -1 .. PidMaximum]
          /\ phase \in {"threads", "programs", "idle"}
          /\ panicked \in BOOLEAN
          /\ orphan \in [Slots -> BOOLEAN]

\* A process that sleep has blocked.
Sleeping(s) == state[s] = "BLOCKED" /\ wait_node[s] = NULL

\* A process that can be switched to without waiting for anything.
Runnable(s) == state[s] \in {"READY", "RUNNING"}

\* No panic of scheduler.c is reachable: the exit of a process always finds
\* another one to run ("last kernel thread exited"), although any number of
\* processes may be asleep or waiting, and waitpid always finds its zombie in
\* a state that reap_process accepts ("waitpid could not reap child").
NoPanic == ~panicked

\* current_process is the one RUNNING process, through every switch made by
\* yield, sleep, waitpid, exit and the timer.
SoleRunner == \A s \in Slots : state[s] = "RUNNING" <=> s = current

\* No two entries of the table have the same PID, also after next_pid wrapped
\* and allocate_pid reuses PIDs; zombies keep theirs.
PidsUnique == \A s, t \in Slots :
                 state[s] # "UNUSED" /\ state[t] # "UNUSED" /\ pid[s] = pid[t]
                    => s = t

\* No wake-up is lost: whoever is blocked in waitpid waits for a child that
\* has still to exit, none of the children it would accept is a zombie
\* already, and wait_node names a slot that was not reaped and reused under it.
WaiterHasLiveChild ==
    \A p \in Slots :
        state[p] = "BLOCKED" /\ wait_node[p] # NULL =>
            /\ wait_pid[p] # NoCall
            /\ Children(p, wait_pid[p]) # {}
            /\ Zombies(p, wait_pid[p]) = {}
            /\ IF wait_pid[p] = AnyChild THEN wait_node[p] = p
               ELSE wait_node[p] \in Children(p, wait_pid[p])

\* No wake-up is spurious: a waitpid that was switched back to finds a zombie
\* child.  It neither blocks again nor returns ECHILD for a child it had.
WokenWaiterFindsZombie ==
    \A p \in Slots : wait_pid[p] # NoCall /\ Runnable(p)
                        => Zombies(p, wait_pid[p]) # {}

\* No sleeper is overdue: its deadline is ahead of the tick counter by at most
\* the longest sleep, on the circle of uint32_t values and across the wrap.
SleepersOnTime ==
    \A s \in Slots : Sleeping(s) =>
        (wake_tick[s] - tick) % TickModulus \in 1 .. SleepMaximum

\* A sleeper is woken by nothing but the timer reaching its deadline: not by
\* the exit of its children, and not by a comparison that the wrap deceives.
WakesAtDeadline ==
    [][\A s \in Slots : Sleeping(s) /\ ~Sleeping(s)' =>
            tick' = wake_tick[s] /\ tick' # tick /\ Runnable(s)']_vars

\* A zombie keeps its PID and exit code until a process with the PID of its
\* parent takes it, in one step: the status is delivered once, to one process.
ZombieKept ==
    [][\A c \in Slots : state[c] = "ZOMBIE" =>
          \/ /\ state'[c] = "ZOMBIE"
             /\ <<pid[c], parent_pid[c], exit_code[c]>>'
                   = <<pid[c], parent_pid[c], exit_code[c]>>
          \/ /\ state'[c] = "UNUSED"
             /\ parent_pid[c] = pid[current]
             /\ current' = current
             /\ state' = [state EXCEPT ![c] = "UNUSED"]]_vars

\* As long as next_pid has not wrapped, no process that could call waitpid has
\* the PID under which the creator of an orphan was known: what waitpid reaps
\* was created by its caller.
OrphansStayOrphans ==
    next_pid # 0 =>
        \A c, p \in Slots : orphan[c] /\ state[p] \notin {"UNUSED", "ZOMBIE"}
                               => pid[p] # parent_pid[c]

\* "waitpid waits for direct children" (docs/PROJECT.md): what it reaps was
\* created by the caller, also when the creator's PID has been used again.
WaitpidReapsDirectChildren ==
    [][\A c \in Slots : state[c] = "ZOMBIE" /\ state'[c] = "UNUSED"
                           => ~orphan[c]]_vars

\* What the invariants above rest on.  The boot thread keeps slot 0 and PID 0,
\* never sleeps, and is inside waitpid only while it tests kernel threads.
BootThread ==
    /\ pid[0] = 0
    /\ ~user[0]
    /\ state[0] \in {"READY", "RUNNING", "BLOCKED"}
    /\ ~Sleeping(0)
    /\ wait_pid[0] # NoCall => phase = "threads"

\* Only user processes are ever blocked besides the boot thread, and there are
\* none of them while it tests kernel threads.
OnlyUsersBlock ==
    \A s \in Slots \ {0} : /\ state[s] = "BLOCKED" => user[s]
                           /\ user[s] => phase # "threads"

\* A process is inside waitpid only while it is blocked there or has been
\* woken from there; wait_node is set exactly while it is blocked there.
CallStates ==
    \A s \in Slots :
        /\ wait_pid[s] # NoCall =>
              \/ Runnable(s) /\ wait_node[s] = NULL
              \/ state[s] = "BLOCKED" /\ wait_node[s] # NULL
        /\ wait_node[s] # NULL => state[s] = "BLOCKED" /\ wait_pid[s] # NoCall

\* Every PID in the table was handed out: it is not 0, not the PID of its own
\* parent, and smaller than the counter as long as that has not wrapped.
PidsAllocated ==
    /\ \A s \in Slots \ {0} : state[s] # "UNUSED" => pid[s] \notin {0, parent_pid[s]}
    /\ next_pid # 0 => \A s \in Slots : pid[s] < next_pid
                                        /\ parent_pid[s] < next_pid

\* The inductive invariant of the scheduler.
Inv == /\ TypeOK
       /\ NoPanic
       /\ SoleRunner
       /\ PidsUnique
       /\ BootThread
       /\ OnlyUsersBlock
       /\ CallStates
       /\ PidsAllocated
       /\ WaiterHasLiveChild
       /\ WokenWaiterFindsZombie
       /\ SleepersOnTime
       /\ OrphansStayOrphans

\* Every READY process gets the CPU, whatever the others do.
ReadyRuns == \A s \in Slots : state[s] = "READY" ~> state[s] = "RUNNING"

\* Every sleep ends.
SleeperWakes == \A s \in Slots : Sleeping(s) ~> Runnable(s)

\* A waitpid whose child has exited returns.
WaiterReturns ==
    \A p \in Slots : wait_pid[p] # NoCall /\ Zombies(p, wait_pid[p]) # {}
                        ~> wait_pid[p] = NoCall

=============================================================================
