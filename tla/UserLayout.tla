----------------------------- MODULE UserLayout -----------------------------
(***************************************************************************)
(* Addresses as the kernel's user-memory code sees them: words that wrap   *)
(* around, pages, and the user half of the address space below KernelBase. *)
(***************************************************************************)
EXTENDS Integers

CONSTANTS UserPageSize,     \* PAGE_SIZE, 4096
          KernelBase,       \* KERNEL_BASE, 0xC0000000
          AddressModulus    \* 2^32

ASSUME LayoutAssumption ==
    /\ UserPageSize \in Nat \ {0} /\ KernelBase \in Nat /\ AddressModulus \in Nat
    /\ KernelBase % UserPageSize = 0 /\ AddressModulus % UserPageSize = 0
    /\ UserPageSize < KernelBase /\ KernelBase < AddressModulus

Words == 0 .. AddressModulus - 1

Word(n) == n % AddressModulus

\* address & PAGE_MASK and address & (PAGE_SIZE - 1)
PageBase(a) == a - (a % UserPageSize)

PageOffset(a) == a % UserPageSize

PageBases == {a \in Words : PageOffset(a) = 0}

\* The page bases from one to another, in steps of UserPageSize that wrap.
PagesFrom(first, last) ==
    {Word(first + k * UserPageSize) : k \in 0 .. Word(last - first) \div UserPageSize}
=============================================================================
