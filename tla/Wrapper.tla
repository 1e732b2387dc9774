------------------------------- MODULE Wrapper -------------------------------
(***************************************************************************)
(* The sizes of src/src/support/wrapper.h: arithmetic on size_t, and the   *)
(* growth of an array.  malloc() and its kin are external: they hand out   *)
(* objects of at most PTRDIFF_MAX bytes, and may fail for any size, on     *)
(* which xmalloc() and its kin end the program.                            *)
(***************************************************************************)
EXTENDS Integers

CONSTANTS PtrdiffMax,   \* the largest object; SIZE_MAX is twice that plus one
          Slack         \* the constant of alloc_needed(), 32 in the code

ASSUME PtrdiffMaxAssumption == PtrdiffMax \in Nat
ASSUME SlackAssumption == Slack \in Nat

SIZE_MAX == 2 * PtrdiffMax + 1

(* A result of unsigned arithmetic. *)
Wrapped(x) == x % (SIZE_MAX + 1)

alloc_needed(x) == Wrapped(Wrapped(x + Slack) * 3) \div 2

(* Mutant of AllocGrow: the request may be larger than the growth. *)
AllocGrowOnly(count, allocated) ==
  IF count > allocated THEN alloc_needed(allocated) ELSE allocated

(* ALLOC_GROW(): the elements there is room for afterwards. *)
AllocGrow(count, allocated) ==
  IF count > allocated
  THEN IF alloc_needed(allocated) < count THEN count ELSE alloc_needed(allocated)
  ELSE allocated

check_mult_overflow(a, b) == a # 0 /\ b # 0 /\ a > SIZE_MAX \div b

(* xrealloc() of n elements may succeed, after safe_mult(). *)
Allocable(n, elem) == ~ check_mult_overflow(elem, n) /\ elem * n <= PtrdiffMax
=============================================================================
