------------------------------ MODULE MCBuddy -------------------------------
(* Values for the constants of Buddy, and the code that computes them.     *)
EXTENDS Buddy, BudLayout

ASSUME DepAssumption == Dep = GetDep(N * LL, LL)

MCChunk == [i \in 0 .. Dep - 1 |-> 2^i]

(* The kernel's own sizes: chunks from 2048 bytes, memory from             *)
(* MM_HEAP_MIN_SIZE on, page by page and around them.                      *)
Kernel == INSTANCE BudLayout WITH MinChunk <- 8, MaxOrd <- 11
KernelSizes ==
  {131072 + 2048 * n + d : n \in 0 .. 400, d \in {0, 1, 2047}} \cup {2^26, 2^29, 2^30}

(* The heap ends inside the memory, although the orders are counted and    *)
(* the metadata is measured a second time for the smaller heap, and        *)
(* GeometryAssumption holds of what Buddy is given.                        *)
ASSUME LayoutFits ==
  \A size \in KernelSizes :
    LET data == Kernel!RealSize(size, 2048)
        dep  == Kernel!GetDep(data, 2048)
    IN  /\ data > 0 /\ dep > 0
        /\ Kernel!Remainder(size, 2048) >= 0
        /\ 2048 * 2^(dep - 1) <= data

(* main gives mm_init 512 MB: there no order fills the last word of its    *)
(* bitmap, so Regular and LastOrderAssumption hold of the kernel's heap.   *)
ASSUME KernelHeapIsRegular ==
  LET data == Kernel!RealSize(2^29, 2048)
  IN  \A i \in 0 .. Kernel!GetDep(data, 2048) - 1 : data \div (2048 * 2^i) % 32 # 0
=============================================================================
