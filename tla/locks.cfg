\* Three threads, sys_arch_protect within sys_arch_protect.
CONSTANTS
  Threads = {m, t1, t2}
  Main = m
  Nobody = Nobody
  MaxDepth = 2
SPECIFICATION Spec
INVARIANTS ProtectIsLock CheckIsExact ListIsComplete
