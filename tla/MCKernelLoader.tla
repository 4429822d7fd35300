--------------------------- MODULE MCKernelLoader ---------------------------
(* Two kernels, of which the second prefers no address and has the bounds  *)
(* of the initrd elsewhere, an image, and a file too large to show.        *)
EXTENDS KernelLoader

File(size, hdrs, pref, addr_max) ==
  [size |-> size, hdrs |-> hdrs, pref |-> pref, init_size |-> 3, addr_max |-> addr_max]

MCFiles ==
  [k1 |-> File(2, TRUE, 1, 9), k2 |-> File(3, TRUE, High, 12),
   img |-> File(4, FALSE, 0, 0), big |-> File(6, FALSE, 0, 0)]
MCArgs == {<<>>, <<2>>, <<1, 3>>}
=============================================================================
