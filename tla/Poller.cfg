CONSTANTS
  Channels = {ch1, ch2, ch3}
  Fds = {fd1, fd2, fd3}
  None = none
SPECIFICATION Spec
SYMMETRY MCSymmetry
INVARIANTS IndInv NoDangling NeverFatal
