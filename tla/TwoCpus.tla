------------------------------ MODULE TwoCpus ------------------------------
(* The two CPUs, as the interrupts and the mailbox name them.               *)
ARM9 == 9
ARM7 == 7
Cpus == {ARM9, ARM7}
other(c) == IF c = ARM9 THEN ARM7 ELSE ARM9
=============================================================================
