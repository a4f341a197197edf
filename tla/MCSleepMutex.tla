---------------------------- MODULE MCSleepMutex ----------------------------
(* Small instances of SleepMutex for TLC. *)
EXTENDS SleepMutex

CONSTANT m

MCFiles == {m}
MCAucun == {}
MCNon == {FALSE}
MCBruit == N + 1
MCReveilleurs == 1..(N + 1)

=============================================================================
