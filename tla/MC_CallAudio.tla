---------------------------- MODULE MC_CallAudio ----------------------------
(* Model values for CallAudio.  Two call ids in a three-slot table, one    *)
(* circuit-switched and the VoLTE mode code, two threads of each kind.     *)
EXTENDS CallAudio

MC_CallIds == {1, 2}
MC_ModeCodes == {"GSM", "VOLTE"}
MC_RecThreads == {"r1", "r2"}
MC_ToneThreads == {"t1", "t2"}
=============================================================================
