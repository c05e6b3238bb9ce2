------------------------------- MODULE MCKeep -------------------------------
(***************************************************************************)
(* Instances of Keep for TLC.                                              *)
(***************************************************************************)
EXTENDS KeepProps

FlagsFor(ports) == [ports |-> ports, to |-> 8080]

(***************************************************************************)
(* One port, and two: the second asks to replace the first.                *)
(***************************************************************************)
TwoFlags == {FlagsFor(<<80>>), FlagsFor(<<80, 443>>)}

OneFlag == {FlagsFor(<<80>>)}

(***************************************************************************)
(* keep --ports 80,80                                                      *)
(***************************************************************************)
RepeatedPort == {FlagsFor(<<80, 80>>)}

Recordable == {ApplyDefaults(f) : f \in Flags}

=============================================================================
