--------------------------- MODULE MCNameservers ---------------------------
(* Small instances of Nameservers for TLC. *)
EXTENDS Nameservers, SequencesExt

Site == [ip |-> 4, n |-> <<10, 0, 0, 53>>]
Router == [ip |-> 4, n |-> <<192, 168, 1, 1>>]
Public == [ip |-> 4, n |-> <<8, 8, 8, 8>>]
Global6 == [ip |-> 6, n |-> <<9734, 18176, 18176, 0, 0, 0, 0, 4369>>]
Stub == [ip |-> 4, n |-> <<127, 0, 0, 53>>]
Loopback6 == [ip |-> 6, n |-> <<0, 0, 0, 0, 0, 0, 0, 1>>]
Mapped == [ip |-> 6, n |-> <<0, 0, 0, 0, 0, 65535, 32512, 1>>]
Scoped == [ip |-> 6, n |-> <<65215, 0, 0, 0, 0, 0, 0, 1>>]
AutoConf == [ip |-> 4, n |-> <<169, 254, 1, 1>>]
Nowhere == [ip |-> 4, n |-> <<0, 0, 0, 0>>]
Group == [ip |-> 4, n |-> <<239, 255, 255, 250>>]
Group6 == [ip |-> 6, n |-> <<65282, 0, 0, 0, 0, 0, 0, 251>>]
Everyone == [ip |-> 4, n |-> <<255, 255, 255, 255>>]

Unusable == {Stub, Loopback6, Scoped, AutoConf, Nowhere, Group, Group6, Everyone}

UserLists == SeqOf({Site, Global6, Mapped} \cup Unusable, 2)
               \cup SeqOf({Site, Router, Public, Stub}, MAX_NAMESERVERS + 1)

ScutilLists == {Unreadable} \cup SeqOf({Site, Router, Public, Global6, Stub, Junk}, 4)
                            \cup SeqOf(Unusable, 1)

ResolvLists == {Unreadable} \cup SeqOf({Site, Stub, Scoped, Junk}, 2)

(* The user's addresses, or else every pair of host sources. *)
AllInputs == (UserLists \X {<<>>} \X {<<>>}) \cup ({<<>>} \X ScutilLists \X ResolvLists)
=============================================================================
