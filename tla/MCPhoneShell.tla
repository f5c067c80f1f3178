---------------------------- MODULE MCPhoneShell ----------------------------
(* Every short text, package and activity over the characters that matter.  *)
EXTENDS PhoneShell
Upto(S, n) == BoundedSeq(S, n)
TextSet == Upto({"%", "s", " ", "'", "a"}, 5)
PackageSet == Upto({"a", "1", ".", "_", "'", ";"}, 4)
ActivitySet == {<<"'">>, <<"\\", "'">>, <<"a", " ", ";">>}
=============================================================================
