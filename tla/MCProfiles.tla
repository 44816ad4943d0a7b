----------------------------- MODULE MCProfiles -----------------------------
(* Values for Profiles: an ordinary name and two names with one prefix.     *)
EXTENDS Profiles

MCDefault == <<"d">>
MCName == {<<"a">>, <<"a", "_", " ", "b">>, <<"a", " ", "_", "b">>}
MCSetting == {"server", "zip"}
=============================================================================
