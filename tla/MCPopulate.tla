---------------------------- MODULE MCPopulate ----------------------------
(* Three paths and two certificates for Populate. Path 1 holds two values  *)
(* of one certificate each; path 2 one certificate twice in one value, or  *)
(* nothing (a 404 of Vault, a host that does not answer, a credential of   *)
(* another type).                                                          *)
EXTENDS Populate

MCSecrets ==
  << {<< <<"a", 11>>, <<"b", 12>> >>, << <<"b", 12>>, <<"a", 11>> >>},
     {<< <<"a", 21>>, <<"a", 21>> >>, << >>},
     {<< <<"a", 31>> >>} >>

MCListings == {<< >>, <<1>>, <<3, 1>>, <<3, 2, 1>>}
=============================================================================
