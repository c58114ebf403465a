------------------------------ MODULE MCOneShot ------------------------------
(* Instances of OneShot: one key in each pair of matrix rows. *)
EXTENDS OneShot

MCRowPairs == <<"rows01", "rows23", "rows45">>
MCKeys == {"key1", "key2", "key3"}
MCRequests == {"info", "profile"} \cup Range(MCRowPairs) \cup MCKeys
MCCmd == [r \in MCRequests |-> CASE r = "info" -> 1
                                 [] r = "profile" -> 0
                                 [] r \in MCKeys -> 35
                                 [] OTHER -> 43]
MCFixed == {"info"} \cup Range(MCRowPairs)
MCKeysIn == [r \in Range(MCRowPairs) |-> CASE r = "rows01" -> <<"key1">>
                                           [] r = "rows23" -> <<"key2">>
                                           [] OTHER -> <<"key3">>]
MCPrologues == {<<>>, <<"info", "profile">>}
=============================================================================
