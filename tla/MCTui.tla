-------------------------------- MODULE MCTui --------------------------------
(* Instances of Tui: the profile, whose command byte is the one edges carry, *)
(* two pairs of matrix rows, whose replies nothing tells apart, and one key.  *)
EXTENDS Tui

MCRequests == {"profile", "rows01", "rows23", "key.ap", "key.mode"}
MCCmd == [r \in MCRequests |-> CASE r = "profile" -> 0
                                 [] r \in {"rows01", "rows23"} -> 43
                                 [] OTHER -> 35]
MCEchoed == {"key.ap", "key.mode"}
MCFixed == {"rows01", "rows23"}
MCScript == <<"profile", "rows01", "rows23", "key.ap", "key.mode">>
=============================================================================
