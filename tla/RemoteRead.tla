----------------------------- MODULE RemoteRead -----------------------------
(***************************************************************************)
(* What a caller of the session may rely on: an answer to the question it  *)
(* asked, as the board was at some moment between the asking and the       *)
(* answer, or an error that ends the command.                              *)
(***************************************************************************)
EXTENDS Naturals, Sequences

CONSTANTS Requests, Fixed, None

VARIABLES
  version,  \* how often the board was edited
  asking,   \* the question being asked, and the version when it was
  got       \* the answers of this command so far

vars == <<version, asking, got>>

Answers(r, from, to) == {[req |-> r, version |-> v] : v \in IF r \in Fixed THEN {0} ELSE from..to}

Init == version = 0 /\ asking = None /\ got = <<>>

Edit == version' = version + 1 /\ UNCHANGED <<asking, got>>

Ask(r) ==
  /\ asking = None
  /\ asking' = [req |-> r, from |-> version]
  /\ UNCHANGED <<version, got>>

Return ==
  /\ asking # None
  /\ \E a \in Answers(asking.req, asking.from, version) : got' = Append(got, a)
  /\ asking' = None
  /\ UNCHANGED version

Fail == asking # None /\ asking' = None /\ UNCHANGED <<version, got>>

NewCommand == asking = None /\ got' = <<>> /\ UNCHANGED <<version, asking>>

Next == Edit \/ (\E r \in Requests : Ask(r)) \/ Return \/ Fail \/ NewCommand

Spec == Init /\ [][Next]_vars
=============================================================================
