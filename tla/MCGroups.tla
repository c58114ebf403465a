------------------------------ MODULE MCGroups ------------------------------
(* Instances of Groups: four keys, one of them on no board here; a builtin   *)
(* group; names a group may have, and names it may not, on file from before. *)
EXTENDS Groups

MCTable == << <<"a", 2>>, <<"b", 3>>, <<"c", 4>>, <<"esc", 6>> >>
MCBuiltin == "wasd" :> <<4, 2>>
MCHexWords == "0x00" :> 0 @@ "0x01" :> 1 @@ "0x02" :> 2 @@ "0x03" :> 3 @@ "0x04" :> 4
              @@ "0x05" :> 5 @@ "0x06" :> 6 @@ "0x07" :> 7 @@ "0xzz" :> NoUsage

g  == Plain(<<"g">>)
h  == Plain(<<"my", "h">>)
esc == Plain(<<"esc">>)

Old == esc :> <<2>>
MCJson == {NoFile, File(Old @@ g :> <<3, 2, 3>>)}
MCToml == {NoFile, File(Old @@ h :> <<3>> @@ Plain(<<"wasd">>) :> <<7>> @@ Plain(<<"0x07">>) :> <<2>>)}

Item(neg, body) == [neg |-> neg, body |-> body]

\* "0x00,0x00", where 0x00 is the usage the name check takes for a sentinel.
twice == <<Item(FALSE, <<"0x00">>), Item(FALSE, <<"0x00">>)>>

MCPlainNames == {g, h, twice}

Bodies == { <<>>, <<"all">>, <<"a">>, <<"esc">>, <<"0x03">>, <<"0x07">>, <<"0xzz">>, <<"0x03", "a">>,
            <<"a", "c">>, <<"c", "a">>, <<"a", "g">>, <<"g">>, <<"my", "h">>, <<"wasd">> }
Items == {Item(neg, body) : neg \in BOOLEAN, body \in Bodies}
Wide  == {Item(neg, body) : neg \in BOOLEAN, body \in {<<"all">>, <<"a", "c">>, <<"wasd">>, <<"b">>, <<"g">>}}

MCTexts == {<<i>> : i \in Items} \cup {<<i, j>> : i, j \in Items}
           \cup {<<i, j, k>> : i, j, k \in Wide}
MCBoards == { <<3, 7, 2>>, <<4, 6>> }

MCCommands ==
  {[op |-> "group", name |-> n, selector |-> s] :
      n \in {g, h, Plain(<<"a", "c">>)},
      s \in {<<Item(FALSE, <<"wasd">>), Item(TRUE, <<"g">>)>>, <<Item(FALSE, <<"g">>), Item(FALSE, <<"b">>)>>}}
  \cup {[op |-> "group", name |-> Plain(<<"all">>), selector |-> Plain(<<"b">>)]}
  \cup {[op |-> "ungroup", name |-> n] : n \in {g, esc}}
  \cup {[op |-> "rename", name |-> n, new |-> m] : n \in {g, esc}, m \in {g, h, esc, Plain(<<"wasd">>)}}
  \cup {[op |-> "rename", name |-> g, new |-> twice]}

Symmetry == Permutations(Editors)
=============================================================================
