-------------------------------- MODULE MCPlugins --------------------------------
(* Every list of up to MaxLen characters, and some longer ones; Limit cuts the       *)
(* longest.                                                                          *)
EXTENDS Plugins

CONSTANT MaxLen

MCChars == {"a", "b", "1", "0", "sp", "tab", "nl"}

Short == UNION {[1..n -> {"a", "1", "sp", "nl"}] : n \in 0..MaxLen}

Usual == {<<"a", "sp", "1">>, <<"a", "sp", "0", "nl", "b", "sp", "1", "nl">>,
          <<"b", "sp", "1", "nl", "a", "nl", "b", "sp", "1">>}

Unusual == {<<"tab", "a", "sp", "1">>, <<"a", "tab", "1", "tab">>, <<"a", "sp", "sp", "1">>,
            <<"nl", "sp", "1">>, <<"1", "sp", "1">>, <<"a", "nl", "1">>,
            <<"a", "sp", "1", "nl", "sp", "b", "sp", "1">>, <<"a", "nl", "nl", "b", "tab", "1">>,
            <<"a", "nl", "tab", "b", "sp", "1">>}

Base == [ms0 |-> [VSH |-> <<"a", "sp", "1">>, GAME |-> NoFile,
                  POPS |-> <<"b", "sp", "1", "nl", "nl">>],
         ef0 |-> [VSH |-> <<"b", "sp", "1">>, GAME |-> NoFile, POPS |-> NoFile]]

MCCards == {[Base EXCEPT !.ms0.VSH = s] : s \in Short \cup Usual \cup Unusual}
             \cup {[Base EXCEPT !.ef0.POPS = s] : s \in Usual}
===============================================================================
