---------------------------- MODULE MCSmbiosWalk ----------------------------
(***************************************************************************)
(* SmbiosWalk for TLC.  A table is one or two structures and a tail; each  *)
(* has a type, a formatted area filled with one byte (which makes every    *)
(* string field ask for that string number) and a string table that is     *)
(* empty, holds one or two strings, or is not terminated.  The Length      *)
(* field is right, one too small or too large.                             *)
(***************************************************************************)
EXTENDS SmbiosWalk

Structure(type, hlen, fill, strings) ==
    <<type, hlen>> \o [k \in 1..(hlen - 2) |-> fill] \o strings

StringTables == {<<>>, <<0>>, <<65, 0>>, <<0, 0>>, <<65, 0, 0>>,
                 <<65, 66, 0, 67, 0, 0>>}

FirstStructures ==
    {Structure(type, hlen, fill, strings) :
        type \in {0, 17}, hlen \in {4, 6}, fill \in {0, 2},
        strings \in StringTables}
    \cup {Structure(19, 15, 0, strings) : strings \in StringTables}
    \cup {Structure(17, 27, 1, strings) : strings \in StringTables}

SecondStructures ==
    {<<>>} \cup {Structure(0, 4, 1, <<0, 0>>), Structure(1, 9, 2, <<65, 0>>),
     Structure(17, 5, 1, <<65, 0, 0>>), Structure(19, 15, 3, <<0, 0>>),
     Structure(127, 4, 0, <<0, 0>>), Structure(0, 3, 0, <<0, 0>>),
     Structure(3, 8, 1, <<65, 66, 67, 0, 0>>)}

Tails == {<<>>, <<19, 200, 0, 0>>, Structure(17, 4, 1, <<0, 0>>)}

MCTables ==
    {[bytes |-> first \o second \o tail,
      length |-> Len(first \o second \o tail) + delta] :
        first \in FirstStructures, second \in SecondStructures,
        tail \in Tails, delta \in {-1, 0, 5}}
=============================================================================
