----------------------------- MODULE MCAlgorithms -----------------------------
(* Algorithms on all arguments of small sets: 8-bit numbers without the     *)
(* least one, formats of up to three pieces for buffers of up to 8 bytes,   *)
(* words with up to two bits set or clear, overlaps in 5 bytes of memory,   *)
(* two pages of tables with two entries each, and up to three PCI devices   *)
(* on two buses, two of them with up to three functions and with gaps.      *)
EXTENDS Algorithms

MCInts == -127 .. 127
MCUnsigneds == 0 .. 255

Piece(spec, arg, text) == [spec |-> spec, arg |-> arg, text |-> text]
MCItems ==
    {Piece(<< >>, "A", <<"A">>), Piece(<<"d">>, -12, <<"-", "1", "2">>),
     Piece(<<"d">>, 0, <<"0">>), Piece(<<"c">>, "z", <<"z">>),
     Piece(<<"s">>, << >>, << >>), Piece(<<"s">>, <<"p", "q">>, <<"p", "q">>),
     Piece(<<"x">>, 171, <<"a", "b">>), Piece(<<"X">>, 10, <<"0", "A">>),
     Piece(<<"l", "u">>, 200, <<"2", "0", "0">>), Piece(<<"l", "d">>, -7, <<"-", "7">>)}

MCWords ==
    {[width |-> w, bits |-> b] :
        w \in {8}, b \in SUBSET (0 .. 7)} \union
    UNION {LET few == {{i, (i + d) % w} : i \in 0 .. w - 1, d \in {0, 1, 7, 8}}
           IN  {[width |-> w, bits |-> b] : b \in few \union {(0 .. w - 1) \ s : s \in few}} :
               w \in {16, 32, 64}}

Kinds == [class : {1}, sub : {6, 8}, multi : BOOLEAN]
OneDevice(slot, others) ==
    {<<>>} \union
    UNION {{[p \in {slot} \union fs |->
                IF p = slot THEN k ELSE [k EXCEPT !.sub = IF p \in nvme THEN 8 ELSE 6]] :
                nvme \in SUBSET fs} :
           k \in Kinds, fs \in SUBSET others}
MCMachines ==           \* devices 0:0, 0:1 and 1:0
    {a @@ b @@ c : a \in OneDevice(0, {1, 2}), c \in OneDevice(256, {258}),
                   b \in {<<>>, [p \in {8} |-> [class |-> 1, sub |-> 8, multi |-> FALSE]]}}

MCBars == {[value |-> v * s, size |-> s] : v \in 0 .. 1, s \in {16, 32, 128}}
=============================================================================
