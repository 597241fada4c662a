---------------------------- MODULE MCOrderIntake ----------------------------
(* Binary fixed-point numbers in words of three bits, one decimal for prices and
   for EMM, none for KAY: "3" times "3" and "1.01" after "3" both leave the word. *)
EXTENDS OrderIntake

MCToken == {"EMM", "KAY"}

MCDecimals == [t \in MCToken |-> IF t = "EMM" THEN 1 ELSE 0]

MCMarket == {<<"EMM", "KAY">>}

MCUnlisted == <<"KAY", "EMM">>

(* "0", "1.01", "3" and "4", which is too large for a word. *)
MCTexts ==
    {[digits |-> TRUE, int |-> 0, frac |-> 0, places |-> 0],
     [digits |-> TRUE, int |-> 1, frac |-> 1, places |-> 2],
     [digits |-> TRUE, int |-> 3, frac |-> 0, places |-> 0],
     [digits |-> TRUE, int |-> 4, frac |-> 0, places |-> 0]}

(* Two others trade "0.1" EMM at "1.0": 0.1 KAY, which is cut to none. *)
MCOtherFills == {[pair |-> <<"EMM", "KAY">>, quantity |-> 1, price |-> 2]}

MCBalances == {[t \in MCToken |-> 2]}
=============================================================================
