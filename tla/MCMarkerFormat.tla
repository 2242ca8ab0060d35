--------------------------- MODULE MCMarkerFormat ---------------------------
(***************************************************************************)
(* MarkerFormat with blocks of 24 words.  The directory of a PO with one   *)
(* object ends in the PO's first block, which its metadata share; that of  *)
(* a PO with more ends in the second; data cover up to two blocks more.    *)
(* The longest PO and the longest metadata are at their limits.            *)
(***************************************************************************)
EXTENDS MarkerFormat

Obj(m, d) == [meta |-> m, data |-> d]

Po1 == <<Obj(3, 31)>>
Po2 == <<Obj(2, 0), Obj(4, 40)>>
Po3 == <<Obj(1, 5), Obj(1, 1), Obj(7, 3)>>

Ocm1 == <<Po1>>
Ocm2 == <<Po2, Po1>>
Ocm3 == <<Po1, Po3, Po2>>
Pr1  == {<<o>> : o \in {Ocm1, Ocm2, Ocm3}}
Pr2  == {<<Ocm1, Ocm2>>, <<Ocm2, Ocm1>>}

AllShapes ==
  {<< >>, <<<<Ocm3, Ocm1, Ocm2>>>>} \cup {<<p>> : p \in Pr1 \cup Pr2}
    \cup {<<p, q>> : p \in Pr1, q \in Pr1 \cup Pr2} \cup {<<p, p>> : p \in Pr2}
=============================================================================
