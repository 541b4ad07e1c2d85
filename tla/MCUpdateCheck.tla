--------------------------- MODULE MCUpdateCheck ---------------------------
(* Three versions, descriptions of either string that fail at most one of  *)
(* the guards, and three local files: two have the same string, one has no *)
(* URL.                                                                    *)
EXTENDS UpdateCheck, FiniteSets

CONSTANTS a, b  \* the software version strings

MCDescriptions ==
  {d \in [name : {a, b}, valid : BOOLEAN, url : BOOLEAN, min : {0, 2}, max : {1, 3}] :
     Cardinality({<<"valid", d.valid>>, <<"url", d.url>>, <<"min", d.min = 0>>,
                  <<"max", d.max = 3>>} \cap ({"valid", "url", "min", "max"} \X {FALSE})) <= 1}
MCFiles ==
  {f \in [version : 1..3, desc : MCDescriptions] :
     /\ f.desc.valid /\ f.desc.min = 0 /\ f.desc.max = 3
     /\ f.desc.name = (IF f.version = 2 THEN b ELSE a)
     /\ f.desc.url <=> f.version # 2}
=============================================================================
