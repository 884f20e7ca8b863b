------------------------------ MODULE MCCRDCache ------------------------------
(* CRDCache with one ElastiService that may name either of two services.   *)
EXTENDS CRDCache

CONSTANTS e, s, t
MCObjects == {e}
MCNames == [o \in {e} |-> {s, t}]
=============================================================================
