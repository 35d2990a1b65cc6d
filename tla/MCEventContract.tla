--------------------------- MODULE MCEventContract ---------------------------
(* A schema with one of every kind of field that event.schema.json has, and  *)
(* the ones that may be added to it.                                         *)
EXTENDS EventContract

Spec1(key, type, optional, props) ==
  [key |-> key, type |-> type, optional |-> optional, props |-> props]

Scalar(key, optional) == Spec1(key, "scalar", optional, <<>>)

MCBaseSchema ==
  << Spec1("actor", "object", FALSE, << Spec1("args", "array", FALSE, <<>>) >>),
     Spec1("target", "object", TRUE, << Scalar("path", TRUE) >>),
     Scalar("confidence", FALSE) >>

MCAdditions ==
  { Scalar("optional", TRUE), Scalar("required", FALSE),
    Spec1("nested", "object", TRUE, << Scalar("inner", TRUE) >>) }
=============================================================================
