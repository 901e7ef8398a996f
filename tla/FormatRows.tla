------------------------------ MODULE FormatRows ------------------------------
(* What the readers of $$formats rely on, whatever writes it. *)

VARIABLES formats,      \* $$formats
          formatByCode  \* $$format-by-code

(* rama/README.md:208 "code (unique via `$$format-by-code`)": no two formats have *)
(* one code, at any moment, also while formats change codes under way.       *)
FormatCodeUnique == \A f, g \in DOMAIN formats : formats[f].code = formats[g].code => f = g

(* catalog_module.rama: a format's code is claimed in the index before its   *)
(* row is written, and stays the format's own when the row takes another     *)
(* code: a code once given never passes to another format.                   *)
Codes == INSTANCE NameRegistry WITH
  claims <- {[owner |-> formatByCode[k], name |-> k] : k \in DOMAIN formatByCode},
  holds  <- {[owner |-> f, name |-> formats[f].code] : f \in DOMAIN formats}
CodesAreRegistered == Codes!LastingSpec
=============================================================================
