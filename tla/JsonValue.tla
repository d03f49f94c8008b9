-------------------------------- MODULE JsonValue --------------------------------
(***************************************************************************)
(* JSON values as the server writes them and the SDK reads them.  A string *)
(* that is a UUID or an ISO timestamp is told apart from any other, since  *)
(* the SDK converts those; all other texts and numbers are alike.          *)
(***************************************************************************)
EXTENDS Sequences

scalar(kind) == [json |-> kind, in |-> <<>>]

Object(f) == [json |-> "object", in |-> f]

Array(s) == [json |-> "array", in |-> s]

Null == scalar("null")

Text == scalar("string")

(* A value the request schema of the server does not admit (too short, not an
   e-mail address, not one of the literals). *)
OutOfRange == scalar("out_of_range")
=============================================================================
