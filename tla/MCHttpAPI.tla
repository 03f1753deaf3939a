------------------------------ MODULE MCHttpAPI ------------------------------
(***************************************************************************)
(* Request objects for HttpAPI (a pointer to a struct and one pointer too  *)
(* many), request IDs, and a retry count for one of the contexts.          *)
(***************************************************************************)
EXTENDS HttpAPI

MCObj == {Type(1, "A"), Type(2, "A")}
MCFormID == {<<"r">>}
MCRetryCount == [x \in Ctx |-> IF x = "x1" THEN NotSet ELSE 0]
=============================================================================
