--------------------------- MODULE MCObstacleLadder --------------------------
(* ObstacleLadder with a call of each verdict.                               *)
EXTENDS ObstacleLadder

MkCall(t, o, g) == [tool |-> t, op |-> o, signals |-> {}, origin |-> g, amount |-> 0]

MCCalls == {MkCall("browser", "fill", "user"), MkCall("mail", "rmtext", "self"),
            MkCall("mail", "pay", "external")}
=============================================================================
