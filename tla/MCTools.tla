------------------------------ MODULE MCTools ------------------------------
(* One watched file, learned too.  f is declared wrongly, g rightly; the     *)
(* runtime may answer f with nil.                                             *)
EXTENDS RamaCheck, TLC

MCPaths == <<"a">>
MCCalls == {<<"f", "L">>, <<"g", "L">>}
MCReturns == <<"f", "L">> :> {"Vector", "nil"} @@ <<"g", "L">> :> {"String"}
Declared == Text(<<Decl("f", "L", "Long"), Decl("g", "L", "Long")>>)
MCSources == {[text |-> Declared, body |-> "relying"], [text |-> Declared, body |-> "broken"]}
=============================================================================
