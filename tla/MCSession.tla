----------------------------- MODULE MCSession -----------------------------
(***************************************************************************)
(* Small instances of Session for TLC.                                     *)
(***************************************************************************)
EXTENDS Session

OneCoreEach == [id \in TaskId |-> [r \in {"cores"} |-> 1]]
TwoCores    == {[r \in {"cores"} |-> 2]}
AnyOutput   == {<<"file">>, <<"missing">>, <<"dir", "file">>}
=============================================================================
