----------------------------- MODULE MCSession -----------------------------
(***************************************************************************)
(* The instance of Session that TLC explores: besides its own export, the  *)
(* application may restore the history of another session, whose reply     *)
(* made the tool call that this session will number 0 again.               *)
(***************************************************************************)
EXTENDS Session

OtherSessions == {<<[role |-> "user", of |-> 0, calls |-> {}],
                    [role |-> "assistant", of |-> 0, calls |-> {0}]>>}
=============================================================================
