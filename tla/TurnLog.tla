------------------------------ MODULE TurnLog ------------------------------
(***************************************************************************)
(* What a chat session promises about its history (flm_session_* in        *)
(* flm_api.h): a request adds its whole turn, its messages and then one    *)
(* reply, in one step and at most once; a request that is over adds        *)
(* nothing; the application drops messages from the end, clears the        *)
(* history, or restores this session's export or another session's into a  *)
(* session without turns.                                                  *)
(***************************************************************************)
EXTENDS Naturals, SequencesExt

CONSTANTS Requests,
          Documents  \* the histories of other sessions

VARIABLES log,     \* the messages, each with the role and the request it belongs to
          status,  \* per request: "open", "kept" or "dropped"
          archive  \* the last export

vars == <<log, status, archive>>

TurnFree(messages) == \A i \in DOMAIN messages : messages[i].role # "user"

Init == /\ TurnFree(log)
        /\ status = [r \in Requests |-> "open"]
        /\ archive = <<>>

\* The messages that log' has after those of log.
Added == SubSeq(log', Len(log) + 1, Len(log'))

Keep(r) ==
  /\ status[r] = "open"
  /\ status' = [status EXCEPT ![r] = "kept"]
  /\ IsStrictPrefix(log, log')
  /\ \A i \in DOMAIN Added : /\ Added[i].of = r
                             /\ Added[i].role = "assistant" <=> i = Len(Added)
  /\ UNCHANGED archive

Drop(r) ==
  /\ status[r] = "open"
  /\ status' = [status EXCEPT ![r] = "dropped"]
  /\ UNCHANGED <<log, archive>>

\* How far is the application's business: any part of the end may go.
Undo == IsPrefix(log', log) /\ UNCHANGED <<status, archive>>

Export == archive' = log /\ UNCHANGED <<log, status>>

Restore == TurnFree(log) /\ log' \in {archive} \cup Documents /\ UNCHANGED <<status, archive>>

Next == (\E r \in Requests : Keep(r) \/ Drop(r)) \/ Undo \/ Export \/ Restore

Spec == Init /\ [][Next]_vars
=============================================================================
