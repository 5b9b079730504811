----------------------------- MODULE Evaluator -----------------------------
(***************************************************************************)
(* What a game of the desktop is promised by its evaluator: one request at *)
(* a time, which ends with the evaluation of exactly that request or with  *)
(* an error.  Inference implements it with a child process.                *)
(***************************************************************************)
CONSTANTS Requests, NoRequest

VARIABLES
  pending,   \* the request being evaluated
  refused,   \* it was made after the evaluator was closed
  reply,     \* the last outcome: an evaluation of a request, or an error
  shut       \* "open", "closing", "closed"; "gone" with the whole application

contract == <<pending, refused, reply, shut>>

Error         == [kind |-> "error", of |-> NoRequest]
Evaluation(r) == [kind |-> "evaluation", of |-> r]

Init ==
  /\ pending = NoRequest /\ refused = FALSE /\ reply = Error
  /\ shut = "open"

Ask(r) ==
  /\ shut # "gone" /\ pending = NoRequest /\ pending' = r
  /\ refused' = (shut # "open")
  /\ UNCHANGED <<reply, shut>>

Answer ==
  /\ shut # "gone" /\ pending # NoRequest /\ ~refused
  /\ reply' = Evaluation(pending) /\ pending' = NoRequest
  /\ UNCHANGED <<refused, shut>>

Fail ==
  /\ shut # "gone" /\ pending # NoRequest
  /\ reply' = Error /\ pending' = NoRequest
  /\ UNCHANGED <<refused, shut>>

Shut(from, to) == shut = from /\ shut' = to /\ UNCHANGED <<pending, refused, reply>>

Close  == Shut("open", "closing")
Closed == Shut("closing", "closed")
Gone   == \E from \in {"open", "closing", "closed"} : Shut(from, "gone")

Next == (\E r \in Requests : Ask(r)) \/ Answer \/ Fail \/ Close \/ Closed \/ Gone

\* Every request gets its outcome and every close ends, whatever the model does.
Spec ==
  /\ Init /\ [][Next]_contract
  /\ WF_contract(Answer \/ Fail) /\ WF_contract(Closed)
=============================================================================
