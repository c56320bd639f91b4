--------------------------- MODULE CommandService ---------------------------
(***************************************************************************)
(* What a device promises the server that commands it: commands are        *)
(* numbered as they are sent, and each is answered at most once, after it  *)
(* was sent, in the order of sending.  Commands may go unanswered.         *)
(***************************************************************************)
EXTENDS Integers, Sequences

VARIABLES
  asked,      \* commands sent so far
  answers     \* the answers: [id, out]

Outcome == {"Ok", "error"}

LastAnswered == IF answers = <<>> THEN 0 ELSE answers[Len(answers)].id

Init == asked = 0 /\ answers = <<>>

Ask == asked' = asked + 1 /\ UNCHANGED answers

Answer ==
  /\ \E id \in (LastAnswered + 1) .. asked, out \in Outcome :
       answers' = Append(answers, [id |-> id, out |-> out])
  /\ UNCHANGED asked

Next == Ask \/ Answer

Spec == Init /\ [][Next]_<<asked, answers>>
=============================================================================
