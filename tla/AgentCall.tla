----------------------------- MODULE AgentCall -----------------------------
(***************************************************************************)
(* What an agent of teecd owes the TEE: a call that is asked is carried    *)
(* out exactly once, and it is answered only after it was carried out.     *)
(* AgentChannel implements this with a shared buffer, a wakeup and a magic *)
(* number.                                                                 *)
(***************************************************************************)
EXTENDS Naturals

VARIABLES
  asked,     \* calls the TEE has made
  did,       \* calls the agent has carried out
  answered,  \* calls the TEE has seen the end of
  up         \* FALSE once the agent's thread has ended

callVars == <<asked, did, answered, up>>

Init ==
  /\ asked = 0 /\ did = 0 /\ answered = 0
  /\ up = TRUE

\* The TEE makes one call at a time.
Ask ==
  /\ asked = answered
  /\ asked' = asked + 1
  /\ UNCHANGED <<did, answered, up>>

Do ==
  /\ up
  /\ did < asked
  /\ did' = did + 1
  /\ UNCHANGED <<asked, answered, up>>

Answer ==
  /\ answered < did
  /\ answered' = answered + 1
  /\ UNCHANGED <<asked, did, up>>

Stop ==
  /\ up
  /\ up' = FALSE
  /\ UNCHANGED <<asked, did, answered>>

Next == Ask \/ Do \/ Answer \/ Stop

SafeSpec == Init /\ [][Next]_callVars

\* A call is carried out and answered as long as the agent's thread lives.
Spec == SafeSpec /\ WF_callVars(Do) /\ WF_callVars(up /\ Answer)
=============================================================================
