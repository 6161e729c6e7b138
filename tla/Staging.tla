------------------------------ MODULE Staging -------------------------------
(***************************************************************************)
(* What the system promises to whoever asks for staging, with nothing of   *)
(* how: a request is queued, run at most once, finished with one verdict,  *)
(* answered with that verdict, and closed only after it was answered       *)
(* (runtime-schema/models/run_once.go: the states; stager/handler.go:      *)
(* resolveTask: the answer).                                               *)
(***************************************************************************)
CONSTANTS Requests, Verdicts, Success, Unclaimed, NoVerdict

VARIABLES
    phase,          \* request -> how far it has come
    verdict,        \* request -> what it finished with
    answered        \* requests that got a reply

stagingVars == <<phase, verdict, answered>>

Init ==
    /\ phase = [d \in Requests |-> "asked"]
    /\ verdict = [d \in Requests |-> NoVerdict]
    /\ answered = {}

Move(d, from, to) ==
    /\ phase[d] = from
    /\ phase' = [phase EXCEPT ![d] = to]

Queue(d) == Move(d, "asked", "queued") /\ UNCHANGED <<verdict, answered>>

Run(d) == Move(d, "queued", "running") /\ UNCHANGED <<verdict, answered>>

\* A request that was never run cannot succeed, and one that is running is
\* no longer unclaimed.
Finish(d, v) ==
    /\ \/ Move(d, "queued", "finished") /\ v # Success
       \/ Move(d, "running", "finished") /\ v # Unclaimed
    /\ verdict' = [verdict EXCEPT ![d] = v]
    /\ UNCHANGED answered

Answer(d) ==
    /\ phase[d] = "finished"
    /\ answered' = answered \cup {d}
    /\ UNCHANGED <<phase, verdict>>

Close(d) ==
    /\ d \in answered
    /\ Move(d, "finished", "closed")
    /\ UNCHANGED <<verdict, answered>>

Next ==
    \E d \in Requests :
        \/ Queue(d) \/ Run(d) \/ Answer(d) \/ Close(d)
        \/ \E v \in Verdicts : Finish(d, v)

Spec == Init /\ [][Next]_stagingVars
=============================================================================
