--------------------------- MODULE InferenceService ---------------------------
(***************************************************************************)
(* What a process of the API gateway promises to its clients and to the      *)
(* health monitor, whatever service it offers: an answer that tells of an     *)
(* inference follows one that was made for this very request, a health check   *)
(* succeeds only between inferences, and a process that ends loses all its      *)
(* open requests and no answer.                                                *)
(***************************************************************************)
EXTENDS Integers

CONSTANT Thread

VARIABLES
    careful,   \* the process looks at the result of its first inference
    state,     \* of each thread: idle, open, infer, health
    made,      \* the results of the inferences made for its request
    answer     \* what it answers in this step

vars == <<careful, state, made, answer>>

Result == {"ok", "fail", "remote"}

\* What may be answered when the inferences of the request had these results.
Allowed(results) ==
    {"error", "raise"}
        \cup (IF "ok" \in results \/ ~careful THEN {"ok"} ELSE {})
        \cup (IF "remote" \in results THEN {"relay", "unsupported"} ELSE {})

Silence == [t \in Thread |-> "none"]
Says(t, a) == [Silence EXCEPT ![t] = a]

Quiet == \A t \in Thread : state[t] # "infer"

Init ==
    /\ careful \in BOOLEAN
    /\ state = [t \in Thread |-> "idle"]
    /\ made = [t \in Thread |-> {}]
    /\ answer = Silence

Refuse(t) ==
    /\ state[t] = "idle"
    /\ answer' = Says(t, "refused")
    /\ UNCHANGED <<careful, state, made>>

Open(t) ==
    /\ state[t] = "idle"
    /\ state' = [state EXCEPT ![t] = "open"]
    /\ answer' = Silence
    /\ UNCHANGED <<careful, made>>

Probe(t) ==
    /\ state[t] = "idle"
    /\ state' = [state EXCEPT ![t] = "health"]
    /\ answer' = Silence
    /\ UNCHANGED <<careful, made>>

Report(t) ==
    /\ state[t] = "health"
    /\ state' = [state EXCEPT ![t] = "idle"]
    /\ \E a \in {"TIMEOUT"} \cup (IF Quiet THEN {"SUCCESS"} ELSE {}) : answer' = Says(t, a)
    /\ UNCHANGED <<careful, made>>

Begin(t) ==
    /\ state[t] = "open"
    /\ state' = [state EXCEPT ![t] = "infer"]
    /\ answer' = Silence
    /\ UNCHANGED <<careful, made>>

\* The request goes on, or is answered, with the results it has.
Proceed(t, results) ==
    \/ /\ state' = [state EXCEPT ![t] = "open"]
       /\ made' = [made EXCEPT ![t] = results]
       /\ answer' = Silence
    \/ /\ state' = [state EXCEPT ![t] = "idle"]
       /\ made' = [made EXCEPT ![t] = {}]
       /\ \E a \in Allowed(results) : answer' = Says(t, a)

End(t) ==
    /\ state[t] = "infer"
    /\ \E res \in Result : Proceed(t, made[t] \cup {res})
    /\ UNCHANGED careful

\* An image that cannot be decoded counts as an inference that has failed, or as none.
Skip(t) ==
    /\ state[t] = "open" /\ made[t] = {}
    /\ \E results \in SUBSET {"fail"} : Proceed(t, results)
    /\ UNCHANGED careful

Lose ==
    /\ state' = [t \in Thread |-> "idle"]
    /\ made' = [t \in Thread |-> {}]
    /\ answer' = [t \in Thread |-> IF state[t] = "idle" THEN "none" ELSE "lost"]
    /\ UNCHANGED careful

\* Whatever else the process does, it says nothing.
Wait == answer' = Silence /\ UNCHANGED <<careful, state, made>>

Next ==
    \/ Lose \/ Wait
    \/ \E t \in Thread : Refuse(t) \/ Open(t) \/ Probe(t) \/ Report(t) \/ Begin(t) \/ End(t) \/ Skip(t)

Spec == Init /\ [][Next]_vars
=============================================================================
