--------------------------- MODULE CommandService ---------------------------
(* What Device::sendCommand and Device::shutDown promise their callers, with  *)
(* no mutex, no event and no byte in sight: callers queue up, at most one is  *)
(* served at a time, and a served caller is answered before it returns.  A    *)
(* caller whose command could not be sent is lost: it never returns.          *)
CONSTANT Clients
VARIABLE phase

Phases == {"out", "waiting", "served", "answered", "lost"}

Init == phase = [c \in Clients |-> "out"]

Become(c, from, to) == phase[c] = from /\ phase' = [phase EXCEPT ![c] = to]

Request(c) == Become(c, "out", "waiting")

\* One caller at a time.
Serve(c) ==
    /\ \A d \in Clients : phase[d] # "served"
    /\ Become(c, "waiting", "served")

Lose(c) ==
    /\ \A d \in Clients : phase[d] # "served"
    /\ Become(c, "waiting", "lost")

Reply(c) == Become(c, "served", "answered")

Return(c) == Become(c, "answered", "out")

Next ==
    \E c \in Clients :
        Request(c) \/ Serve(c) \/ Lose(c) \/ Reply(c) \/ Return(c)

Spec == Init /\ [][Next]_phase
=============================================================================
