----------------------------- MODULE ExampleApp -----------------------------
(* The life of the demo program (examples/linux/src/main.cpp): the main       *)
(* thread, the AT thread, the loop thread, the poller thread of DeviceIO, and *)
(* Ctrl-C.  What Orchestrator models step by step is one step here: the loop  *)
(* takes an event, reads what its buffer has room for, and parses what is at  *)
(* the front of it.  Every command is an ATI with a Response, so a call needs *)
(* a response and a final result, and both in the same read.  The program's   *)
(* URC dispatcher returns 0, so a URC that was read stays at the front.       *)
EXTENDS DeviceIO

CONSTANTS
    RxCapacity,  \* records that fit into rxbuf
    MaxUrcs,     \* bound: URCs of the modem
    MaxEvents    \* bound: events queued when more of the poller's are dropped

ASSUME AppAssumption ==
    RxCapacity \in Nat /\ MaxUrcs \in Nat /\ MaxEvents \in Nat \ {0}

VARIABLES
    gStop,   \* g_stop
    main,    \* main thread: "construct", "wait", "join", "detach", "return",
             \* "destroyed", "exited"
    at,      \* AT thread: "none", "test", "call", "nap", "stop", "ended"
    dev,     \* loop thread: "none", "get", "handle", "ended"
    events,  \* Orchestrator::events
    answer,  \* of the call: "none"; "lost": the command was not written;
             \* "silent", "pending": the modem will not, or will, answer it;
             \* "halved", "parsed": part of the answer was parsed, or all
    reply,   \* what of the answer is still to arrive
    rxbuf,   \* records read and not parsed
    urcs     \* URCs so far

modemVars == <<reply, urcs>>
vars == <<gStop, main, at, dev, events, answer, rxbuf, modemVars, ioVars>>

\* main's locals device (the Orchestrator) and deviceIO are destroyed in this
\* order when main returns; then the process ends, with whatever still runs.
DeviceAlive == main \notin {"destroyed", "exited"}
Running == main # "exited"

-----------------------------------------------------------------------------
CtrlC_ShutsDown ==
    /\ Running /\ ~gStop
    /\ gStop' = TRUE
    /\ events' = Append(events, "ShutDown")
    /\ UNCHANGED <<main, at, dev, answer, rxbuf, modemVars, ioVars>>

\* The handler of SIGINT sets g_stop and nothing else.
CtrlC ==
    /\ Running /\ ~gStop
    /\ gStop' = TRUE
    /\ UNCHANGED <<main, at, dev, events, answer, rxbuf, modemVars, ioVars>>

\* What the modem makes of an ATI: a response and its final result, a final result
\* alone (ERROR), or nothing.
Replies == {<<"response", "result">>, <<"result">>, << >>}

\* The AT thread.  Its loop tests g_stop before every command.  A command that
\* is not written is lost, and the call waits for an answer all the same.
StopSeen_Never == FALSE
StopSeen == gStop

SendAti ==
    \/ /\ TRUE \in WriteOutcomes
       /\ reply' \in Replies
       /\ answer' = IF reply' = << >> THEN "silent" ELSE "pending"
    \/ /\ FALSE \in WriteOutcomes
       /\ answer' = "lost"
       /\ UNCHANGED reply

AtTest ==
    /\ Running /\ at = "test"
    /\ \/ StopSeen /\ at' = "stop" /\ UNCHANGED <<answer, reply>>
       \/ ~StopSeen /\ at' = "call" /\ SendAti
    /\ UNCHANGED <<gStop, main, dev, events, rxbuf, urcs, ioVars>>

AtReturn ==
    /\ Running /\ at = "call" /\ answer = "parsed"
    /\ at' = "nap"
    /\ answer' = "none"
    /\ UNCHANGED <<gStop, main, dev, events, rxbuf, modemVars, ioVars>>

AtNap ==
    /\ Running /\ at = "nap"
    /\ at' = "test"
    /\ UNCHANGED <<gStop, main, dev, events, answer, rxbuf, modemVars, ioVars>>

AtShutDown ==
    /\ Running /\ at = "stop"
    /\ events' = Append(events, "ShutDown")
    /\ at' = "ended"
    /\ UNCHANGED <<gStop, main, dev, answer, rxbuf, modemVars, ioVars>>

\* The loop thread.
DevGet ==
    /\ Running /\ dev = "get" /\ events # << >>
    /\ dev' = IF Head(events) = "ShutDown" THEN "ended" ELSE "handle"
    /\ events' = Tail(events)
    /\ UNCHANGED <<gStop, main, at, answer, rxbuf, modemVars, ioVars>>

\* The machine waits for an answer; a write that failed has made it idle again.
Waiting == answer \in {"silent", "pending", "halved"}

\* rxbuf.subspan(leftover)
Room == RxCapacity - Len(rxbuf)

\* How many records receive takes from the front: a response and a final result,
\* each at most once, and no URC.
Taken_Never(input) == 0
Taken(input) ==
    LET fits(n) == /\ n <= Len(input) /\ \A i \in 1..n : input[i] # "urc"
                   /\ n = 2 => input[1] # input[2]
    IN CHOOSE n \in 0..2 : fits(n) /\ \A k \in 0..2 : fits(k) => k <= n

\* Whatever state the machine is in, it reads.  The handler of Idle only asks the
\* dispatcher.  receive starts afresh: what it takes of an answer that is not all
\* there is gone with it.
DevHandle ==
    /\ Running /\ dev = "handle"
    /\ LET input == rxbuf \o Readable(Room)
           n == IF Waiting THEN Taken(input) ELSE 0
       IN /\ answer' = CASE n = 0 -> answer [] n = 1 -> "halved" [] n = 2 -> "parsed"
          /\ rxbuf' = SubSeq(input, n + 1, Len(input))
    /\ Read(Room)
    /\ dev' = "get"
    /\ UNCHANGED <<gStop, main, at, events, modemVars>>

\* The poller thread; its subscriber is the Orchestrator.
Notified ==
    IF subscribed /\ Len(events) < MaxEvents THEN Append(events, "RxReady") ELSE events

PollerStep ==
    /\ Running
    /\ \/ (PollTest \/ PollIdle \/ PollReady) /\ UNCHANGED events
       \/ NotifyRx /\ events' = Notified
    /\ UNCHANGED <<gStop, main, at, dev, answer, rxbuf, modemVars>>

\* The modem: an answer, in one piece or in two, or a URC reaches the line, or it
\* is unplugged.
Answer ==
    /\ Running /\ reply # << >>
    /\ \E n \in 1..Len(reply) :
          Arrive(SubSeq(reply, 1, n)) /\ reply' = SubSeq(reply, n + 1, Len(reply))
    /\ UNCHANGED <<gStop, main, at, dev, events, answer, rxbuf, urcs>>

Urc ==
    /\ Running /\ urcs < MaxUrcs /\ Arrive(<<"urc">>)
    /\ urcs' = urcs + 1
    /\ UNCHANGED <<gStop, main, at, dev, events, answer, reply, rxbuf>>

Unplug ==
    /\ Running /\ HangUp
    /\ UNCHANGED <<gStop, main, at, dev, events, answer, rxbuf, modemVars>>

\* The main thread constructs deviceIO and device and starts the threads.
Construct ==
    /\ main = "construct"
    /\ \/ (OpenTty \/ Configure) /\ UNCHANGED <<main, at, dev>>
       \/ /\ io \in {"up", "failed"} /\ Subscribe
          /\ main' = "wait" /\ at' = "test" /\ dev' = "get"
    /\ UNCHANGED <<gStop, events, answer, rxbuf, modemVars>>

\* It waits for Ctrl-C, joins the AT thread, detaches the loop thread, and
\* returns: device is destroyed, then deviceIO, which joins the poller.
Joined_Never == main = "join"
Joined == main = "join" /\ at = "ended"

Leave ==
    /\ main' = CASE main = "wait" /\ gStop -> "join"
                 [] Joined -> "detach"
                 [] main = "detach" -> "return"
                 [] main = "return" -> "destroyed"
                 [] main = "destroyed" /\ io = "closed" -> "exited"
                 [] OTHER -> main
    /\ main' # main
    /\ UNCHANGED <<gStop, at, dev, events, answer, rxbuf, modemVars, ioVars>>

DestroyIo ==
    /\ main = "destroyed" /\ (StopPolling \/ Close)
    /\ UNCHANGED <<gStop, main, at, dev, events, answer, rxbuf, modemVars>>

Exited == main = "exited" /\ UNCHANGED vars

Init ==
    /\ gStop = FALSE /\ main = "construct" /\ at = "none" /\ dev = "none"
    /\ events = << >> /\ answer = "none" /\ reply = << >> /\ rxbuf = << >> /\ urcs = 0
    /\ IoInit

AtStep == AtTest \/ AtReturn \/ AtNap \/ AtShutDown
DevStep == DevGet \/ DevHandle
MainStep == Construct \/ Leave \/ DestroyIo

Next == CtrlC \/ AtStep \/ DevStep \/ PollerStep \/ Answer \/ Urc \/ Unplug \/ MainStep \/ Exited

Spec == Init /\ [][Next]_vars

\* Every thread runs on; signals do not interrupt poll for ever; what a modem that
\* answers has sent arrives.  Whether it answers at all is its own choice.
FairSpec ==
    Spec /\ WF_vars(AtStep) /\ WF_vars(DevStep) /\ WF_vars(MainStep) /\ WF_vars(Answer)
         /\ WF_vars(PollerStep) /\ SF_vars(PollerStep /\ PollReady)

-----------------------------------------------------------------------------
(* Properties.                                                              *)

Records == {"response", "result", "urc"}
TypeOK ==
    /\ gStop \in BOOLEAN /\ urcs \in 0..MaxUrcs
    /\ unread \in Seq(Records) /\ reply \in Replies
    /\ rxbuf \in Seq(Records) /\ Len(rxbuf) <= RxCapacity
    /\ main \in {"construct", "wait", "join", "detach", "return", "destroyed", "exited"}
    /\ at \in {"none", "test", "call", "nap", "stop", "ended"}
    /\ dev \in {"none", "get", "handle", "ended"}
    /\ events \in Seq({"RxReady", "ShutDown"})
    /\ answer \in {"none", "lost", "silent", "pending", "halved", "parsed"}

\* The loop is stopped only when no call can be waiting for it, now or later.
NoCallAfterLoop == dev = "ended" => at = "ended"

\* The AT thread is done with the device before main destroys it.
CallsEndBeforeDestruction == ~DeviceAlive => at = "ended"

\* Nothing will end the call any more: the command was not written, the modem does
\* not answer it, what has been parsed of the answer is forgotten (it was read in
\* two halves, or has no response), a URC that was read stays at the front of the
\* buffer (and fills it in the end), or the modem is gone.
Hopeless == \/ answer \in {"lost", "silent", "halved"}
            \/ rxbuf # << >> /\ Head(rxbuf) = "urc"
            \/ hungUp

\* The AT thread sends on: a call ends, unless it is hopeless.
SendsOn == at = "call" ~> (at # "call" \/ Hopeless)

\* Ctrl-C ends the process (each thread it waits for ends), unless the call that
\* the AT thread is in is hopeless.
CtrlCStops == gStop ~> (main = "exited" \/ Hopeless)

\* DeviceIO.h pollLoop: what has arrived is read, also what came before there was
\* a subscriber to tell, until the modem is gone, the device is shut down, or the
\* receive buffer is full of what the dispatcher leaves in it.
ArrivedIsRead ==
    io = "up" /\ unread # << >> ~>
        unread = << >> \/ io # "up" \/ dev = "ended" \/ Room = 0
=============================================================================
