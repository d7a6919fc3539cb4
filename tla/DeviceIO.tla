------------------------------ MODULE DeviceIO ------------------------------
(* platform/linux/DeviceIO.h: a TTY opened by the constructor, read and        *)
(* written by any thread, and a poller thread that tells the subscriber when   *)
(* there is something to read, until the destructor has stopped and joined it. *)
(* The line, with what has arrived and a modem that may be unplugged, is the   *)
(* environment.                                                                *)
EXTENDS Naturals, Sequences

VARIABLES
    io,          \* constructor and destructor: "opening", "configuring", "up",
                 \* "failed", "stopping", "closed"
    tty,         \* is the descriptor open?
    run,
    subscribed,  \* subscriber is not null
    poller,      \* "none", "test", "poll", "notify", "ended"
    unread,      \* what the line has received and nobody has read
    hungUp       \* the modem is gone

ioVars == <<io, tty, run, subscribed, poller, unread, hungUp>>

\* fd >= 0
Usable == tty /\ io # "configuring"

-----------------------------------------------------------------------------
(* The constructor.                                                           *)

OpenTty ==
    /\ io = "opening"
    /\ \/ io' = "configuring" /\ tty' = TRUE
       \/ io' = "failed" /\ UNCHANGED tty
    /\ UNCHANGED <<run, subscribed, poller, unread, hungUp>>

\* tcgetattr and tcsetattr: each may fail, and the descriptor is closed then.
Abandon_Leaks == io' = "failed" /\ UNCHANGED <<tty, run, poller>>
Abandon == io' = "failed" /\ tty' = FALSE /\ UNCHANGED <<run, poller>>
StartPolling == io' = "up" /\ run' = TRUE /\ poller' = "test"
Configure ==
    /\ io = "configuring"
    /\ \/ Abandon
       \/ StartPolling /\ UNCHANGED tty
    /\ UNCHANGED <<subscribed, unread, hungUp>>

Subscribe ==
    /\ subscribed' = TRUE
    /\ UNCHANGED <<io, tty, run, poller, unread, hungUp>>

-----------------------------------------------------------------------------
(* read and write.                                                            *)

\* What a read into a buffer with room for that many records returns: nothing if
\* the buffer is empty, if there is nothing to read, or on an error.
Readable(room) ==
    IF Usable /\ ~hungUp
    THEN SubSeq(unread, 1, IF Len(unread) <= room THEN Len(unread) ELSE room)
    ELSE << >>
Read(room) ==
    /\ unread' = SubSeq(unread, Len(Readable(room)) + 1, Len(unread))
    /\ UNCHANGED <<io, tty, run, subscribed, poller, hungUp>>

\* Does write return the whole length?
WriteOutcomes == IF Usable /\ ~hungUp THEN BOOLEAN ELSE {FALSE}

-----------------------------------------------------------------------------
(* The poller thread.                                                         *)

\* poll returns at the latest after a tick of 100 ms, or interrupted.
Tick_WhenReady == hungUp \/ unread # << >>
Tick == TRUE

PollTest ==
    /\ poller = "test"
    /\ poller' = IF run THEN "poll" ELSE "ended"
    /\ UNCHANGED <<io, tty, run, subscribed, unread, hungUp>>

PollIdle ==
    /\ poller = "poll" /\ Tick
    /\ poller' = "test"
    /\ UNCHANGED <<io, tty, run, subscribed, unread, hungUp>>

\* A modem that is gone is reported with or without POLLIN.
PollReady ==
    /\ poller = "poll"
    /\ \/ (unread # << >> \/ hungUp) /\ poller' = "notify"
       \/ unread = << >> /\ hungUp /\ poller' = "test"
    /\ UNCHANGED <<io, tty, run, subscribed, unread, hungUp>>

\* notifyRx, without what the subscriber does.
AfterNotify_NoSubscriberNoPoll == IF subscribed THEN "test" ELSE "ended"
AfterNotify == "test"
NotifyRx ==
    /\ poller = "notify"
    /\ poller' = AfterNotify
    /\ UNCHANGED <<io, tty, run, subscribed, unread, hungUp>>

-----------------------------------------------------------------------------
(* The destructor.                                                            *)

StopPolling ==
    /\ io \in {"up", "failed"}
    /\ io' = "stopping"
    /\ run' = FALSE
    /\ UNCHANGED <<tty, subscribed, poller, unread, hungUp>>

JoinPoller == io = "stopping" /\ poller \in {"none", "ended"}

\* The join returns and the descriptor is closed, if there is one.
Close ==
    /\ JoinPoller
    /\ io' = "closed" /\ tty' = FALSE
    /\ UNCHANGED <<run, subscribed, poller, unread, hungUp>>

-----------------------------------------------------------------------------
(* The line.                                                                  *)

Arrive(records) ==
    /\ tty /\ ~hungUp
    /\ unread' = unread \o records
    /\ UNCHANGED <<io, tty, run, subscribed, poller, hungUp>>

HangUp ==
    /\ tty /\ ~hungUp
    /\ hungUp' = TRUE /\ unread' = << >>
    /\ UNCHANGED <<io, tty, run, subscribed, poller>>

IoInit ==
    /\ io = "opening" /\ tty = FALSE /\ run = FALSE /\ subscribed = FALSE
    /\ poller = "none" /\ unread = << >> /\ hungUp = FALSE

-----------------------------------------------------------------------------
(* Properties.                                                              *)

IoTypeOK ==
    /\ io \in {"opening", "configuring", "up", "failed", "stopping", "closed"}
    /\ poller \in {"none", "test", "poll", "notify", "ended"}
    /\ {tty, run, subscribed, hungUp} \subseteq BOOLEAN

\* The poller polls an open descriptor, and none is left open: not by a
\* constructor that gave up, nor by the destructor.
DescriptorOwned ==
    /\ poller \in {"test", "poll", "notify"} => tty
    /\ io \in {"failed", "closed"} => ~tty

\* The destructor returns, whatever the line does.
DestructorReturns == io = "stopping" ~> io = "closed"
=============================================================================
