------------------------------- MODULE Poller -------------------------------
(***************************************************************************)
(* A Channel and its registration with an EpollPoller (Channel.h,          *)
(* EpollPoller.cpp), as operators on a record:                             *)
(*   events      events_, what the channel is interested in                *)
(*   index       index_, what the poller believes                          *)
(*   inMap       the channel is in channels_                               *)
(*   registered  the kernel has the channel in its epoll set, with         *)
(*   interest    the events it was told last                               *)
(*   fatal       an epoll_ctl ADD or MOD failed: LOG_FATAL, exit(-1)       *)
(* kReadEvent is EPOLLIN || EPOLLPRI, that is 1, which is EPOLLIN alone.   *)
(***************************************************************************)
EXTENDS Naturals

Events == {"IN", "OUT"}

Channel ==
    [events : SUBSET Events, index : {"kNew", "kAdded", "kDeleted"},
     inMap : BOOLEAN, registered : BOOLEAN, interest : SUBSET Events,
     fatal : BOOLEAN]

NewChannel ==
    [events |-> {}, index |-> "kNew", inMap |-> FALSE, registered |-> FALSE,
     interest |-> {}, fatal |-> FALSE]

(* epoll_ctl() fails when it adds what is there, or changes what is not.   *)
(* EpollPoller::update() exits on a failed ADD or MOD and logs a failed    *)
(* DEL.                                                                    *)
CtlAdd(ch) ==
    IF ch.registered THEN [ch EXCEPT !.fatal = TRUE]
    ELSE [ch EXCEPT !.registered = TRUE, !.interest = ch.events]

CtlMod(ch) ==
    IF ch.registered THEN [ch EXCEPT !.interest = ch.events]
    ELSE [ch EXCEPT !.fatal = TRUE]

CtlDel(ch) == [ch EXCEPT !.registered = FALSE, !.interest = {}]

(* A channel that is kNew or kDeleted is added whatever its events are,    *)
(* even none.                                                              *)
UpdateChannel(ch) ==
    CASE ch.index # "kAdded" -> CtlAdd([ch EXCEPT !.index = "kAdded", !.inMap = TRUE])
      [] ch.index = "kAdded" /\ ch.events = {} -> [CtlDel(ch) EXCEPT !.index = "kDeleted"]
      [] OTHER -> CtlMod(ch)

RemoveChannel(ch) ==
    [(IF ch.index = "kAdded" THEN CtlDel(ch) ELSE ch)
        EXCEPT !.inMap = FALSE, !.index = "kNew"]

EnableReading(ch) == UpdateChannel([ch EXCEPT !.events = @ \cup {"IN"}])
(* Mutant: the poller is not told of the change. *)
EnableWriting_NoUpdate(ch) == [ch EXCEPT !.events = @ \cup {"OUT"}]
EnableWriting(ch) == UpdateChannel([ch EXCEPT !.events = @ \cup {"OUT"}])
DisableWriting(ch) == UpdateChannel([ch EXCEPT !.events = @ \ {"OUT"}])
DisableAll(ch) == UpdateChannel([ch EXCEPT !.events = {}])

IsWriting(ch) == "OUT" \in ch.events

(* What epoll_wait() reports of a socket: what is ready and asked for, and *)
(* EPOLLHUP and EPOLLERR whether asked for or not.                         *)
Reported(ch, ready) ==
    IF ch.registered THEN ready \cap (ch.interest \cup {"HUP", "ERR"}) ELSE {}

(* The poller and the kernel agree about the channel. *)
Agrees(ch) ==
    /\ ~ch.fatal
    /\ ch.registered <=> ch.index = "kAdded"
    /\ ch.registered => ch.interest = ch.events
    /\ ch.inMap <=> ch.index # "kNew"
=============================================================================
