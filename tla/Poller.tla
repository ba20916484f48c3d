------------------------------- MODULE Poller -------------------------------
(***************************************************************************)
(* The loop of an I/O thread, in the five forms a build chooses from       *)
(* (epoll_t, kqueue_t, poll_t, select_t and devpoll_t), and the timers of  *)
(* poller_base_t.  A handler that is called may register, change and       *)
(* remove any file descriptor, and a descriptor that was removed is closed *)
(* and may be given to the next sink at once.                              *)
(***************************************************************************)
EXTENDS Integers, Sequences, SequencesExt, FiniteSets

CONSTANTS
  Kinds,       \* the forms to choose from
  Sinks,       \* objects with handlers
  Timed,       \* bound: by kind, those that use a timer
  MaxFd,       \* descriptors are 0 .. MaxFd
  MaxEntries,  \* memory for entries of epoll_t and kqueue_t
  MaxCalls,    \* calls of the handlers in one turn of the loop
  max_io_events,   \* the size of the buffer of a wait
  Races        \* {"table grows", "own timer"}: see add_fd and cancel_timer

VARIABLES
  kind, p,
  pc,      \* where the loop is: at, item i, stage, calls made in this turn
  reg,     \* the descriptor each sink has, or retired_fd
  fresh,   \* the sinks that were registered since the last wait
  timers   \* sinks with a timer

vars == <<kind, p, pc, reg, fresh, timers>>

retired_fd == -1
Fds == 0 .. MaxFd
Stages == <<"err", "out", "in">>
NoEntry == [fd |-> retired_fd, sink |-> retired_fd, in |-> FALSE, out |-> FALSE, state |-> "free"]
Nothing == [index |-> retired_fd, sink |-> retired_fd, in |-> FALSE, out |-> FALSE,
            valid |-> FALSE, accepted |-> FALSE]

Init ==
  /\ kind \in Kinds
  /\ p = [pe |-> [h \in 1 .. MaxEntries |-> NoEntry], pollset |-> <<>>, fds |-> <<>>,
          fd_table |-> [fd \in Fds |-> Nothing], size |-> 0, moved |-> FALSE,
          source |-> [s \in {"err", "out", "in"} |-> {}], set |-> [s \in {"err", "out", "in"} |-> {}],
          pending_list |-> {}, retired |-> FALSE, ev |-> <<>>, load |-> 0, ok |-> TRUE]
  /\ pc = [at |-> "start", i |-> 0, stage |-> 1, calls |-> 0]
  /\ reg = [s \in Sinks |-> retired_fd] /\ fresh = {} /\ timers = {}

zmq_assert(x, holds) == [x EXCEPT !.ok = @ /\ holds]
adjust_load(x, amount) == [x EXCEPT !.load = @ + amount]
Registered == {s \in Sinks : reg[s] # retired_fd}

-----------------------------------------------------------------------------
(* epoll_t and kqueue_t: an entry is allocated, and freed at the end of    *)
(* the turn in which it was removed.                                       *)

Entry(x, fd) == CHOOSE h \in DOMAIN x.pe : x.pe[h].fd = fd

epoll_add_fd(x, fd, s) ==
  LET h == CHOOSE g \in DOMAIN x.pe : x.pe[g].state = "free"
  IN adjust_load([x EXCEPT !.pe[h] = [NoEntry EXCEPT !.fd = fd, !.sink = s, !.state = "used"]], 1)

kqueue_add_fd(x, fd, s) == epoll_add_fd(x, fd, s)

epoll_rm_fd(x, fd) ==
  adjust_load([x EXCEPT !.pe[Entry(x, fd)].fd = retired_fd], -1)

\* The filters that are set are deleted, with what they have to report.
kqueue_rm_fd(x, fd) ==
  adjust_load([x EXCEPT !.pe[Entry(x, fd)] = [@ EXCEPT !.fd = retired_fd, !.in = FALSE, !.out = FALSE]], -1)

epoll_arm(x, fd, bits) ==
  [x EXCEPT !.pe[Entry(x, fd)] = [@ EXCEPT !.in = "in" \in bits, !.out = "out" \in bits]]

\* What the wait returns of what is ready: errors are always reported.
epoll_wait(x, ready) ==
  {[h |-> h, events |-> {b \in ready[x.pe[h].fd] : b = "err" \/ x.pe[h][b]}] :
     h \in {g \in DOMAIN x.pe : x.pe[g].fd # retired_fd}}

\* One event for each filter; the end of the file is reported with it.
kqueue_wait(x, ready) ==
  {[h |-> h, events |-> {b} \cup (ready[x.pe[h].fd] \cap {"err"})] :
     <<h, b>> \in {<<g, c>> \in (DOMAIN x.pe) \X {"in", "out"} :
                     x.pe[g].fd # retired_fd /\ x.pe[g][c] /\ c \in ready[x.pe[g].fd]}}

\* What the loop looks at: is it to be skipped, whom to call, and for what.
epoll_item(x, i) ==
  LET e == x.pe[x.ev[i].h]
  IN [there |-> e.state # "free", live |-> e.fd # retired_fd, sink |-> e.sink, events |-> x.ev[i].events]

\* "Destroy retired event sources."
epoll_clean(x) ==
  [x EXCEPT !.ev = <<>>,
            !.pe = [h \in DOMAIN x.pe |-> IF x.pe[h].fd = retired_fd THEN NoEntry ELSE x.pe[h]]]

-----------------------------------------------------------------------------
(* poll_t: the handle is the descriptor; what poll() returns is next to    *)
(* what it was asked.                                                      *)

poll_add_fd(x, fd, s) ==
  LET y == zmq_assert(x, x.fd_table[fd].index = retired_fd)
  IN adjust_load([y EXCEPT
       !.pollset = Append(@, [fd |-> fd, in |-> FALSE, out |-> FALSE, revents |-> {}]),
       !.fd_table[fd] = [@ EXCEPT !.index = Len(x.pollset) + 1, !.sink = s]], 1)

poll_rm_fd(x, fd) ==
  LET index == x.fd_table[fd].index
      y == zmq_assert(x, index # retired_fd)
  IN adjust_load([y EXCEPT !.pollset[index].fd = retired_fd, !.fd_table[fd].index = retired_fd,
                           !.retired = TRUE], -1)

poll_arm(x, fd, bits) ==
  [x EXCEPT !.pollset[x.fd_table[fd].index] =
     [@ EXCEPT !.in = "in" \in bits, !.out = "out" \in bits]]

poll_wait(x, ready) ==
  [x EXCEPT !.pollset = [j \in DOMAIN @ |->
     [@[j] EXCEPT !.revents = IF x.pollset[j].fd = retired_fd THEN {}
                              ELSE {b \in ready[x.pollset[j].fd] : b = "err" \/ x.pollset[j][b]}]]]

poll_item(x, i) ==
  LET e == x.pollset[i]
  IN [there |-> TRUE, live |-> e.fd # retired_fd, events |-> e.revents,
      sink |-> IF e.fd = retired_fd THEN retired_fd ELSE x.fd_table[e.fd].sink]

\* "Clean up the pollset and update the fd_table accordingly."  The next
\* poll() overwrites revents, which are dropped here.
poll_clean(x) ==
  LET old == [j \in DOMAIN x.pollset |-> [x.pollset[j] EXCEPT !.revents = {}]]
      kept == SelectSeq(old, LAMBDA e : e.fd # retired_fd)
  IN IF ~ x.retired THEN [x EXCEPT !.pollset = old]
     ELSE [x EXCEPT !.pollset = kept, !.retired = FALSE,
                    !.fd_table = [fd \in Fds |->
                       LET at == {j \in DOMAIN kept : kept[j].fd = fd}
                       IN IF at = {} THEN x.fd_table[fd]
                          ELSE [x.fd_table[fd] EXCEPT !.index = CHOOSE j \in at : TRUE]]]

-----------------------------------------------------------------------------
(* select_t: sets of descriptors, from which a removed one is taken at     *)
(* once.                                                                   *)

select_add_fd(x, fd, s) ==
  adjust_load([x EXCEPT !.fds = Append(@, [fd |-> fd, sink |-> s]), !.source["err"] = @ \cup {fd}], 1)

select_rm_fd(x, fd) ==
  LET at == {j \in DOMAIN x.fds : x.fds[j].fd = fd}
      y == zmq_assert(x, at # {})
  IN adjust_load([y EXCEPT !.fds[CHOOSE j \in at : \A k \in at : j <= k].fd = retired_fd,
                           !.retired = TRUE,
                           !.source = [b \in DOMAIN @ |-> @[b] \ {fd}],
                           !.set = [b \in DOMAIN @ |-> @[b] \ {fd}]], -1)

select_arm(x, fd, bits) ==
  [x EXCEPT !.source = [b \in DOMAIN @ |-> IF b \in bits \cup {"err"} THEN @[b] \cup {fd} ELSE @[b] \ {fd}]]

select_wait(x, ready) ==
  [x EXCEPT !.set = [b \in DOMAIN @ |-> {fd \in x.source[b] : b \in ready[fd]}]]

select_item(x, i) ==
  [there |-> TRUE, live |-> x.fds[i].fd # retired_fd, sink |-> x.fds[i].sink,
   events |-> {b \in DOMAIN x.set : x.fds[i].fd \in x.set[b]}]

\* The next turn initialises the sets, which are emptied here.
select_clean(x) ==
  [x EXCEPT !.fds = IF x.retired THEN SelectSeq(@, LAMBDA e : e.fd # retired_fd) ELSE @,
            !.retired = FALSE, !.set = [b \in DOMAIN @ |-> {}]]

-----------------------------------------------------------------------------
(* devpoll_t: a descriptor that is registered counts from the next turn on.*)

devpoll_add_fd(x, fd, s) ==
  LET y == zmq_assert(x, ~ x.fd_table[fd].valid)
  IN adjust_load([y EXCEPT !.fd_table[fd] = [Nothing EXCEPT !.sink = s, !.valid = TRUE],
                           !.pending_list = @ \cup {fd},
                           !.size = IF fd + 1 > @ THEN fd + 1 ELSE @,
                           !.moved = @ \/ fd + 1 > x.size], 1)

devpoll_rm_fd(x, fd) ==
  LET y == zmq_assert(x, x.fd_table[fd].valid)
  IN adjust_load([y EXCEPT !.fd_table[fd].valid = FALSE], -1)

devpoll_arm(x, fd, bits) ==
  [x EXCEPT !.fd_table[fd] = [@ EXCEPT !.in = "in" \in bits, !.out = "out" \in bits]]

devpoll_accept(x) ==
  [x EXCEPT !.pending_list = {},
            !.fd_table = [fd \in Fds |-> IF fd \in x.pending_list
                                         THEN [@[fd] EXCEPT !.accepted = TRUE] ELSE @[fd]]]

devpoll_wait(x, ready) ==
  {[h |-> fd, events |-> {b \in ready[fd] : b = "err" \/ x.fd_table[fd][b]}] :
     fd \in {f \in Fds : x.fd_table[f].valid}}

\* Plausible bug: a descriptor that was given away in this turn is not told
\* from the one that had the event.
devpoll_item_valid(x, i) ==
  LET e == x.fd_table[x.ev[i].h]
  IN [there |-> ~ x.moved, live |-> e.valid, sink |-> e.sink, events |-> x.ev[i].events]

\* fd_ptr points into the table for as long as an item is handled.
devpoll_item(x, i) ==
  LET e == x.fd_table[x.ev[i].h]
  IN [there |-> ~ x.moved, live |-> e.valid /\ e.accepted, sink |-> e.sink, events |-> x.ev[i].events]

-----------------------------------------------------------------------------
(* What the handlers may call, and the owner before it starts the loop.    *)

Calling == pc.at \in {"start", "handler", "timer"} /\ pc.calls < MaxCalls
Called == pc' = [pc EXCEPT !.calls = @ + 1]

\* A larger descriptor than any before makes the table of devpoll_t move,
\* which the loop does not expect of a handler it has called.
add_fd(s, fd) ==
  /\ Calling /\ reg[s] = retired_fd /\ \A t \in Sinks : reg[t] # fd
  /\ kind \in {"epoll", "kqueue"} => \E h \in DOMAIN p.pe : p.pe[h].state = "free"
  /\ kind = "devpoll" /\ pc.at = "handler" /\ fd >= p.size => "table grows" \in Races
  /\ p' = CASE kind = "epoll" -> epoll_add_fd(p, fd, s)
            [] kind = "kqueue" -> kqueue_add_fd(p, fd, s)
            [] kind = "poll" -> poll_add_fd(p, fd, s)
            [] kind = "select" -> select_add_fd(p, fd, s)
            [] kind = "devpoll" -> devpoll_add_fd(p, fd, s)
  /\ reg' = [reg EXCEPT ![s] = fd] /\ fresh' = fresh \cup {s}
  /\ Called /\ UNCHANGED <<kind, timers>>

rm_fd(s) ==
  /\ Calling /\ s \in Registered
  /\ p' = CASE kind = "epoll" -> epoll_rm_fd(p, reg[s])
            [] kind = "kqueue" -> kqueue_rm_fd(p, reg[s])
            [] kind = "poll" -> poll_rm_fd(p, reg[s])
            [] kind = "select" -> select_rm_fd(p, reg[s])
            [] kind = "devpoll" -> devpoll_rm_fd(p, reg[s])
  /\ reg' = [reg EXCEPT ![s] = retired_fd] /\ fresh' = fresh \ {s}
  /\ Called /\ UNCHANGED <<kind, timers>>

\* set_pollin, set_pollout, reset_pollin and reset_pollout.
arm(s, bits) ==
  /\ Calling /\ s \in Registered
  /\ p' = CASE kind \in {"epoll", "kqueue"} -> epoll_arm(p, reg[s], bits)
            [] kind = "poll" -> poll_arm(p, reg[s], bits)
            [] kind = "select" -> select_arm(p, reg[s], bits)
            [] kind = "devpoll" -> devpoll_arm(p, reg[s], bits)
  /\ p' # p
  /\ Called /\ UNCHANGED <<kind, reg, fresh, timers>>

add_timer(s) ==
  /\ Calling /\ s \in Timed[kind] \ timers
  /\ timers' = timers \cup {s}
  /\ Called /\ UNCHANGED <<kind, p, reg, fresh>>

\* A timer is erased after its handler: to cancel it there would erase it
\* under the loop's feet.
cancel_timer(s) ==
  /\ Calling /\ s \in timers
  /\ LET own == pc.at = "timer" /\ pc.i = s
     IN /\ own => "own timer" \in Races
        /\ p' = zmq_assert(p, ~ own)
  /\ timers' = timers \ {s}
  /\ Called /\ UNCHANGED <<kind, reg, fresh>>

-----------------------------------------------------------------------------
(* The loop.                                                               *)

start ==
  /\ pc.at = "start" /\ pc' = [pc EXCEPT !.at = "top", !.calls = 0]
  /\ UNCHANGED <<kind, p, reg, fresh, timers>>

\* execute_timers calls the handlers of the timers that are due, any of them.
execute_timers ==
  /\ pc.at = "top"
  /\ \E s \in timers : pc' = [pc EXCEPT !.at = "timer", !.i = s]
  /\ UNCHANGED <<kind, p, reg, fresh, timers>>

timer_event_returns ==
  /\ pc.at = "timer"
  /\ timers' = timers \ {pc.i} /\ pc' = [pc EXCEPT !.at = "top", !.i = 0]
  /\ UNCHANGED <<kind, p, reg, fresh>>

\* The wait returns, with what is ready, in any order.
wait ==
  /\ pc.at = "top"
  /\ \E some \in [Registered -> SUBSET {"err", "out", "in"}] :
       LET x == IF kind = "devpoll" THEN devpoll_accept(p) ELSE p
           ready == [fd \in Fds |-> UNION {some[s] : s \in {t \in Registered : reg[t] = fd}}]
           listed == CASE kind = "epoll" -> epoll_wait(x, ready)
                       [] kind = "kqueue" -> kqueue_wait(x, ready)
                       [] kind = "devpoll" -> devpoll_wait(x, ready)
                       [] OTHER -> {}
       IN IF kind = "poll" THEN p' = poll_wait(x, ready)
          ELSE IF kind = "select" THEN p' = select_wait(x, ready)
          ELSE \E ev \in SetToSeqs({e \in listed : e.events # {}}) :
                 /\ Len(ev) <= max_io_events
                 /\ p' = [x EXCEPT !.ev = ev, !.moved = FALSE]
  /\ pc' = [pc EXCEPT !.at = "loop", !.i = 1, !.stage = 1]
  /\ fresh' = {} /\ UNCHANGED <<kind, reg, timers>>

item(x, i) ==
  CASE kind \in {"epoll", "kqueue"} -> epoll_item(x, i)
    [] kind = "poll" -> poll_item(x, i)
    [] kind = "select" -> select_item(x, i)
    [] kind = "devpoll" -> devpoll_item(x, i)

Items == CASE kind = "poll" -> Len(p.pollset) [] kind = "select" -> Len(p.fds) [] OTHER -> Len(p.ev)

NextItem == [pc EXCEPT !.i = @ + 1, !.stage = 1]
NextStage == IF pc.stage = 3 THEN NextItem ELSE [pc EXCEPT !.stage = @ + 1]

\* For each item: an error is an in_event, then the out_event and the
\* in_event, as long as the item is not retired.
dispatch ==
  /\ pc.at = "loop" /\ pc.i <= Items
  /\ LET x == IF pc.stage = 1 THEN [p EXCEPT !.moved = FALSE] ELSE p
         it == item(x, pc.i)
         due == {s \in pc.stage .. 3 : it.live /\ Stages[s] \in it.events}
     IN /\ p' = zmq_assert(x, it.there /\ (due # {} => it.sink \in Registered \ fresh))
        /\ pc' = IF due = {} THEN NextItem
                 ELSE [pc EXCEPT !.at = "handler", !.stage = Min(due)]
  /\ UNCHANGED <<kind, reg, fresh, timers>>

event_returns ==
  /\ pc.at = "handler" /\ pc' = [NextStage EXCEPT !.at = "loop"]
  /\ UNCHANGED <<kind, p, reg, fresh, timers>>

end_of_turn ==
  /\ pc.at = "loop" /\ pc.i > Items
  /\ p' = CASE kind \in {"epoll", "kqueue"} -> epoll_clean(p)
            [] kind = "poll" -> poll_clean(p)
            [] kind = "select" -> select_clean(p)
            [] kind = "devpoll" -> [p EXCEPT !.ev = <<>>]
  /\ pc' = [at |-> "top", i |-> 0, stage |-> 1, calls |-> 0]
  /\ fresh' = {} /\ UNCHANGED <<kind, reg, timers>>

Next ==
  \/ \E s \in Sinks : \/ \E fd \in Fds : add_fd(s, fd)
                      \/ rm_fd(s) \/ add_timer(s) \/ cancel_timer(s)
                      \/ \E bits \in SUBSET {"in", "out"} : arm(s, bits)
  \/ start \/ execute_timers \/ timer_event_returns
  \/ wait \/ dispatch \/ event_returns \/ end_of_turn

Spec == Init /\ [][Next]_vars

-----------------------------------------------------------------------------
(* Properties.                                                             *)

\* A handler is called for a sink that is registered, and was when the wait
\* returned: never for one that another handler removed in this turn, nor for
\* the next owner of its descriptor.  No entry is used after it was freed, a
\* handle leads to the entry of its descriptor, and the load that places new
\* connections is the number of descriptors.
RightHandler ==
  /\ p.ok /\ p.load = Cardinality(Registered)
  /\ \A s \in Registered :
       CASE kind = "poll" -> /\ p.pollset[p.fd_table[reg[s]].index].fd = reg[s]
                             /\ p.fd_table[reg[s]].sink = s
         [] kind = "select" -> \E j \in DOMAIN p.fds : p.fds[j] = [fd |-> reg[s], sink |-> s]
         [] kind = "devpoll" -> p.fd_table[reg[s]].valid /\ p.fd_table[reg[s]].sink = s
         [] OTHER -> \E h \in DOMAIN p.pe : p.pe[h].fd = reg[s] /\ p.pe[h].sink = s
=============================================================================
