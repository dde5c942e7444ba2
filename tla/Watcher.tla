------------------------------- MODULE Watcher -------------------------------
(***************************************************************************)
(* The change watcher: crates/hatp-engine/src/watch.rs.                    *)
(*                                                                         *)
(* A commit is published by the thread that made it, in the steps of       *)
(* publish: advance the resolved timestamp, send the event, notify.  Tasks *)
(* in wait_for_resolved are waiters.  The event channel is the broadcast   *)
(* channel of tokio (external): it keeps the last EventMax events, and a   *)
(* receiver that missed some is told so before it gets the next.           *)
(***************************************************************************)
EXTENDS Integers, Sequences

CONSTANTS Waiter,    \* tasks that call wait_for_resolved
          EventMax   \* capacity of the event channel

ASSUME EventAssumption == EventMax \in Nat \ {0}

VARIABLES
  resolved,   \* the resolved watermark
  waiter,     \* waiter -> where it is and the timestamp it waits for
  sub         \* the subscriber: attached, events in the channel, lag flag,
              \* what it has received (Lagged for a gap), first commit it is due

watchvars == <<resolved, waiter, sub>>

Lagged == 0

-----------------------------------------------------------------------------

WInit(start) ==
  /\ resolved = start
  /\ waiter = [w \in Waiter |-> [pc |-> "idle", ts |-> 0]]
  /\ sub = [on |-> FALSE, queue |-> << >>, lagged |-> FALSE, got |-> << >>,
            since |-> 0]

\* wait_for_resolved is called.
CallWait(w, ts) ==
  /\ waiter[w].pc = "idle"
  /\ waiter' = [waiter EXCEPT ![w] = [pc |-> "check", ts |-> ts]]
  /\ UNCHANGED <<resolved, sub>>

\* One turn of the loop: read the watermark, return or go on to wait.
CheckResolved(w) ==
  /\ waiter[w].pc = "check"
  /\ waiter' = [waiter EXCEPT ![w].pc =
                  IF resolved >= waiter[w].ts THEN "done" ELSE "checked"]
  /\ UNCHANGED <<resolved, sub>>

\* notified(): from here on a notification reaches the waiter.
Park(w) ==
  /\ waiter[w].pc = "checked"
  /\ waiter' = [waiter EXCEPT ![w].pc = "parked"]
  /\ UNCHANGED <<resolved, sub>>

\* subscribe_with_errors: the stream starts at the next event sent.
\* `next` is the commit timestamp that will be handed out next.
Subscribe(next) ==
  /\ ~sub.on
  /\ sub' = [sub EXCEPT !.on = TRUE, !.since = next]
  /\ UNCHANGED <<resolved, waiter>>

\* The subscriber takes an event, or learns that some were overwritten.
Receive ==
  /\ sub.on /\ (sub.lagged \/ sub.queue # << >>)
  /\ sub' = IF sub.lagged
            THEN [sub EXCEPT !.lagged = FALSE, !.got = Append(@, Lagged)]
            ELSE [sub EXCEPT !.queue = Tail(@),
                             !.got = Append(@, Head(sub.queue))]
  /\ UNCHANGED <<resolved, waiter>>

\* The fetch_max of publish and publish_empty.
AdvanceResolved(ts) ==
  /\ resolved' = IF ts > resolved THEN ts ELSE resolved
  /\ UNCHANGED <<waiter, sub>>

\* Fault: the newest event is the one that does not fit.
SendEvent_DropNewest(ts) ==
  /\ sub' = IF Len(sub.queue) = EventMax THEN sub
            ELSE [sub EXCEPT !.queue = Append(@, ts)]
  /\ UNCHANGED <<resolved, waiter>>

\* The send of publish: the oldest event makes room, and the receiver lags.
SendEvent(ts) ==
  /\ sub' = IF Len(sub.queue) < EventMax
            THEN [sub EXCEPT !.queue = Append(@, ts)]
            ELSE [sub EXCEPT !.queue = Append(Tail(@), ts), !.lagged = TRUE]
  /\ UNCHANGED <<resolved, waiter>>

\* Fault: notify_one instead of notify_waiters.
NotifyWaiters_One ==
  /\ LET parked == {w \in Waiter : waiter[w].pc = "parked"}
     IN  IF parked = {} THEN UNCHANGED waiter
         ELSE \E w \in parked : waiter' = [waiter EXCEPT ![w].pc = "check"]
  /\ UNCHANGED <<resolved, sub>>

\* notify_waiters: every parked waiter goes round its loop again.
NotifyWaiters ==
  /\ waiter' = [w \in Waiter |->
                  IF waiter[w].pc = "parked"
                  THEN [waiter[w] EXCEPT !.pc = "check"] ELSE waiter[w]]
  /\ UNCHANGED <<resolved, sub>>
=============================================================================
