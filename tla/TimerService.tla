---------------------------- MODULE TimerService ----------------------------
(***************************************************************************)
(* What sort_timer_lst promises to the event loop: a set of timers, each   *)
(* with its expiry, and a tick() that hands over exactly the timers whose  *)
(* expiry has come.  No list, no pointer, no order: TimerList implements   *)
(* this specification, and Reactor uses it in place of the list.           *)
(***************************************************************************)
EXTENDS Naturals

CONSTANTS
  Timer,     \* addresses of util_timer objects
  Time       \* the expiries and clock values considered

VARIABLES
  due,       \* [timers in the list -> their expiry]
  now        \* time(NULL)

Init == due = << >>

Live == DOMAIN due
Expired == {t \in Live : due[t] <= now}

\* add_timer() of a new timer that expires at e
Add(t, e) ==
  /\ t \notin Live
  /\ due' = [u \in Live \cup {t} |-> IF u = t THEN e ELSE due[u]]

\* 'timer->expire = e' and adjust_timer()
Adjust(t, e) ==
  /\ t \in Live
  /\ due' = [due EXCEPT ![t] = e]

\* del_timer()
Del(t) ==
  /\ t \in Live
  /\ due' = [u \in Live \ {t} |-> due[u]]

\* tick(): every expired timer leaves, and no other
Tick == due' = [u \in Live \ Expired |-> due[u]]

Next ==
  \/ /\ \/ \E t \in Timer, e \in Time : Add(t, e) \/ Adjust(t, e)
        \/ \E t \in Timer : Del(t)
        \/ Tick
     /\ UNCHANGED now
  \/ now' \in Time /\ UNCHANGED due

Spec == Init /\ [][Next]_<<due, now>>
=============================================================================
