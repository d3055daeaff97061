------------------------------- MODULE Timers --------------------------------
(***************************************************************************)
(* What an EventLoop's timers promise (runAt, runAfter, runEvery and       *)
(* cancel): a timer's callback begins when its time has come by the wall   *)
(* clock and never before, earlier timers first, once, or again every      *)
(* interval.  A timer is known by its sequence number: where it is stored, *)
(* and what was stored there before, does not show.                        *)
(*                                                                         *)
(* A cancel takes effect in the loop's thread.  It is final for a timer    *)
(* that waits; one that has expired together with others still runs that   *)
(* time, if it has not yet, and not again.  It does nothing to a timer     *)
(* that is over, or that another thread has only asked for.                *)
(***************************************************************************)
EXTENDS Naturals

CONSTANTS Seqs, Delays, Intervals

VARIABLES
  wall,      \* the time of day
  now,       \* when the timers that are being run expired, or 0
  timer,     \* by sequence number: what has become of it, its expiration and its interval
  stopped    \* of the timers that are being run: those cancelled since

vars == <<wall, now, timer, stopped>>

Timer(is, due, every) == [is |-> is, due |-> due, every |-> every]
None == Timer("none", 0, 0)
Over == Timer("over", 0, 0)

Init ==
  /\ wall = 1 /\ now = 0
  /\ timer = [s \in Seqs |-> None]
  /\ stopped = {}

\* Time passes, or is set.
SetTime ==
  /\ wall' # wall
  /\ UNCHANGED <<now, timer, stopped>>

\* By the loop's thread, or by another.
Add(s) ==
  /\ \A r \in Seqs : timer[r] = None <=> r >= s
  /\ \E is \in {"waiting", "asked"}, d \in Delays, i \in Intervals :
       timer' = [timer EXCEPT ![s] = Timer(is, wall + d, i)]
  /\ UNCHANGED <<wall, now, stopped>>

\* The loop's thread gets to know of it.
Arrive(s) ==
  /\ timer[s].is = "asked" /\ now = 0
  /\ timer' = [timer EXCEPT ![s].is = "waiting"]
  /\ UNCHANGED <<wall, now, stopped>>

CancelWaiting(s) ==
  /\ timer[s].is = "waiting"
  /\ timer' = [timer EXCEPT ![s] = Over]
  /\ UNCHANGED <<wall, now, stopped>>

CancelExpired(s) ==
  /\ timer[s].is \in {"due", "running"}
  /\ stopped' = stopped \cup {s}
  /\ UNCHANGED <<wall, now, timer>>

\* All whose time has come, and no other.
Expire ==
  /\ now = 0
  /\ now' = wall
  /\ timer' = [s \in Seqs |-> IF timer[s].is = "waiting" /\ timer[s].due <= wall
                              THEN [timer[s] EXCEPT !.is = "due"] ELSE timer[s]]
  /\ UNCHANGED <<wall, stopped>>

Run(s) ==
  /\ timer[s].is = "due"
  /\ \A r \in Seqs : timer[r].is = "due" => timer[s].due <= timer[r].due
  /\ timer' = [timer EXCEPT ![s].is = "running"]
  /\ UNCHANGED <<wall, now, stopped>>

\* When all have run, the repeated ones wait again.
Repeat ==
  /\ now # 0 /\ \A s \in Seqs : timer[s].is # "due"
  /\ timer' = [s \in Seqs |->
       CASE timer[s].is # "running" -> timer[s]
         [] timer[s].is = "running" /\ timer[s].every > 0 /\ s \notin stopped
              -> Timer("waiting", now + timer[s].every, timer[s].every)
         [] OTHER -> Over]
  /\ now' = 0 /\ stopped' = {}
  /\ UNCHANGED wall

Next ==
  \/ SetTime \/ Expire \/ Repeat
  \/ \E s \in Seqs :
       Add(s) \/ Arrive(s) \/ CancelWaiting(s) \/ CancelExpired(s) \/ Run(s)

Spec == Init /\ [][Next]_vars
=============================================================================
