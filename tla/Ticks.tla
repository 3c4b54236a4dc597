------------------------------- MODULE Ticks -------------------------------
(***************************************************************************)
(* The clock: the ticks counter of trap.c and the threads asleep in        *)
(* sys_sleep.  A section under tickslock is one action.                    *)
(***************************************************************************)
EXTENDS Threads

CONSTANTS
  Sleeper,   \* the threads that call sleep
  TUINT,     \* 2^w, the values of the uint ticks
  Delay      \* the n of the sleeps, an int that is compared as a uint

ASSUME TicksAssumption == Sleeper \subseteq Thread /\ TUINT \in Nat \ {0} /\ Delay \subseteq Int

VARIABLES
  ticks,
  sleeper,   \* where each thread is in sys_sleep, with n and ticks0
  stopped,   \* the threads that were killed or asked to exit
  elapsed    \* history: the ticks since each thread called, capped at TUINT

tickVars == <<ticks, sleeper, stopped, elapsed>>

TicksTypeOK ==
  /\ ticks \in 0 .. TUINT - 1
  /\ sleeper \in [Sleeper -> [at : {"out", "test", "sleep"}, n : 0 .. TUINT - 1, ticks0 : 0 .. TUINT - 1]]
  /\ stopped \subseteq Sleeper
  /\ elapsed \in [Sleeper -> 0 .. TUINT]

TicksInit ==
  /\ ticks \in 0 .. TUINT - 1
  /\ sleeper = [t \in Sleeper |-> [at |-> "out", n |-> 0, ticks0 |-> 0]]
  /\ stopped = {}
  /\ elapsed = [t \in Sleeper |-> 0]

WakeSleepers ==
  [t \in Sleeper |-> IF sleeper[t].at = "sleep" THEN [sleeper[t] EXCEPT !.at = "test"] ELSE sleeper[t]]

(* The timer interrupt on CPU 0: trap. *)
Tick ==
  /\ ticks' = (ticks + 1) % TUINT
  /\ sleeper' = WakeSleepers
  /\ elapsed' = [t \in Sleeper |-> IF elapsed[t] = TUINT THEN TUINT ELSE elapsed[t] + 1]
  /\ UNCHANGED stopped

AsUint(n) == n % TUINT

SleepCall(t, n) ==
  /\ sleeper[t].at = "out" /\ t \notin stopped
  /\ sleeper' = [sleeper EXCEPT ![t] = [at |-> "test", n |-> AsUint(n), ticks0 |-> ticks]]
  /\ elapsed' = [elapsed EXCEPT ![t] = 0]
  /\ UNCHANGED <<ticks, stopped>>

TooEarlyFault(t) == ticks < (sleeper[t].ticks0 + sleeper[t].n) % TUINT

(* The difference is taken in uint, so that it survives the wrap of ticks. *)
TooEarly(t) == (ticks - sleeper[t].ticks0) % TUINT < sleeper[t].n

(* The loop of sys_sleep: return 0, return -1, or sleep. *)
SleepTest(t) ==
  /\ sleeper[t].at = "test"
  /\ sleeper' = [sleeper EXCEPT ![t].at =
                   IF TooEarly(t) /\ t \notin stopped THEN "sleep" ELSE "out"]
  /\ UNCHANGED <<ticks, stopped, elapsed>>

(* kill, or an exit request: the sleeper is not woken. *)
Stop(t) ==
  /\ stopped' = stopped \union {t}
  /\ UNCHANGED <<ticks, sleeper, elapsed>>

TicksNext ==
  \/ Tick
  \/ \E t \in Sleeper, n \in Delay : SleepCall(t, n)
  \/ \E t \in Sleeper : SleepTest(t)
  \/ \E t \in Sleeper : Stop(t)

-----------------------------------------------------------------------------
(* While a thread is asleep its time is not up: every tick wakes it to     *)
(* test again, and no tick falls between the test and the sleep.  A thread *)
(* that was woken and did not run for a whole round of the counter is      *)
(* excepted: it takes the round for no time at all.                        *)
NoOversleep ==
  \A t \in Sleeper :
    sleeper[t].at = "sleep" => elapsed[t] < sleeper[t].n \/ elapsed[t] = TUINT

(* sys_sleep returns neither too early nor too late: a thread that was not *)
(* stopped returns only after n ticks of the clock, also when ticks has    *)
(* wrapped round meanwhile, and none goes back to sleep after them.        *)
SleepsExactly ==
  [][/\ \A t \in Sleeper :
          sleeper[t].at = "test" /\ sleeper'[t].at = "out" /\ t \notin stopped
            => elapsed[t] >= sleeper[t].n
     /\ TicksTypeOK' /\ NoOversleep']_tickVars

=============================================================================
