-------------------------------- MODULE Timer --------------------------------
(***************************************************************************)
(* Timer (timer.cc), as a build that defines _WINDOWS has it; in others    *)
(* start does nothing.  Application threads call start, stop and exit; the *)
(* timer's thread calls onTimer until m_exitFlag is set.                   *)
(*                                                                         *)
(* m_mutex is held by a caller from the first to the last step of a call.  *)
(* The timer's thread does not take it.                                    *)
(***************************************************************************)
EXTENDS Integers

CONSTANTS
  Callers,   \* the application's threads
  MaxCalls   \* bound: the calls they make

ASSUME TimerAssumption == MaxCalls \in Nat

VARIABLES
  m_state, m_exitFlag,
  m_thread,   \* the handle is not NULL
  at,         \* the thread: "none", "new", "check", "fire", "sleep", "ended"
  suspended,  \* its suspend count
  pc,         \* per caller: where it is in a call
  calls,
  restarted   \* the timer was started after an exit

timerVars == <<m_state, m_exitFlag, m_thread, at, suspended, pc, calls,
               restarted>>

TimerInit ==
  /\ m_state = "IDLE" /\ m_exitFlag = FALSE /\ m_thread = FALSE
  /\ at = "none" /\ suspended = 0
  /\ pc = [c \in Callers |-> "idle"] /\ calls = 0 /\ restarted = FALSE

Unlocked == \A c \in Callers : pc[c] = "idle"

Goto(c, l) == pc' = [pc EXCEPT ![c] = l]

\* A call begins: m_mutex is locked.
Call(c, l) ==
  /\ Unlocked /\ calls < MaxCalls
  /\ calls' = calls + 1
  /\ Goto(c, l)
  /\ UNCHANGED <<m_state, m_exitFlag, m_thread, at, suspended, restarted>>

\* ResumeThread.
Resume == suspended' = IF suspended > 0 THEN suspended - 1 ELSE 0

\* start: a thread for an idle timer; a stopped one goes on, and m_state stays
\* as it is.
Start(c) ==
  /\ pc[c] = "start"
  /\ \/ /\ m_state = "IDLE"
        /\ \/ /\ m_thread' = TRUE /\ at' = "new" /\ suspended' = 0
              /\ restarted' = (restarted \/ m_exitFlag)
              /\ Goto(c, "started")
           \/ \* CreateThread failed
              /\ m_thread' = FALSE
              /\ Goto(c, "idle")
              /\ UNCHANGED <<at, suspended, restarted>>
     \/ /\ m_state = "STOPPED" /\ m_thread
        /\ Resume
        /\ Goto(c, "idle")
        /\ UNCHANGED <<m_thread, at, restarted>>
     \/ /\ m_state = "RUNNING" \/ (m_state = "STOPPED" /\ ~m_thread)
        /\ Goto(c, "idle")
        /\ UNCHANGED <<m_thread, at, suspended, restarted>>
  /\ UNCHANGED <<m_state, m_exitFlag, calls>>

\* The thread may have run in between.
Started(c) ==
  /\ pc[c] = "started"
  /\ m_state' = "RUNNING"
  /\ Goto(c, "idle")
  /\ UNCHANGED <<m_exitFlag, m_thread, at, suspended, calls, restarted>>

\* stop: SuspendThread fails when the thread has ended.
Stop(c) ==
  /\ pc[c] = "stop"
  /\ IF m_state = "RUNNING" /\ m_thread /\ at # "ended"
     THEN m_state' = "STOPPED" /\ suspended' = suspended + 1
     ELSE UNCHANGED <<m_state, suspended>>
  /\ Goto(c, "idle")
  /\ UNCHANGED <<m_exitFlag, m_thread, at, calls, restarted>>

\* Mutant: a stopped thread is not resumed.
ExitStoppedMutant == UNCHANGED suspended

\* exit at a stopped timer.
ExitStopped == Resume

\* exit: nothing at an idle timer; otherwise look every ten milliseconds
\* until the timer is idle, and forget the thread.
Exit(c) ==
  /\ pc[c] \in {"exit", "wait"}
  /\ \/ /\ m_state = "IDLE"
        /\ m_thread' = (m_thread /\ pc[c] = "exit")
        /\ Goto(c, "idle")
        /\ UNCHANGED <<m_exitFlag, suspended>>
     \/ /\ m_state # "IDLE"
        /\ m_exitFlag' = TRUE
        /\ IF m_state = "STOPPED" /\ m_thread THEN ExitStopped
           ELSE UNCHANGED suspended
        /\ Goto(c, "wait")
        /\ UNCHANGED m_thread
  /\ UNCHANGED <<m_state, at, calls, restarted>>

\* The thread: TimerHandler, then execute.
Thread ==
  /\ suspended = 0
  /\ \/ /\ at = "new" /\ m_state' = "RUNNING" /\ at' = "check"
     \/ /\ at \in {"check", "sleep"} /\ ~m_exitFlag
        /\ at' = IF at = "check" THEN "fire" ELSE "check"
        /\ UNCHANGED m_state
     \/ /\ at = "fire" /\ at' = "sleep" /\ UNCHANGED m_state
     \/ /\ at \in {"check", "sleep"} /\ m_exitFlag
        /\ m_state' = "IDLE" /\ at' = "ended"
  /\ UNCHANGED <<m_exitFlag, m_thread, suspended, pc, calls, restarted>>

TimerCall(c) == Start(c) \/ Started(c) \/ Stop(c) \/ Exit(c)

TimerNext ==
  \/ \E c \in Callers, l \in {"start", "stop", "exit"} : Call(c, l)
  \/ \E c \in Callers : Start(c)
  \/ \E c \in Callers : Started(c)
  \/ \E c \in Callers : Stop(c)
  \/ \E c \in Callers : Exit(c)
  \/ Thread

TimerSpec == TimerInit /\ [][TimerNext]_timerVars

-----------------------------------------------------------------------------
\* start has set m_state to RUNNING after the thread had ended: m_exitFlag is
\* never reset, so that the thread of a timer started after an exit ends at
\* once.
RunningForGood == restarted /\ m_state = "RUNNING" /\ at = "ended"

\* exit, and with it the destructor, returns, from every state that calls of
\* start, stop and exit by several threads lead to, also for a timer started
\* after an exit, unless its thread ended before start was done.
ExitReturns ==
  \A c \in Callers :
    pc[c] \in {"exit", "wait"} ~> pc[c] = "idle" \/ RunningForGood
=============================================================================
