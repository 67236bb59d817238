------------------------------- MODULE Timers -------------------------------
(***************************************************************************)
(* The two timers of the control loop (run in cmd/supervisor/main.go): the *)
(* poll timer and the config timer, both armed with intervals that the     *)
(* administrator may change at any time and that take effect only when a   *)
(* refresh reads them.  Module Main calls run.                             *)
(*                                                                         *)
(* Time is discrete.  A refresh or a poll takes any time up to MaxBusy,    *)
(* which the timeouts of their queries bound; a loop that waits reacts at  *)
(* once to a channel that is ready.                                        *)
(***************************************************************************)
EXTENDS Integers

CONSTANTS
    Default,  \* the intervals of DefaultConfig
    Rows,     \* the intervals an administrator may store
    MaxBusy,  \* how long a refresh or a poll takes at most
    MaxSaves  \* bound: how often the administrator stores others

Intervals == [poll : Int, config : Int]

ASSUME TimersAssumption ==
    /\ Default \in [poll : Nat \ {0}, config : Nat \ {0}]
    /\ Rows \subseteq Intervals /\ Default \in Rows
    /\ MaxBusy \in Nat
    /\ MaxSaves \in Nat

VARIABLES
    rows,         \* the intervals in oc_appconfig
    saves,        \* how often they were changed
    cfg,          \* s.cfg
    phase,        \* where run is
    busy,         \* how long it has been there, while it does not wait
    pollTimer,    \* the time left, 0 = the tick is in its channel
    configTimer,
    pollEvery,
    ctxDone,
    sincePoll,    \* the time since the last poll ended
    stale         \* the time since a change that no refresh has read

timers == <<pollTimer, configTimer, pollEvery>>
timersVars == <<rows, saves, cfg, phase, busy, timers, ctxDone, sincePoll, stale>>

\* A timer that has fired, its tick taken from the channel.
Spent == -1

\* pollInterval and configInterval.
PollInterval == IF cfg.poll <= 0 THEN Default.poll ELSE cfg.poll
ConfigInterval == IF cfg.config <= 0 THEN Default.config ELSE cfg.config

\* Refreshing is two places: before the read, and before the timers are re-armed.
Phases ==
    {"start", "first", "rearmFirst", "refresh", "rearm", "poll", "select", "over"}

TimersTypeOK ==
    /\ rows \in Rows /\ cfg \in Rows
    /\ saves \in 0 .. MaxSaves
    /\ phase \in Phases
    /\ busy \in 0 .. MaxBusy
    /\ pollTimer \in Nat \cup {Spent}
    /\ configTimer \in Nat \cup {Spent}
    /\ pollEvery \in Nat
    /\ ctxDone \in BOOLEAN
    /\ sincePoll \in Nat /\ stale \in Nat

\* run is not called yet.
TimersInit ==
    /\ rows = Default
    /\ saves = 0
    /\ cfg = Default
    /\ phase = "start"
    /\ busy = 0
    /\ pollTimer = Spent /\ configTimer = Spent /\ pollEvery = 0
    /\ ctxDone = FALSE
    /\ sincePoll = 0
    /\ stale = 0

-----------------------------------------------------------------------------
(* The clock.                                                               *)

\* Something for select to take.
Ready == ctxDone \/ pollTimer = 0 \/ configTimer = 0

Left(timer) == IF timer > 0 THEN timer - 1 ELSE timer

Tick ==
    /\ CASE phase = "select" -> ~Ready /\ UNCHANGED busy
         [] phase \in {"start", "over"} -> FALSE
         [] OTHER            -> busy < MaxBusy /\ busy' = busy + 1
    /\ pollTimer' = Left(pollTimer)
    /\ configTimer' = Left(configTimer)
    /\ sincePoll' = IF phase = "poll" \/ sincePoll >= pollEvery THEN sincePoll
                    ELSE sincePoll + 1
    /\ stale' = IF rows = cfg THEN 0 ELSE stale + 1
    /\ UNCHANGED <<rows, saves, cfg, phase, pollEvery, ctxDone>>

-----------------------------------------------------------------------------
(* run.                                                                     *)

GoOn(place) ==
    /\ phase' = place
    /\ busy' = 0
    /\ UNCHANGED <<rows, saves, ctxDone>>

\* run is called, whatever the administrator has stored by then.
Enter ==
    /\ phase = "start"
    /\ rows' \in Rows
    /\ phase' = "first"
    /\ UNCHANGED <<saves, cfg, busy, timers, ctxDone, sincePoll, stale>>

\* refreshConfig: the rows as one query finds them, or the previous values.
ReadConfig ==
    /\ phase \in {"first", "refresh"}
    /\ \/ ~ctxDone /\ cfg' = rows
       \/ UNCHANGED cfg
    /\ stale' = 0
    /\ phase' = IF phase = "first" THEN "rearmFirst" ELSE "rearm"
    /\ UNCHANGED <<rows, saves, busy, timers, ctxDone, sincePoll>>

\* After the first refresh: a first poll at once.
ArmTimers ==
    /\ phase = "rearmFirst"
    /\ pollTimer' = 0
    /\ configTimer' = ConfigInterval
    /\ pollEvery' = PollInterval
    /\ sincePoll' = PollInterval
    /\ UNCHANGED <<cfg, stale>>
    /\ GoOn("select")

\* Seeded fault: the pending timer goes on at the old interval.
RearmKeepsPollMutant ==
    /\ phase = "rearm"
    /\ configTimer' = ConfigInterval
    /\ pollEvery' = PollInterval
    /\ UNCHANGED <<cfg, pollTimer, sincePoll, stale>>
    /\ GoOn("select")

\* Seeded fault: Stop and Reset leave a tick in the channel, as before Go 1.23.
RearmKeepsTickMutant ==
    /\ phase = "rearm"
    /\ configTimer' = ConfigInterval
    /\ pollEvery' = PollInterval
    /\ pollTimer' = IF PollInterval = pollEvery \/ pollTimer = 0 THEN pollTimer
                    ELSE PollInterval
    /\ UNCHANGED <<cfg, sincePoll, stale>>
    /\ GoOn("select")

\* Seeded fault: the config timer is only set again for a changed configuration.
RearmOnChangeMutant ==
    /\ phase = "rearm"
    /\ configTimer' = IF PollInterval = pollEvery THEN configTimer ELSE ConfigInterval
    /\ pollEvery' = PollInterval
    /\ pollTimer' = IF PollInterval = pollEvery THEN pollTimer ELSE PollInterval
    /\ UNCHANGED <<cfg, sincePoll, stale>>
    /\ GoOn("select")

\* After a later refresh.  Stop and Reset also drop a tick not yet taken.
Rearm ==
    /\ phase = "rearm"
    /\ configTimer' = ConfigInterval
    /\ pollEvery' = PollInterval
    /\ pollTimer' = IF PollInterval = pollEvery THEN pollTimer ELSE PollInterval
    /\ UNCHANGED <<cfg, sincePoll, stale>>
    /\ GoOn("select")

TakeConfigTick ==
    /\ phase = "select"
    /\ configTimer = 0
    /\ configTimer' = Spent
    /\ UNCHANGED <<cfg, pollTimer, pollEvery, sincePoll, stale>>
    /\ GoOn("refresh")

TakePollTick ==
    /\ phase = "select"
    /\ pollTimer = 0
    /\ pollTimer' = Spent
    /\ UNCHANGED <<cfg, configTimer, pollEvery, sincePoll, stale>>
    /\ GoOn("poll")

EndPoll ==
    /\ phase = "poll"
    /\ pollEvery' = PollInterval
    /\ pollTimer' = PollInterval
    /\ sincePoll' = 0
    /\ UNCHANGED <<cfg, configTimer, stale>>
    /\ GoOn("select")

\* Seeded fault: a break leaves the select and not the loop.
ReturnMutant ==
    /\ phase = "select"
    /\ ctxDone
    /\ UNCHANGED timersVars

Return ==
    /\ phase = "select"
    /\ ctxDone
    /\ UNCHANGED <<cfg, timers, sincePoll, stale>>
    /\ GoOn("over")

-----------------------------------------------------------------------------
(* The administrator and the operator.                                      *)

Save ==
    /\ phase \notin {"start", "over"}
    /\ saves < MaxSaves
    /\ \E r \in Rows \ {rows} : rows' = r
    /\ saves' = saves + 1
    /\ stale' = 0
    /\ UNCHANGED <<cfg, phase, busy, timers, ctxDone, sincePoll>>

Signal ==
    /\ ~ctxDone
    /\ ctxDone' = TRUE
    /\ UNCHANGED <<rows, saves, cfg, phase, busy, timers, sincePoll, stale>>

-----------------------------------------------------------------------------
RunStep == ReadConfig \/ ArmTimers \/ Rearm \/ EndPoll

TimersNext ==
    \/ Tick \/ RunStep
    \/ TakeConfigTick \/ TakePollTick \/ Return
    \/ Save \/ Signal

\* Time passes, run goes on, and select, which chooses at random among the
\* channels that are ready, serves each of them.
TimersFairness ==
    /\ WF_timersVars(Tick)
    /\ WF_timersVars(RunStep)
    /\ SF_timersVars(TakeConfigTick)
    /\ SF_timersVars(TakePollTick)
    /\ SF_timersVars(Return)

-----------------------------------------------------------------------------
(* Properties.                                                              *)

\* README.md:181: a change becomes effective "at the next config reload interval":
\* the interval in force, and what one poll and one refresh may add.  A refresh
\* that fails costs one interval more.
ChangeInTime == stale <= ConfigInterval + 3 * MaxBusy

\* main.go:146-153: "Apply a changed poll interval immediately": when the loop
\* waits, the next poll is never further away than the interval in force.
NextPollInForce == phase = "select" => pollTimer \in 0 .. PollInterval

\* README.md:180, main.go:151-152: two polls are apart by the interval in force when
\* the later one begins: no tick of an old, shorter interval is left over.
PollsSpaced ==
    [][phase = "select" /\ phase' = "poll" => sincePoll >= PollInterval]_timersVars

-----------------------------------------------------------------------------
(* The inductive invariant the safety properties above follow from.         *)

\* The poll timer was set by the interval it is remembered by, which is the one in
\* force until a refresh reads another, and the time that has passed since the last
\* poll and the time left make up that interval.
PollTimerSound ==
    /\ phase \in {"select", "refresh", "rearm"} =>
          pollTimer \in 0 .. pollEvery /\ sincePoll + pollTimer >= pollEvery
    /\ phase \in {"select", "refresh", "poll"} => pollEvery = PollInterval

\* How old a change may be in each phase: a config timer that runs counts down what
\* is left of the interval, and one poll at most begins after it has fired.
StaleSound ==
    LET refreshed == ConfigInterval + MaxBusy
    IN  /\ phase = "start" => stale = 0 /\ busy = 0
        /\ phase \in {"first", "rearmFirst", "rearm"} => stale <= busy
        /\ phase \in {"select", "poll"} =>
              configTimer >= 0 /\ (configTimer > 0 => stale + configTimer <= refreshed)
        /\ phase = "select" /\ configTimer = 0 =>
              stale <= refreshed \/ (pollTimer > 0 /\ stale <= refreshed + MaxBusy)
        /\ phase = "poll" /\ configTimer = 0 => stale <= refreshed + busy
        /\ phase = "refresh" => stale <= refreshed + MaxBusy + busy
        /\ phase = "over" => stale <= refreshed + MaxBusy

TimersIInv == TimersTypeOK /\ PollTimerSound /\ StaleSound
=============================================================================
