----------------------------- MODULE MainProofs -----------------------------
(***************************************************************************)
(* Proofs about the start of the supervisor and its two timers, for any    *)
(* arguments, any intervals an administrator may store, however often, and *)
(* however long a refresh or a poll takes.                                 *)
(***************************************************************************)
EXTENDS Main, TLAPS

-----------------------------------------------------------------------------
(* The timers.                                                              *)

\* What is assumed of the constants, apart from the form of the intervals.
LEMMA Bounds == MaxBusy \in Nat /\ MaxSaves \in Nat /\ Default \in Rows
  BY TimersAssumption

USE Bounds

\* The intervals in force are positive, whatever is stored.
LEMMA IntervalsPositive ==
    ASSUME cfg \in Rows
    PROVE  PollInterval \in Nat \ {0} /\ ConfigInterval \in Nat \ {0}
<1>1. cfg \in Intervals
  BY TimersAssumption
<1>2. cfg.poll \in Int /\ cfg.config \in Int
  BY <1>1 DEF Intervals
<1>3. Default \in [poll : Nat \ {0}, config : Nat \ {0}]
  BY TimersAssumption
<1>4. Default.poll \in Nat \ {0} /\ Default.config \in Nat \ {0}
  BY <1>3
<1> QED BY <1>2, <1>4 DEF PollInterval, ConfigInterval

\* The intervals in force are those of the copy, which only a refresh replaces.
LEMMA IntervalsKept ==
    ASSUME cfg' = cfg
    PROVE  PollInterval' = PollInterval /\ ConfigInterval' = ConfigInterval
  BY DEF PollInterval, ConfigInterval

\* Before run is called no timer runs.
LEMMA TimersInitial == TimersInit => TimersIInv
<1> SUFFICES ASSUME TimersInit PROVE TimersIInv
  OBVIOUS
<1>1. TimersTypeOK
  <2>1. ctxDone \in BOOLEAN
    BY Zenon DEF TimersInit
  <2> QED BY <2>1 DEF TimersInit, TimersTypeOK, Phases, Spent
<1>2. PollTimerSound /\ StaleSound
  BY DEF TimersInit, PollTimerSound, StaleSound
<1> QED BY <1>1, <1>2 DEF TimersIInv

\* Time passes: what the timers count down the clocks count up.
LEMMA TickKeeps == ASSUME TimersIInv, Tick PROVE TimersIInv'
<1> USE DEF TimersIInv
<1>1. PollInterval \in Nat \ {0} /\ ConfigInterval \in Nat \ {0}
  BY IntervalsPositive DEF TimersTypeOK
<1>2. PollInterval' = PollInterval /\ ConfigInterval' = ConfigInterval
  BY IntervalsKept DEF Tick
<1>3. TimersTypeOK'
  BY DEF Tick, TimersTypeOK, Left, Spent, Phases
<1>4. PollTimerSound'
  BY <1>1, <1>2 DEF Tick, TimersTypeOK, PollTimerSound, Left, Spent, Ready, Phases
<1>5. StaleSound'
  BY <1>1, <1>2 DEF Tick, TimersTypeOK, PollTimerSound, StaleSound, Left, Spent, Ready, Phases
<1> QED BY <1>3, <1>4, <1>5

\* run is called, and has not read the rows.
LEMMA EnterKeeps == ASSUME TimersIInv, Enter PROVE TimersIInv'
<1>1. TimersTypeOK'
  BY DEF TimersIInv, TimersTypeOK, Enter, timers, Phases, Spent
<1>2. PollTimerSound' /\ StaleSound'
  BY DEF TimersIInv, TimersTypeOK, PollTimerSound, StaleSound, Enter, timers
<1> QED BY <1>1, <1>2 DEF TimersIInv

\* A refresh reads the rows, or keeps the previous values.
LEMMA ReadConfigKeeps == ASSUME TimersIInv, ReadConfig PROVE TimersIInv'
<1> USE DEF TimersIInv
<1>1. TimersTypeOK'
  BY DEF TimersTypeOK, ReadConfig, timers, Phases, Spent
<1>2. PollTimerSound'
  BY DEF TimersTypeOK, PollTimerSound, ReadConfig, timers
<1>3. StaleSound'
  BY DEF TimersTypeOK, StaleSound, ReadConfig, timers
<1> QED BY <1>1, <1>2, <1>3

\* The other steps of run: each arms a timer with the interval in force.
LEMMA RunKeeps ==
    ASSUME TimersIInv,
           ArmTimers \/ Rearm \/ EndPoll \/ TakeConfigTick \/ TakePollTick \/ Return
    PROVE  TimersIInv'
<1> USE DEF TimersIInv, GoOn
<1>1. PollInterval \in Nat \ {0} /\ ConfigInterval \in Nat \ {0}
  BY IntervalsPositive DEF TimersTypeOK
<1>2. PollInterval' = PollInterval /\ ConfigInterval' = ConfigInterval
  BY IntervalsKept DEF ArmTimers, Rearm, EndPoll, TakeConfigTick, TakePollTick, Return
<1>3. CASE ArmTimers
  <2>1. TimersTypeOK'
    BY <1>1, <1>3 DEF TimersTypeOK, ArmTimers, Phases, Spent
  <2>2. PollTimerSound' /\ StaleSound'
    BY <1>1, <1>2, <1>3 DEF TimersTypeOK, PollTimerSound, StaleSound, ArmTimers
  <2> QED BY <2>1, <2>2
<1>4. CASE Rearm
  <2>1. TimersTypeOK'
    BY <1>1, <1>4 DEF TimersTypeOK, Rearm, Phases, Spent
  <2>2. PollTimerSound' /\ StaleSound'
    BY <1>1, <1>2, <1>4 DEF TimersTypeOK, PollTimerSound, StaleSound, Rearm
  <2> QED BY <2>1, <2>2
<1>5. CASE EndPoll
  <2>1. TimersTypeOK'
    BY <1>1, <1>5 DEF TimersTypeOK, EndPoll, Phases, Spent
  <2>2. PollTimerSound' /\ StaleSound'
    BY <1>1, <1>2, <1>5 DEF TimersTypeOK, PollTimerSound, StaleSound, EndPoll
  <2> QED BY <2>1, <2>2
<1>6. CASE TakeConfigTick
  <2>1. TimersTypeOK'
    BY <1>6 DEF TimersTypeOK, TakeConfigTick, Phases, Spent
  <2>2. PollTimerSound' /\ StaleSound'
    BY <1>1, <1>2, <1>6 DEF TimersTypeOK, PollTimerSound, StaleSound, TakeConfigTick
  <2> QED BY <2>1, <2>2
<1>7. CASE TakePollTick
  <2>1. TimersTypeOK'
    BY <1>7 DEF TimersTypeOK, TakePollTick, Phases, Spent
  <2>2. PollTimerSound' /\ StaleSound'
    BY <1>1, <1>2, <1>7 DEF TimersTypeOK, PollTimerSound, StaleSound, TakePollTick
  <2> QED BY <2>1, <2>2
<1>8. CASE Return
  <2>1. TimersTypeOK'
    BY <1>8 DEF TimersTypeOK, Return, timers, Phases, Spent
  <2>2. PollTimerSound' /\ StaleSound'
    BY <1>1, <1>2, <1>8 DEF TimersTypeOK, PollTimerSound, StaleSound, Return, timers
  <2> QED BY <2>1, <2>2
<1> QED BY <1>3, <1>4, <1>5, <1>6, <1>7, <1>8

\* A change in the database, and the signal.
LEMMA OthersKeep == ASSUME TimersIInv, Save \/ Signal PROVE TimersIInv'
<1> USE DEF TimersIInv, Save, Signal, timers
<1>1. PollInterval' = PollInterval /\ ConfigInterval' = ConfigInterval
  BY IntervalsKept
<1>2. PollInterval \in Nat \ {0} /\ ConfigInterval \in Nat \ {0}
  BY IntervalsPositive DEF TimersTypeOK
<1>3. TimersTypeOK'
  <2>1. ctxDone' \in BOOLEAN
    BY Zenon DEF TimersTypeOK
  <2> QED BY <2>1 DEF TimersTypeOK, Phases, Spent
<1>4. PollTimerSound' /\ StaleSound'
  BY <1>1, <1>2 DEF TimersTypeOK, PollTimerSound, StaleSound
<1> QED BY <1>3, <1>4

\* Every step of the timers.
LEMMA TimersKeep == ASSUME TimersIInv, TimersNext PROVE TimersIInv'
  BY TickKeeps, ReadConfigKeeps, RunKeeps, OthersKeep DEF TimersNext, RunStep

\* And none.
LEMMA TimersStutter == ASSUME TimersIInv, UNCHANGED timersVars PROVE TimersIInv'
<1>1. PollInterval' = PollInterval /\ ConfigInterval' = ConfigInterval
  BY IntervalsKept DEF timersVars
<1>2. TimersTypeOK'
  BY DEF TimersIInv, TimersTypeOK, timersVars, timers
<1>3. PollTimerSound' /\ StaleSound'
  BY <1>1 DEF TimersIInv, PollTimerSound, StaleSound, timersVars, timers
<1> QED BY <1>2, <1>3 DEF TimersIInv

-----------------------------------------------------------------------------
(* The start-up configuration.                                              *)

\* Where each value of the start-up configuration comes from.
LEMMA FromArgsFields ==
    ASSUME NEW a
    PROVE  LET c == FromArgs(a)
               file == ConfigFile(a) # ""
               url == Chosen(a, "database-url")
           IN /\ c.db = IF url # "" THEN UrlDatabase(url)
                        ELSE IF file THEN FileDatabase(a.file) ELSE NoDatabase
              /\ c.prefix = Or(Chosen(a, "database-prefix"),
                               IF file THEN Or(a.file.prefix, "oc_") ELSE "oc_")
              /\ c.url = Or(Chosen(a, "nextcloud-url"),
                            IF file THEN Or(a.file.url, "") ELSE "")
              /\ c.occDir = Or(Chosen(a, "occ-dir"),
                               IF file THEN "root of config.php" ELSE "")
              /\ c.occ = Chosen(a, "occ")
              /\ c.timeout = Chosen(a, "worker-timeout")
<1> DEFINE file == ConfigFile(a) # ""
           db == IF file THEN FileDatabase(a.file) ELSE NoDatabase
           prefix == IF file THEN Or(a.file.prefix, "oc_") ELSE "oc_"
           nextcloud == IF file THEN Or(a.file.url, "") ELSE ""
           occDir == IF file THEN "root of config.php" ELSE ""
           c == [db |-> db, prefix |-> prefix, url |-> nextcloud, occ |-> "",
                 occDir |-> occDir, timeout |-> "300"]
<1>1. Loaded(a, NoConf) = c
  BY DEF Loaded, NoConf
<1>2. FromArgs(a) = Overridden(a, c)
  BY <1>1 DEF FromArgs
<1> HIDE DEF db, prefix, nextcloud, occDir
<1>3. c = [db |-> db, prefix |-> prefix, url |-> nextcloud, occ |-> "",
           occDir |-> occDir, timeout |-> "300"]
  OBVIOUS
<1> HIDE DEF c
<1>4. LET o == Overridden(a, c)
      IN /\ o.db = IF Chosen(a, "database-url") # ""
                   THEN UrlDatabase(Chosen(a, "database-url")) ELSE db
         /\ o.prefix = Or(Chosen(a, "database-prefix"), prefix)
         /\ o.url = Or(Chosen(a, "nextcloud-url"), nextcloud)
         /\ o.occ = Chosen(a, "occ")
         /\ o.occDir = Or(Chosen(a, "occ-dir"), occDir)
         /\ o.timeout = Chosen(a, "worker-timeout")
  BY ONLY <1>3 DEF Overridden
<1> QED BY <1>2, <1>4 DEF db, prefix, nextcloud, occDir

\* Every database has one of the drivers; the endpoint of a URL is the URL.
LEMMA Drivers ==
    ASSUME NEW f, NEW url
    PROVE  /\ FileDatabase(f).driver \in {"none", "mysql", "postgres", "sqlite3"}
           /\ UrlDatabase(url).driver \in {"none", "mysql", "postgres", "sqlite3"}
           /\ NoDatabase.driver = "none"
           /\ UrlDatabase(url) # NoDatabase => UrlDatabase(url).endpoint.net = "url"
           /\ FileDatabase(f).driver = "mysql" =>
                FileDatabase(f).endpoint = MySQLEndpoint(f.dbhost)
  BY DEF FileDatabase, UrlDatabase, NoDatabase, Database, Endpoint

\* The environment never gives a timeout that is no number.
LEMMA TimeoutChosen ==
    ASSUME NEW a
    PROVE  Chosen(a, "worker-timeout") \in NoNumber <=> a.flag["worker-timeout"] \in NoNumber
  BY DEF Chosen, FromEnv, Unset, NoNumber

\* config.php is named by its flag, or else by the environment.
LEMMA FileNamed ==
    ASSUME NEW a
    PROVE  ConfigFile(a) # "" <=> {a.flag["config"], a.env["config"]} \ {Unset, ""} # {}
  BY DEF ConfigFile, FromEnv, Unset

\* A configuration that is not refused is complete.
LEMMA NotRefused ==
    ASSUME NEW a, ~Refuses(a)
    PROVE  LET c == FromArgs(a)
           IN /\ c.timeout \notin NoNumber
              /\ c.db.driver \in {"none", "mysql", "postgres", "sqlite3"}
              /\ c.db # NoDatabase
              /\ c.url # "" /\ c.occ # ""
<1>1. FromArgs(a).db.driver \in {"none", "mysql", "postgres", "sqlite3"}
  BY FromArgsFields, Drivers
<1>2. FromArgs(a).timeout \notin NoNumber
  BY FromArgsFields, TimeoutChosen DEF Refuses
<1> QED BY <1>1, <1>2 DEF Refuses

-----------------------------------------------------------------------------
(* The inductive invariant.                                                 *)

\* main begins with its arguments and nothing else.
LEMMA MainInitial == MainInit => MainIInv
<1> SUFFICES ASSUME MainInit PROVE MainIInv
  OBVIOUS
<1>1. TimersIInv
  BY TimersInitial DEF MainInit
<1>2. MainTypeOK
  BY <1>1 DEF MainInit, MainTypeOK, NoConf, NoNumber, NoDatabase, Database, TimersIInv
<1>3. StartSound
  BY DEF MainInit, StartSound, TimersInit
<1> QED BY <1>1, <1>2, <1>3 DEF MainIInv

\* Before run is called, the signal is all that happens to what run uses.
LEMMA BeforeRun ==
    ASSUME TimersNext, phase = "start"
    PROVE  Signal
  BY DEF TimersNext, Tick, RunStep, ReadConfig, ArmTimers, Rearm, EndPoll, TakeConfigTick,
         TakePollTick, Return, Save

\* One step per step of main.
LEMMA MainStepKeeps == ASSUME MainIInv, MainNext PROVE MainIInv'
<1> USE DEF MainIInv, Exit, GoTo
<1>1. CASE LoadConfig
  <2>1. TimersIInv' /\ phase' = phase
    BY <1>1, TimersStutter DEF LoadConfig, timersVars
  <2>2. CASE Refuses(args)
    <3>1. MainTypeOK'
      BY <1>1, <2>1, <2>2 DEF LoadConfig, MainTypeOK, TimersIInv
    <3>2. StartSound'
      BY <1>1, <2>1, <2>2 DEF LoadConfig, StartSound
    <3> QED BY <2>1, <3>1, <3>2
  <2>3. CASE ~Refuses(args)
    <3>1. MainTypeOK'
      BY <1>1, <2>1, <2>3, NotRefused DEF LoadConfig, MainTypeOK, TimersIInv
    <3>2. StartSound'
      BY <1>1, <2>1, <2>3 DEF LoadConfig, StartSound, MainTypeOK
    <3> QED BY <2>1, <3>1, <3>2
  <2> QED BY <2>2, <2>3
<1>2. CASE OpenDatabase
  <2>1. TimersIInv' /\ phase' = phase
    BY <1>2, TimersStutter DEF OpenDatabase, timersVars
  <2>2. MainTypeOK'
    BY <1>2, <2>1 DEF OpenDatabase, MainTypeOK, TimersIInv
  <2>3. StartSound'
    BY <1>2, <2>1 DEF OpenDatabase, StartSound, MainTypeOK
  <2> QED BY <2>1, <2>2, <2>3
<1>3. CASE CheckOcc
  <2>1. TimersIInv'
    BY <1>3, TimersStutter, EnterKeeps DEF CheckOcc
  <2>2. MainTypeOK'
    <3>1. CASE GoTo("run") /\ args' = NoArguments /\ conf' = NoConf
      BY <1>3, <2>1, <3>1
         DEF CheckOcc, MainTypeOK, TimersIInv, NoConf, NoNumber, NoDatabase, Database
    <3>2. CASE Exit("1")
      BY <1>3, <2>1, <3>2 DEF CheckOcc, MainTypeOK, TimersIInv
    <3> QED BY <1>3, <3>1, <3>2 DEF CheckOcc
  <2>3. StartSound'
    BY <1>3, <2>1 DEF CheckOcc, StartSound, MainTypeOK
  <2> QED BY <2>1, <2>2, <2>3
<1>4. CASE Finish
  <2>1. TimersIInv'
    BY <1>4, TimersStutter DEF Finish
  <2>2. MainTypeOK'
    BY <1>4, <2>1 DEF Finish, MainTypeOK, TimersIInv
  <2>3. StartSound'
    BY <1>4, <2>1 DEF Finish, StartSound, MainTypeOK
  <2> QED BY <2>1, <2>2, <2>3
<1>5. CASE Killed
  <2>1. TimersIInv'
    BY <1>5, TimersStutter DEF Killed
  <2>2. MainTypeOK'
    BY <1>5, <2>1 DEF Killed, MainTypeOK, TimersIInv
  <2>3. StartSound'
    BY <1>5, <2>1 DEF Killed, StartSound, MainTypeOK
  <2> QED BY <2>1, <2>2, <2>3
<1>6. CASE Run
  <2>1. TimersIInv'
    BY <1>6, TimersKeep DEF Run
  <2>2. MainTypeOK'
    BY <1>6, <2>1 DEF Run, mainVars, MainTypeOK, TimersIInv
  <2>3. place = "occ" => phase' = "start"
    BY <1>6, BeforeRun DEF Run, StartSound, Signal
  <2>4. StartSound'
    BY <1>6, <2>1, <2>3 DEF Run, mainVars, StartSound
  <2> QED BY <2>1, <2>2, <2>4
<1> QED BY <1>1, <1>2, <1>3, <1>4, <1>5, <1>6 DEF MainNext, MainStep

\* And none.
LEMMA MainStutter == ASSUME MainIInv, UNCHANGED allVars PROVE MainIInv'
<1>1. TimersIInv'
  BY TimersStutter DEF MainIInv, allVars
<1>2. UNCHANGED <<place, args, conf, code, phase>>
  BY DEF allVars, mainVars, timersVars
<1>3. MainTypeOK'
  BY <1>1, <1>2 DEF MainIInv, MainTypeOK, TimersIInv
<1>4. StartSound'
  BY <1>2 DEF MainIInv, StartSound
<1> QED BY <1>1, <1>3, <1>4 DEF MainIInv

\* From main.go:36 to its end, in every order of ticks, saves and the signal: what main
\* goes on with is what it read and did not refuse, the timers run as the intervals in
\* force say, and no change is left unread for longer than the phase explains.
THEOREM MainInductive == MainSpec => []MainIInv
<1>1. MainIInv /\ [MainNext]_allVars => MainIInv'
  BY MainStepKeeps, MainStutter
<1> QED BY <1>1, MainInitial, PTL DEF MainSpec

-----------------------------------------------------------------------------
(* What follows from it.                                                    *)

\* Every variable of main and of its timers has its type.
THEOREM MainTyped == MainSpec => []MainTypeOK
<1>1. MainIInv => MainTypeOK
  BY DEF MainIInv
<1> QED BY <1>1, MainInductive, PTL

\* main.go:146-153: while the loop waits, the next poll is at most the interval in
\* force away, whichever interval the timer was armed with before.
THEOREM NextPoll == MainSpec => []NextPollInForce
<1>1. MainIInv => NextPollInForce
  BY DEF MainIInv, TimersIInv, PollTimerSound, NextPollInForce
<1> QED BY <1>1, MainInductive, PTL

\* README.md:181: a change in the database is read within the interval in force and
\* the time of two polls and a refresh, for every interval and every such time.
THEOREM ChangesRead == MainSpec => []ChangeInTime
<1>1. MainIInv => ChangeInTime
  <2> SUFFICES ASSUME MainIInv PROVE ChangeInTime
    OBVIOUS
  <2>1. PollInterval \in Nat \ {0} /\ ConfigInterval \in Nat \ {0}
    BY IntervalsPositive DEF MainIInv, TimersIInv, TimersTypeOK
  <2> QED BY <2>1
       DEF MainIInv, TimersIInv, TimersTypeOK, PollTimerSound, StaleSound, Phases, ChangeInTime
<1> QED BY <1>1, MainInductive, PTL

\* README.md:180, main.go:151-152: however the intervals change, a poll begins no
\* earlier after the last one than the interval in force then says.
THEOREM PollsApart == MainSpec => PollsSpaced
<1>1. MainIInv /\ [MainNext]_allVars
        => [phase = "select" /\ phase' = "poll" => sincePoll >= PollInterval]_timersVars
  <2> SUFFICES ASSUME MainIInv, MainNext, phase = "select", phase' = "poll"
               PROVE  sincePoll >= PollInterval
    BY DEF allVars
  <2>1. TimersNext
    <3>1. place = "run"
      BY DEF MainIInv, MainTypeOK, StartSound, MainNext, MainStep, LoadConfig, OpenDatabase,
             CheckOcc, Enter, Finish, Killed, Run, timersVars
    <3> QED BY <3>1 DEF MainNext, MainStep, LoadConfig, OpenDatabase, CheckOcc, Finish,
                        Killed, Run, timersVars
  <2>2. TakePollTick
    BY <2>1 DEF TimersNext, Tick, RunStep, ReadConfig, ArmTimers, Rearm, EndPoll, GoOn,
                TakeConfigTick, Return, Save, Signal
  <2> QED BY <2>2 DEF TakePollTick, MainIInv, TimersIInv, TimersTypeOK, PollTimerSound
<1> QED BY <1>1, MainInductive, PTL DEF MainSpec, PollsSpaced

\* The flag, the environment and the default of an option.
LEMMA ChosenFrom ==
    ASSUME NEW a
    PROVE  /\ \A o \in {"database-prefix", "nextcloud-url", "occ-dir", "database-url"} :
                Chosen(a, o) = IF a.flag[o] # Unset THEN a.flag[o]
                               ELSE IF a.env[o] = Unset THEN "" ELSE a.env[o]
           /\ Chosen(a, "occ") = IF a.flag["occ"] # Unset THEN a.flag["occ"]
                                 ELSE IF a.env["occ"] = Unset THEN "php occ" ELSE a.env["occ"]
           /\ Chosen(a, "worker-timeout") =
                IF a.flag["worker-timeout"] # Unset THEN a.flag["worker-timeout"]
                ELSE IF a.env["worker-timeout"] \in NoNumber \cup {Unset} THEN "300"
                ELSE a.env["worker-timeout"]
  BY DEF Chosen, FromEnv

\* A text is looked for in a flag f, then in the environment v; u is no text and e the
\* empty one, and d stands behind both.
LEMMA Sources ==
    ASSUME NEW f, NEW v, NEW u, NEW e, NEW d, NEW chosen, u # e,
           chosen = IF f # u THEN f ELSE IF v = u THEN e ELSE v
    PROVE  /\ f \notin {u, e} => chosen = f /\ chosen # e
           /\ f = u /\ v \notin {u, e} => chosen = v /\ chosen # e
           /\ f \in {u, e} /\ (f # u \/ v \in {u, e}) => chosen = e
  OBVIOUS

\* The texts that set an option to nothing.
LEMMA Nothings ==
    /\ \A o \in Options : o # "worker-timeout" => Nothing(o) = {Unset, ""}
    /\ Nothing("worker-timeout") = {Unset} \cup NoNumber
    /\ Unset # "" /\ Unset \notin NoNumber
  BY DEF Nothing, NoNumber, Unset, Options

\* README.md:113-121: for any arguments, each of the six values main goes on with is
\* what its flag says, else what the environment says, else what config.php holds.
THEOREM Precedence == MainSpec => []PrecedenceKept
<1>1. MainIInv => PrecedenceKept
  <2> SUFFICES ASSUME MainIInv, place \in {"open", "occ"}
               PROVE  PrecedenceKept
    BY DEF PrecedenceKept
  <2>1. conf = FromArgs(args) /\ ~Refuses(args)
    BY DEF MainIInv, StartSound
  <2> DEFINE file == {args.flag["config"], args.env["config"]} \ {Unset, ""} # {}
             flag(o) == args.flag[o]
             var(o) == args.env[o]
             e == ""
             byFlag(o) == flag(o) \notin Nothing(o)
             byEnv(o) == flag(o) = Unset /\ var(o) \notin Nothing(o)
             chosen(o) == Chosen(args, o)
  <2>2. file <=> ConfigFile(args) # ""
    BY FileNamed
  <2>3. ASSUME NEW o \in {"database-prefix", "nextcloud-url", "occ-dir", "database-url"}
        PROVE  /\ byFlag(o) => chosen(o) = flag(o) /\ chosen(o) # e
               /\ byEnv(o) => chosen(o) = var(o) /\ chosen(o) # e
               /\ ~byFlag(o) /\ ~byEnv(o) => chosen(o) = e
    <3>1. Nothing(o) = {Unset, e} /\ Unset # e
      BY Nothings, Zenon DEF Options
    <3>2. chosen(o) = IF flag(o) # Unset THEN flag(o)
                      ELSE IF var(o) = Unset THEN e ELSE var(o)
      BY ChosenFrom, Zenon
    <3> HIDE DEF chosen, flag, var, e
    <3> QED BY ONLY <3>1, <3>2, Sources DEF byFlag, byEnv
  <2>4. /\ conf.prefix = Or(chosen("database-prefix"),
                            IF file THEN Or(args.file.prefix, "oc_") ELSE "oc_")
        /\ conf.url = Or(chosen("nextcloud-url"), IF file THEN Or(args.file.url, "") ELSE "")
        /\ conf.occDir = Or(chosen("occ-dir"), IF file THEN "root of config.php" ELSE "")
        /\ conf.occ = chosen("occ")
        /\ conf.timeout = chosen("worker-timeout")
        /\ conf.db = IF chosen("database-url") # e THEN UrlDatabase(chosen("database-url"))
                     ELSE IF file THEN FileDatabase(args.file) ELSE NoDatabase
    BY <2>1, <2>2, FromArgsFields, Zenon
  <2>5. /\ conf.url # e /\ conf.occ # e /\ conf.db # NoDatabase
        /\ conf.timeout \notin NoNumber
    BY <2>1, NotRefused, Zenon
  <2> HIDE DEF file, chosen
  <2>6. LET o == "database-prefix"
        IN  /\ byFlag(o) => conf.prefix = flag(o)
            /\ byEnv(o) => conf.prefix = var(o)
            /\ ~byFlag(o) /\ ~byEnv(o) =>
                 conf.prefix = IF file /\ args.file.prefix # e THEN args.file.prefix ELSE "oc_"
    BY <2>3, <2>4, Zenon DEF Or
  <2>7. LET o == "nextcloud-url"
        IN  /\ byFlag(o) => conf.url = flag(o)
            /\ byEnv(o) => conf.url = var(o)
            /\ ~byFlag(o) /\ ~byEnv(o) => conf.url = args.file.url
    BY <2>3, <2>4, <2>5, Zenon DEF Or
  <2>8. LET o == "occ-dir"
        IN  /\ byFlag(o) => conf.occDir = flag(o)
            /\ byEnv(o) => conf.occDir = var(o)
            /\ ~byFlag(o) /\ ~byEnv(o) =>
                 conf.occDir = IF file THEN "root of config.php" ELSE ""
    BY <2>3, <2>4, Zenon DEF Or
  <2>9. LET o == "database-url"
        IN  /\ byFlag(o) => conf.db = UrlDatabase(flag(o))
            /\ byEnv(o) => conf.db = UrlDatabase(var(o))
            /\ ~byFlag(o) /\ ~byEnv(o) => conf.db = FileDatabase(args.file)
    BY <2>3, <2>4, <2>5, Zenon
  <2>10. LET o == "occ"
         IN  /\ byFlag(o) => conf.occ = flag(o)
             /\ byEnv(o) => conf.occ = var(o)
             /\ ~byFlag(o) /\ ~byEnv(o) => conf.occ = "php occ"
    <3>1. conf.occ = IF flag("occ") # Unset THEN flag("occ")
                     ELSE IF var("occ") = Unset THEN "php occ" ELSE var("occ")
      BY <2>4, ChosenFrom, Zenon DEF chosen
    <3>2. Nothing("occ") = {Unset, e} /\ Unset # e
      BY Nothings, Zenon DEF Options
    <3> HIDE DEF flag, var, e
    <3> QED BY ONLY <2>5, <3>1, <3>2 DEF byFlag, byEnv
  <2>11. LET o == "worker-timeout"
         IN  /\ byFlag(o) => conf.timeout = flag(o)
             /\ byEnv(o) => conf.timeout = var(o)
             /\ ~byFlag(o) /\ ~byEnv(o) => conf.timeout = "300"
    <3> DEFINE o == "worker-timeout"
    <3>1. conf.timeout = IF flag(o) # Unset THEN flag(o)
                         ELSE IF var(o) \in NoNumber \cup {Unset} THEN "300" ELSE var(o)
      BY <2>4, ChosenFrom, Zenon DEF chosen
    <3>2. Nothing(o) = {Unset} \cup NoNumber /\ Unset \notin NoNumber
      BY Nothings, Zenon
    <3> HIDE DEF flag, var, o
    <3>3. /\ byFlag(o) => conf.timeout = flag(o)
          /\ byEnv(o) => conf.timeout = var(o)
          /\ ~byFlag(o) /\ ~byEnv(o) => conf.timeout = "300"
      BY ONLY <2>5, <3>1, <3>2 DEF byFlag, byEnv
    <3> QED BY <3>3 DEF o
  <2> DEFINE otherwise(o) ==
               CASE o = "database-prefix" ->
                      IF file /\ args.file.prefix # e THEN args.file.prefix ELSE "oc_"
                 [] o = "nextcloud-url" -> args.file.url
                 [] o = "occ-dir" -> IF file THEN "root of config.php" ELSE ""
                 [] o = "occ" -> "php occ"
                 [] o = "worker-timeout" -> "300"
                 [] o = "database-url" -> FileDatabase(args.file)
  <2> HIDE DEF flag, var, byFlag, byEnv, e
  <2>12. ASSUME NEW o \in Options \ {"config"}
         PROVE  /\ byFlag(o) => Got(o) = Means(o, flag(o))
                /\ byEnv(o) => Got(o) = Means(o, var(o))
                /\ ~byFlag(o) /\ ~byEnv(o) => Got(o) = otherwise(o)
    <3>1. \/ o = "database-prefix" \/ o = "nextcloud-url" \/ o = "occ-dir"
          \/ o = "occ" \/ o = "worker-timeout" \/ o = "database-url"
      BY DEF Options
    <3>2. CASE o = "database-prefix"
      BY <2>6, <3>2 DEF Got, Means
    <3>3. CASE o = "nextcloud-url"
      BY <2>7, <3>3 DEF Got, Means
    <3>4. CASE o = "occ-dir"
      BY <2>8, <3>4 DEF Got, Means
    <3>5. CASE o = "occ"
      BY <2>10, <3>5 DEF Got, Means
    <3>6. CASE o = "worker-timeout"
      BY <2>11, <3>6 DEF Got, Means
    <3>7. CASE o = "database-url"
      BY <2>9, <3>7 DEF Got, Means
    <3> QED BY ONLY <3>1, <3>2, <3>3, <3>4, <3>5, <3>6, <3>7
  <2> HIDE DEF otherwise
  <2> QED BY <2>12, Zenon DEF PrecedenceKept, file, flag, var, byFlag, byEnv, e, otherwise
<1> QED BY <1>1, MainInductive, PTL

\* README.md:115: for any arguments, the program goes on when nothing is missing or
\* wrong, and exits with code 2 only when something is.
THEOREM RefusalsRight == MainSpec => []RefusedIffIncomplete
<1>1. MainIInv => RefusedIffIncomplete
  <2> SUFFICES ASSUME MainIInv PROVE RefusedIffIncomplete
    OBVIOUS
  <2> DEFINE file == {args.flag["config"], args.env["config"]} \ {Unset, ""} # {}
             url == Chosen(args, "database-url")
             complete ==
               /\ file => Loads(args.file)
               /\ url # "" => UrlDatabase(url) # NoDatabase
               /\ file \/ url # ""
               /\ (file /\ args.file.url # "") \/ Chosen(args, "nextcloud-url") # ""
               /\ Chosen(args, "occ") # "" /\ args.flag["worker-timeout"] \notin NoNumber
  <2>1. file <=> ConfigFile(args) # ""
    BY FileNamed
  <2>3. FromArgs(args).occ = Chosen(args, "occ")
    BY FromArgsFields
  <2>4. FromArgs(args).url = "" <=>
          ~((file /\ args.file.url # "") \/ Chosen(args, "nextcloud-url") # "")
    BY <2>1, FromArgsFields DEF Or
  <2>5. FromArgs(args).db = IF url # "" THEN UrlDatabase(url)
                            ELSE IF file THEN FileDatabase(args.file) ELSE NoDatabase
    BY <2>1, FromArgsFields
  <2> HIDE DEF file, url
  <2>6. ~Refuses(args) <=> complete
    BY <2>1, <2>3, <2>4, <2>5 DEF Refuses, Loads, url
  <2> HIDE DEF complete
  <2>7. /\ place \in {"open", "occ"} => complete
        /\ code = "2" => ~complete
    BY <2>6 DEF MainIInv, StartSound
  <2> QED BY <2>7 DEF RefusedIffIncomplete, complete, file, url
<1> QED BY <1>1, MainInductive, PTL

\* config.go:172-174: for any dbhost, MySQL is reached as the four forms of the
\* comment mean.
THEOREM HostsUnderstood == MainSpec => []HostUnderstood
<1>1. MainIInv => HostUnderstood
  <2> SUFFICES ASSUME MainIInv, place = "open", conf.db.driver = "mysql",
                      conf.db.endpoint.net # "url"
               PROVE  HostUnderstood
    BY DEF HostUnderstood
  <2>1. conf = FromArgs(args) /\ ~Refuses(args) /\ args \in ArgumentSets
    BY DEF MainIInv, StartSound
  <2>2. conf.db = FileDatabase(args.file)
    BY <2>1, FromArgsFields, NotRefused, Drivers
  <2>3. conf.db.endpoint = MySQLEndpoint(args.file.dbhost)
    BY <2>2, Drivers
  <2> DEFINE h == args.file.dbhost
             to == MySQLEndpoint(h)
  <2>4. /\ DOMAIN h = {"head", "colon", "tail"}
        /\ h.colon \in BOOLEAN
        /\ ~h.colon => h.tail = ""
    BY <2>1, MainAssumption
  <2>5. /\ Host(h).head = IF h.head = "" /\ ~h.colon THEN "localhost" ELSE h.head
        /\ Host(h).colon = h.colon
        /\ Host(h).tail = h.tail
    BY <2>4 DEF Host
  <2>6. ~(h.colon /\ h.head = "/socket") =>
          /\ to.net = "unix" <=> "/socket" \in {h.head, h.tail}
          /\ to.net = "unix" => to.host = "/socket"
          /\ to.net = "tcp" /\ h.tail # "" => to.host = h.head /\ to.port = h.tail
          /\ to.net = "tcp" /\ ~h.colon =>
               /\ to.host = IF h.head = "" THEN "localhost" ELSE h.head
               /\ to.port = "3306"
    BY <2>4, <2>5 DEF MySQLEndpoint, IsPath, Endpoint
  <2> QED BY <2>3, <2>6 DEF HostUnderstood
<1> QED BY <1>1, MainInductive, PTL

-----------------------------------------------------------------------------
(* The promise of the two cadences, its fairness left to the model checker. *)

\* What the refinement mapping makes of each place of main,
LEMMA ActivityIs ==
    /\ place = "ended" => Activity = "over"
    /\ place \in {"args", "open", "occ"} => Activity = "start"
    /\ place = "run" /\ phase \in {"first", "rearmFirst", "refresh", "rearm"} =>
         Activity = "refresh"
    /\ place = "run" /\ phase \in {"start", "select", "poll", "over"} => Activity = phase
<1>1. place = "ended" => Activity = "over"
  BY DEF Activity
<1>2. place \in {"args", "open", "occ"} => Activity = "start"
  BY DEF Activity
<1>3. place = "run" /\ phase \in {"first", "rearmFirst", "refresh", "rearm"} =>
        Activity = "refresh"
  BY DEF Activity
<1>4. place = "run" /\ phase \in {"start", "select", "poll", "over"} =>
        Activity = phase
  BY DEF Activity
<1> QED BY <1>1, <1>2, <1>3, <1>4

\* also after a step.
LEMMA ActivityBecomes ==
    /\ place' = "ended" => Activity' = "over"
    /\ place' \in {"args", "open", "occ"} => Activity' = "start"
    /\ place' = "run" /\ phase' \in {"first", "rearmFirst", "refresh", "rearm"} =>
         Activity' = "refresh"
    /\ place' = "run" /\ phase' \in {"start", "select", "poll", "over"} => Activity' = phase'
<1>1. place' = "ended" => Activity' = "over"
  BY DEF Activity
<1>2. place' \in {"args", "open", "occ"} => Activity' = "start"
  BY DEF Activity
<1>3. place' = "run" /\ phase' \in {"first", "rearmFirst", "refresh", "rearm"} =>
        Activity' = "refresh"
  BY DEF Activity
<1>4. place' = "run" /\ phase' \in {"start", "select", "poll", "over"} =>
        Activity' = phase'
  BY DEF Activity
<1> QED BY <1>1, <1>2, <1>3, <1>4

\* Each step of run is a step of the cadences or none.
LEMMA RunKeepsCadences ==
    ASSUME MainIInv, Run
    PROVE  [Promise!CadencesNext]_(Promise!cadenceVars)
<1>1. /\ place' = place /\ code' = code /\ code # "killed" /\ ctxDone \in BOOLEAN
      /\ phase # "start" => place = "run"
      /\ TimersNext
  BY DEF MainIInv, MainTypeOK, TimersIInv, TimersTypeOK, StartSound, Run, mainVars
<1>2. CASE Tick \/ ReadConfig \/ Save
  <2>1. ctxDone' = ctxDone
    BY <1>2 DEF Tick, ReadConfig, Save
  <2>2. \/ phase' = phase
        \/ phase \in {"first", "refresh"} /\ phase' \in {"rearmFirst", "rearm"}
    BY <1>2 DEF Tick, ReadConfig, Save
  <2>3. Activity' = Activity
    <3>1. CASE phase' = phase
      BY <1>1, <3>1 DEF Activity
    <3>2. CASE phase \in {"first", "refresh"} /\ phase' \in {"rearmFirst", "rearm"}
      BY <1>1, <3>2, ActivityIs, ActivityBecomes
    <3> QED BY <2>2, <3>1, <3>2
  <2> QED BY <1>1, <2>1, <2>3 DEF Promise!cadenceVars
<1>3. CASE ArmTimers \/ Rearm \/ EndPoll
  <2>1. ctxDone' = ctxDone
    BY <1>3 DEF ArmTimers, Rearm, EndPoll, GoOn
  <2>2. Activity \in {"refresh", "poll"} /\ Activity' = "select"
    BY <1>1, <1>3, ActivityIs, ActivityBecomes DEF ArmTimers, Rearm, EndPoll, GoOn
  <2> QED BY <1>1, <2>1, <2>2 DEF Promise!CadencesNext, Promise!End, Promise!Activities
<1>4. CASE TakeConfigTick
  <2>1. ctxDone' = ctxDone
    BY <1>4 DEF TakeConfigTick, GoOn
  <2>2. Activity = "select" /\ Activity' = "refresh"
    BY <1>1, <1>4, ActivityIs, ActivityBecomes DEF TakeConfigTick, GoOn
  <2>3. Promise!Begin("refresh")
    BY <1>1, <2>1, <2>2 DEF Promise!Begin
  <2> QED BY <2>3 DEF Promise!CadencesNext, Promise!Activities
<1>5. CASE TakePollTick
  <2>1. ctxDone' = ctxDone
    BY <1>5 DEF TakePollTick, GoOn
  <2>2. Activity = "select" /\ Activity' = "poll"
    BY <1>1, <1>5, ActivityIs, ActivityBecomes DEF TakePollTick, GoOn
  <2>3. Promise!Begin("poll")
    BY <1>1, <2>1, <2>2 DEF Promise!Begin
  <2> QED BY <2>3 DEF Promise!CadencesNext, Promise!Activities
<1>6. CASE Return
  <2>1. ctxDone /\ ctxDone' = ctxDone
    BY <1>6 DEF Return, GoOn
  <2>2. Activity = "select" /\ Activity' = "over"
    BY <1>1, <1>6, ActivityIs, ActivityBecomes DEF Return, GoOn
  <2> QED BY <1>1, <2>1, <2>2 DEF Promise!CadencesNext, Promise!Leave
<1>7. CASE Signal
  <2>1. ~ctxDone /\ ctxDone' /\ phase' = phase
    BY <1>7 DEF Signal
  <2>2. Activity' = Activity
    BY <1>1, <2>1 DEF Activity
  <2> QED BY <1>1, <2>1, <2>2 DEF Promise!CadencesNext, Promise!Stop
<1> QED BY <1>1, <1>2, <1>3, <1>4, <1>5, <1>6, <1>7 DEF TimersNext, RunStep

\* So is each step of main, and the end of main before run is called is one that the
\* promise allows.
LEMMA StepKeepsCadences ==
    ASSUME MainIInv, [MainNext]_allVars
    PROVE  [Promise!CadencesNext]_(Promise!cadenceVars)
<1>1. CASE LoadConfig \/ OpenDatabase \/ CheckOcc \/ Killed
  <2>1. /\ ctxDone' = ctxDone /\ place \in {"args", "open", "occ"}
        /\ code = "none" /\ ctxDone \in BOOLEAN
    BY <1>1 DEF MainIInv, MainTypeOK, TimersIInv, TimersTypeOK, LoadConfig, OpenDatabase,
                CheckOcc, Killed, Enter, timersVars
  <2>2. \/ place' = "ended"
        \/ place' \in {"open", "occ"} /\ code' = "none"
        \/ place' = "run" /\ phase' = "first" /\ code' = "none"
    BY <1>1, <2>1 DEF LoadConfig, OpenDatabase, CheckOcc, Killed, Enter, Exit, GoTo
  <2>3. CASE place' \in {"open", "occ"} /\ code' = "none"
    <3>1. Activity' = Activity
      BY <2>1, <2>3, ActivityIs, ActivityBecomes
    <3> QED BY <2>1, <2>3, <3>1 DEF Promise!cadenceVars
  <2>4. CASE place' = "ended" \/ (place' = "run" /\ phase' = "first" /\ code' = "none")
    <3>1. Activity = "start" /\ Activity' \in {"refresh", "over"}
      BY <2>1, <2>4, ActivityIs, ActivityBecomes
    <3> QED BY <2>1, <3>1 DEF Promise!CadencesNext, Promise!Enter
  <2> QED BY <2>2, <2>3, <2>4
<1>2. CASE Finish
  <2>1. Activity' = Activity
    BY <1>2, ActivityIs, ActivityBecomes DEF Finish, Exit
  <2>2. ctxDone' = ctxDone /\ code = "none" /\ code' = "0"
    BY <1>2 DEF Finish, Exit, timersVars, MainIInv, MainTypeOK
  <2> QED BY <2>1, <2>2 DEF Promise!cadenceVars
<1>3. CASE UNCHANGED allVars
  <2>1. UNCHANGED <<place, phase, ctxDone, code>>
    BY <1>3 DEF allVars, mainVars, timersVars
  <2>2. Activity' = Activity
    BY <2>1 DEF Activity
  <2> QED BY <2>1, <2>2 DEF Promise!cadenceVars
<1> QED BY <1>1, <1>2, <1>3, RunKeepsCadences DEF MainNext, MainStep

\* main.go:36-73, 113-161: whatever happens, main gives up or refreshes first and then
\* refreshes and polls one at a time, and it ends only where the promise lets it end.
THEOREM CadencesKept ==
    MainSpec => Promise!CadencesInit /\ [][Promise!CadencesNext]_(Promise!cadenceVars)
<1>1. MainInit => Promise!CadencesInit
  BY DEF MainInit, TimersInit, Promise!CadencesInit, Activity
<1> QED BY <1>1, StepKeepsCadences, MainInductive, PTL DEF MainSpec
=============================================================================
