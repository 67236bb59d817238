-------------------------------- MODULE Main --------------------------------
(***************************************************************************)
(* The supervisor's main (cmd/supervisor/main.go): it reads its start-up   *)
(* configuration, opens the database, checks that occ can be run, and      *)
(* calls run, whose timers are module Timers.  SIGTERM kills it before     *)
(* NotifyContext and cancels the context from then on.                     *)
(***************************************************************************)
EXTENDS Timers, StartConfig

CONSTANTS
    ArgumentSets  \* the arguments the program may be started with

\* A dbhost with no colon in it has nothing behind one.
ASSUME MainAssumption ==
    \A a \in ArgumentSets :
        /\ DOMAIN a.flag = Options /\ DOMAIN a.env = Options
        /\ DOMAIN a.file.dbhost = {"head", "colon", "tail"}
        /\ a.file.dbhost.colon \in BOOLEAN
        /\ ~a.file.dbhost.colon => a.file.dbhost.tail = ""

VARIABLES
    place,  \* where main is
    args,   \* the arguments, which nobody reads after the start
    conf,   \* the Config of FromArgs, likewise
    code    \* the exit code

mainVars == <<place, args, conf, code>>
allVars == <<mainVars, timersVars>>

MainTypeOK ==
    /\ place \in {"args", "open", "occ", "run", "ended"}
    /\ place = "run" => args = NoArguments
    /\ conf.timeout \notin NoNumber
    /\ conf.db.driver \in {"none", "mysql", "postgres", "sqlite3"}
    /\ place \in {"open", "occ"} => NoDatabase # conf.db /\ "" \notin {conf.url, conf.occ}
    /\ code \in {"none", "0", "1", "2", "killed"}
    /\ (code = "none") <=> (place # "ended")
    /\ TimersTypeOK

MainInit ==
    /\ place = "args"
    /\ args \in ArgumentSets
    /\ conf = NoConf
    /\ code = "none"
    /\ TimersInit

-----------------------------------------------------------------------------
Exit(status) ==
    /\ place' = "ended"
    /\ code' = status
    /\ UNCHANGED <<args, conf>>

GoTo(next) ==
    /\ place' = next
    /\ UNCHANGED code

LoadConfig ==
    /\ place = "args"
    /\ IF Refuses(args)
       THEN Exit("2")
       ELSE GoTo("open") /\ conf' = FromArgs(args) /\ UNCHANGED args
    /\ UNCHANGED timersVars

\* db.Open: the driver may refuse the address, and the ping may fail.
OpenDatabase ==
    /\ place = "open"
    /\ \/ GoTo("occ") /\ UNCHANGED <<args, conf>>
       \/ Exit("1")
    /\ UNCHANGED timersVars

\* Before NotifyContext a signal has its default effect.
Killed ==
    /\ place \in {"args", "open"}
    /\ Exit("killed")
    /\ UNCHANGED timersVars

\* occ fails, runs for 60 seconds, or is killed because the context was cancelled.
CheckOcc ==
    /\ place = "occ"
    /\ \/ GoTo("run") /\ args' = NoArguments /\ conf' = NoConf /\ Enter
       \/ Exit("1") /\ UNCHANGED timersVars

\* While occ is checked the signal is all that happens to the context.
Run ==
    /\ place \in {"occ", "run"}
    /\ TimersNext
    /\ UNCHANGED mainVars

\* After run: Shutdown, module WorkerPool's, and the end.
Finish ==
    /\ place = "run"
    /\ phase = "over"
    /\ Exit("0")
    /\ UNCHANGED timersVars

MainStep == LoadConfig \/ OpenDatabase \/ CheckOcc \/ Finish

MainNext == MainStep \/ Killed \/ Run

\* main goes on: a ping gives up, and so does occ after its 60 seconds.
MainSpec ==
    /\ MainInit /\ [][MainNext]_allVars
    /\ WF_allVars(MainStep)
    /\ TimersFairness

-----------------------------------------------------------------------------
(* Properties.                                                              *)

\* A text that sets an option to nothing.
Nothing(o) == {Unset, ""} \cup IF o = "worker-timeout" THEN NoNumber ELSE {}

\* What main goes on with as an option, and what a text stands for.
Got(o) ==
    CASE o = "database-prefix" -> conf.prefix
      [] o = "nextcloud-url" -> conf.url
      [] o = "occ-dir" -> conf.occDir
      [] o = "occ" -> conf.occ
      [] o = "worker-timeout" -> conf.timeout
      [] o = "database-url" -> conf.db

Means(o, text) == IF o = "database-url" THEN UrlDatabase(text) ELSE text

\* README.md:113-121, config.go:43: "Flags override values derived from config.php",
\* and the environment stands in for a flag that is not given: each of the six values
\* is what its flag says, without such a flag what its environment variable says, and
\* only when neither says anything what config.php holds, or the default.  An empty
\* flag hides the environment variable and leaves the value to config.php.
PrecedenceKept ==
    place \in {"open", "occ"} =>
      LET file == {args.flag["config"], args.env["config"]} \ {Unset, ""} # {}
          otherwise(o) ==
            CASE o = "database-prefix" ->
                   IF file /\ args.file.prefix # "" THEN args.file.prefix ELSE "oc_"
              [] o = "nextcloud-url" -> args.file.url
              [] o = "occ-dir" -> IF file THEN "root of config.php" ELSE ""
              [] o = "occ" -> "php occ"
              [] o = "worker-timeout" -> "300"
              [] o = "database-url" -> FileDatabase(args.file)
          byFlag(o) == args.flag[o] \notin Nothing(o)
          byEnv(o) == args.flag[o] = Unset /\ args.env[o] \notin Nothing(o)
      IN \A o \in Options \ {"config"} :
           /\ byFlag(o) => Got(o) = Means(o, args.flag[o])
           /\ byEnv(o) => Got(o) = Means(o, args.env[o])
           /\ ~byFlag(o) /\ ~byEnv(o) => Got(o) = otherwise(o)

\* README.md:115: config.php "is necessary, if you do not give all the other values",
\* from flags or from the environment, NC_CONFIG_FILE included: the program refuses
\* its start with code 2 when something is missing or wrong, and only then.
RefusedIffIncomplete ==
    LET file == {args.flag["config"], args.env["config"]} \ {Unset, ""} # {}
        url == Chosen(args, "database-url")
        complete ==
          /\ file => Loads(args.file)
          /\ url # "" => UrlDatabase(url) # NoDatabase
          /\ file \/ url # ""
          /\ (file /\ args.file.url # "") \/ Chosen(args, "nextcloud-url") # ""
          /\ Chosen(args, "occ") # "" /\ args.flag["worker-timeout"] \notin NoNumber
    IN /\ place \in {"open", "occ"} => complete
       /\ code = "2" => ~complete

\* config.go:172-174: "Nextcloud allows dbhost to be "host", "host:port",
\* "host:/path/to.sock" or a bare socket path": each is understood as it is meant.
HostUnderstood ==
    place = "open" /\ conf.db.driver = "mysql" /\ conf.db.endpoint.net # "url" =>
      LET h == args.file.dbhost
          to == conf.db.endpoint
          legal == ~(h.colon /\ h.head = "/socket")
      IN legal =>
         /\ to.net = "unix" <=> "/socket" \in {h.head, h.tail}
         /\ to.net = "unix" => to.host = "/socket"
         /\ to.net = "tcp" /\ h.tail # "" => to.host = h.head /\ to.port = h.tail
         /\ to.net = "tcp" /\ ~h.colon =>
              /\ to.host = IF h.head = "" THEN "localhost" ELSE h.head
              /\ to.port = "3306"

Activity ==
    CASE place = "ended" -> "over"
      [] place \in {"args", "open", "occ"} -> "start"
      [] place = "run" /\ phase \in {"first", "rearmFirst", "refresh", "rearm"} -> "refresh"
      [] OTHER -> phase

Promise == INSTANCE Cadences WITH phase <- Activity, stopping <- ctxDone \/ code = "killed"

\* main.go:36-73, 113-161: main gives up or calls run, the two timers,
\* re-armed as they are, keep both cadences going until the signal, and the signal
\* ends the check of occ, or run.
KeepsCadences == Promise!CadencesSpec

-----------------------------------------------------------------------------
(* The inductive invariant the safety properties above follow from.         *)

\* What main went on with is what it read, and what it refused was refusable.
StartSound ==
    /\ place \in {"args", "open", "occ"} => args \in ArgumentSets
    /\ place \in {"open", "occ"} => conf = FromArgs(args) /\ ~Refuses(args)
    /\ code = "2" => Refuses(args)
    /\ place \in {"args", "open", "occ"} => phase = "start"

MainIInv == MainTypeOK /\ StartSound /\ TimersIInv
=============================================================================
