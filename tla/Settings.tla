------------------------------ MODULE Settings ------------------------------
(***************************************************************************)
(* The way of a setting: the administrator's page (AdminSettings.vue), the *)
(* controller that stores what the page sends (ConfigController.setConfig),*)
(* the rows in oc_appconfig, and the supervisor's copy (GetConfig).        *)
(*                                                                         *)
(* The page shows three numbers and a switch.  An edit of a number starts  *)
(* the page's one timer, the switch saves at once, and a save sends all    *)
(* four values.  The controller stores them one row at a time, and goes on *)
(* with it when the page has given up waiting for the answer.  So saves    *)
(* that overlap, saves that fail half way, late rows of a save the page    *)
(* saw fail and the reads of the supervisor meet in any order.             *)
(***************************************************************************)
EXTENDS Naturals, Sequences, SequencesExt

CONSTANTS
    Values,    \* the numbers an administrator may store
    Default,   \* DefaultConfig, which equals the defaults of ConfigLexicon
    Refused,   \* a text that validate refuses: no number, or one below 1
    Absent,    \* a row that was never stored
    MaxEdits,  \* bound: how often the administrator edits
    MaxSaves   \* bound: how many saves the server works on at once

Numbers == {"max_workers", "poll_interval", "config_interval"}
Switch == "autoscale_enabled"   \* stored as "1" and "0"
Keys == Numbers \cup {Switch}

ASSUME SettingsAssumption ==
    /\ Values \subseteq Nat \ {0}
    /\ Refused \notin Nat /\ Absent \notin Nat
    /\ Default \in [Keys -> Nat]
    /\ \A k \in Keys : Default[k] \in IF k = Switch THEN {0, 1} ELSE Values
    /\ MaxEdits \in Nat /\ MaxSaves \in Nat \ {0}

VARIABLES
    shown,     \* the texts of the three fields, and config.enabled
    error,     \* whether the page shows an error
    debounce,  \* whether the timer of an edit runs
    requests,  \* the saves at the server: what each sends, how many rows it stored,
               \* and whether it is open, that is, whether the page waits for its answer
    rows,      \* oc_appconfig
    cfg,       \* the copy of the supervisor
    wanted,    \* the four values as the last edit left them
    edits,     \* how often the administrator edited
    crossed    \* whether the last edit came while the server still worked on a save,
               \* be it one the page waited for or one it had given up

page == <<shown, error, debounce>>
settingsVars == <<page, requests, rows, cfg, wanted, edits, crossed>>

Allowed(key) == IF key = Switch THEN {0, 1} ELSE Values

\* The rows as whoever reads them understands them.
Current == [k \in Keys |-> IF rows[k] = Absent THEN Default[k] ELSE rows[k]]

SettingsTypeOK ==
    /\ \A k \in Keys : {shown[k], wanted[k]} \subseteq Allowed(k) \cup {Refused}
    /\ error \in BOOLEAN /\ debounce \in BOOLEAN
    /\ \A i \in DOMAIN requests :
         /\ \A k \in Keys : requests[i].body[k] \in Allowed(k)
         /\ requests[i].stored \in 0 .. 4 /\ requests[i].open \in BOOLEAN
    /\ \A k \in Keys : rows[k] \in Allowed(k) \cup {Absent}
    /\ \A k \in Keys : cfg[k] \in Allowed(k)
    /\ edits \in 0 .. MaxEdits /\ crossed \in BOOLEAN

\* The page is loaded from rows that were all stored before, or never.
SettingsInit ==
    /\ rows \in {[k \in Keys |-> Absent], Default}
    /\ cfg = Default
    /\ shown = Default /\ wanted = Default
    /\ error = FALSE /\ debounce = FALSE
    /\ requests = <<>>
    /\ edits = 0 /\ crossed = FALSE

-----------------------------------------------------------------------------
(* The page.                                                                *)

Edits ==
    /\ edits < MaxEdits
    /\ edits' = edits + 1
    /\ crossed' = (requests # <<>>)
    /\ wanted' = shown'
    /\ UNCHANGED <<rows, cfg>>

\* A field accepts edits while the switch is on; onChange.
EditNumber ==
    /\ shown[Switch] = 1
    /\ \E n \in Numbers, text \in Values \cup {Refused} :
         shown' = [shown EXCEPT ![n] = text]
    /\ Edits
    /\ error' = FALSE
    /\ debounce' = TRUE
    /\ UNCHANGED requests

\* Seeded fault: one of the fields is not looked at.
ValidMutant(text) == \A n \in Numbers \ {"config_interval"} : text[n] # Refused

\* validate.
Valid(text) == \A n \in Numbers : text[n] # Refused

\* save, up to its await: it sends the switch as config holds it now.
BeginSave(text) ==
    IF Valid(text)
    THEN /\ Len(requests) < MaxSaves
         /\ requests' = Append(requests, [body |-> text, stored |-> 0, open |-> TRUE])
         /\ UNCHANGED error
    ELSE /\ error' = TRUE
         /\ UNCHANGED requests

\* Seeded fault: the save starts before the switch is set.
ToggleMutant ==
    /\ shown' = [shown EXCEPT ![Switch] = 1 - @]
    /\ Edits
    /\ BeginSave(shown)
    /\ UNCHANGED debounce

\* onToggleEnabled: a timer that runs goes on.
Toggle ==
    /\ shown' = [shown EXCEPT ![Switch] = 1 - @]
    /\ Edits
    /\ BeginSave(shown')
    /\ UNCHANGED debounce

DebounceEnds ==
    /\ debounce
    /\ debounce' = FALSE
    /\ BeginSave(shown)
    /\ UNCHANGED <<shown, rows, cfg, wanted, edits, crossed>>

\* The answer, which repeats the four values sent, replaces what the page shows.
SaveSucceeds ==
    \E i \in DOMAIN requests :
      /\ requests[i].open /\ requests[i].stored = 4
      /\ shown' = requests[i].body
      /\ requests' = RemoveAt(requests, i)
      /\ UNCHANGED <<error, debounce, rows, cfg, wanted, edits, crossed>>

\* The catch of save: an error was answered, or the answer was lost or came too late
\* for a gateway.  It ends the wait of the page and nothing else.
SaveFails ==
    \E i \in DOMAIN requests :
      /\ requests[i].open
      /\ error' = TRUE
      /\ requests' = [requests EXCEPT ![i].open = FALSE]
      /\ UNCHANGED <<shown, debounce, rows, cfg, wanted, edits, crossed>>

-----------------------------------------------------------------------------
(* The controller and the supervisor.                                       *)

\* Seeded fault: the switch is stored before the numbers.
StoreOrderMutant ==
    <<Switch, "max_workers", "poll_interval", "config_interval">>

StoreOrder ==
    <<"max_workers", "poll_interval", "config_interval", Switch>>

\* One setter of AppConfig.  The page has made sure that every number is allowed,
\* so setConfig does not refuse and max(1, value) is the value.
StoreRow ==
    \E i \in DOMAIN requests :
      /\ requests[i].stored < 4
      /\ LET key == StoreOrder[requests[i].stored + 1]
         IN rows' = [rows EXCEPT ![key] = requests[i].body[key]]
      /\ requests' = [requests EXCEPT ![i].stored = @ + 1]
      /\ UNCHANGED <<page, cfg, wanted, edits, crossed>>

\* The server is done with a save the page has given up: all rows are stored, one of
\* the queries failed, or the request never got there.  Rows stored stay stored.
ServerEnds ==
    \E i \in DOMAIN requests :
      /\ ~requests[i].open
      /\ requests' = RemoveAt(requests, i)
      /\ UNCHANGED <<page, rows, cfg, wanted, edits, crossed>>

\* Seeded fault: the query looks for the switch under another key.
GetConfigMutant ==
    /\ cfg' = [Current EXCEPT ![Switch] = Default[Switch]]
    /\ UNCHANGED <<page, requests, rows, wanted, edits, crossed>>

\* One query finds the rows as they are at one moment.  A read that fails keeps
\* the copy, and is a step that changes nothing.
GetConfig ==
    /\ cfg' = Current
    /\ UNCHANGED <<page, requests, rows, wanted, edits, crossed>>

-----------------------------------------------------------------------------
SettingsNext ==
    \/ EditNumber \/ Toggle
    \/ DebounceEnds \/ SaveSucceeds \/ SaveFails
    \/ StoreRow \/ ServerEnds
    \/ GetConfig

\* The timer fires, the server works on every request, the wait of the page ends, and
\* not every read of the supervisor fails.  A save is never certain to succeed, nor is
\* it certain when the server is done with one the page has given up.
SettingsSpec ==
    /\ SettingsInit /\ [][SettingsNext]_settingsVars
    /\ WF_settingsVars(DebounceEnds)
    /\ WF_settingsVars(StoreRow)
    /\ WF_settingsVars(SaveSucceeds \/ SaveFails)
    /\ WF_settingsVars(GetConfig)

-----------------------------------------------------------------------------
(* Properties.                                                              *)

\* AdminSettings.vue:150-162: when the page is at rest and shows no error, the rows
\* hold what it was left with, also when the save of a switch and the save of an edit
\* overlapped, and whatever became of the saves before: they may have crossed each
\* other, stopped half way or been given up.  Only the last edit must not have come
\* while the server still worked on a save, see NoEditLost.
EditsStored ==
    (\A i \in DOMAIN requests : ~requests[i].open) /\ ~debounce /\ ~error /\ ~crossed
      => Current = wanted

\* ConfigController.php:95-106: the rows of one save are stored one by one, but the
\* scaler is never switched on in the database before the numbers that go with it
\* are there, not by a save the page has given up either: no read of the supervisor
\* starts workers by numbers of an older save.  The last edit is as in EditsStored.
SwitchedOnComplete ==
    [][Current[Switch] = 0 /\ Current'[Switch] = 1 /\ ~crossed
         => \A n \in Numbers : Current'[n] = wanted[n]]_settingsVars

\* README.md:181: an edit becomes effective without a restart: once the administrator
\* leaves the page alone, the supervisor comes to hold what it was left with and keeps
\* that, or the page shows an error, whatever became of the saves before.  The last
\* edit is as in EditsStored.
EditTakesEffect == <>[](crossed \/ error \/ cfg = wanted)

-----------------------------------------------------------------------------
(* What the documentation says and the code does not do.                    *)

\* README.md:181: "A restart is not necessary. [...] The supervisor uses the new
\* value at the next config reload interval": no valid edit is lost, whenever it is
\* made.
NoEditLost ==
    requests = <<>> /\ ~debounce /\ ~error /\ Valid(wanted) => Current = wanted

-----------------------------------------------------------------------------
(* The inductive invariant the safety properties above follow from.         *)

\* Every text has its place: the page, the requests and the rows have the four keys.
FourKeys ==
    LET values == [Keys -> Values \cup {0, 1, Refused, Absent}]
    IN  /\ {shown, wanted, rows} \subseteq values
        /\ requests \in Seq([body : values, stored : 0 .. 4, open : BOOLEAN])
        /\ {shown[Switch], wanted[Switch]} \subseteq {0, 1}

\* After an edit that crossed no save the page shows what it was left with, every save
\* at the server, open or not, sends just that, and the rows it has stored so far hold
\* it: no other save is between.  A save the page has given up left its error there.
SavesAgree ==
    ~crossed =>
      /\ shown = wanted
      /\ \A i \in DOMAIN requests :
           /\ requests[i].body = wanted /\ (requests[i].open \/ error)
           /\ \A n \in 1 .. requests[i].stored :
                rows[StoreOrder[n]] = wanted[StoreOrder[n]]

SettingsIInv == SettingsTypeOK /\ FourKeys /\ SavesAgree /\ EditsStored
=============================================================================
