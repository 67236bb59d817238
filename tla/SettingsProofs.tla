--------------------------- MODULE SettingsProofs ---------------------------
(***************************************************************************)
(* Proofs about the way of a setting, for any numbers an administrator may *)
(* store, any number of edits and any number of saves under way at once.   *)
(***************************************************************************)
EXTENDS Settings, SequenceTheorems, TLAPS

Texts == Values \cup {0, 1, Refused, Absent}
Bodies == [Keys -> Texts]
Requests == [body : Bodies, stored : 0 .. 4, open : BOOLEAN]

-----------------------------------------------------------------------------
(* Keys and requests.                                                       *)

\* The four rows of a save are the four keys, the switch the last of them.
LEMMA FourRows ==
    /\ \A n \in 1 .. 4 : StoreOrder[n] \in Keys
    /\ \A k \in Keys : \E n \in 1 .. 4 : StoreOrder[n] = k
    /\ \A n \in 1 .. 3 : StoreOrder[n] # Switch
    /\ \A k \in Numbers : \E n \in 1 .. 3 : StoreOrder[n] = k
    /\ StoreOrder[4] = Switch
    /\ Numbers \subseteq Keys /\ Switch \in Keys /\ Switch \notin Numbers
<1>1. /\ StoreOrder[1] = "max_workers" /\ StoreOrder[2] = "poll_interval"
      /\ StoreOrder[3] = "config_interval" /\ StoreOrder[4] = Switch
  BY DEF StoreOrder
<1>2. /\ \A n \in 1 .. 4 : n = 1 \/ n = 2 \/ n = 3 \/ n = 4
      /\ \A n \in 1 .. 3 : n = 1 \/ n = 2 \/ n = 3
      /\ {1, 2, 3} \subseteq 1 .. 3 /\ {1, 2, 3, 4} \subseteq 1 .. 4
  OBVIOUS
<1> HIDE DEF StoreOrder
<1> QED BY <1>1, <1>2 DEF Keys, Numbers, Switch

\* A save at the server has a body of four texts, and is open or given up.
LEMMA OneRequest ==
    ASSUME NEW s \in Seq(Requests), NEW k \in DOMAIN s
    PROVE  s[k] \in Requests /\ s[k].body \in Bodies /\ s[k].open \in BOOLEAN
<1>1. s[k] \in Requests
  OBVIOUS
<1> QED BY <1>1 DEF Requests

\* A request that ends leaves the others as they are.
LEMMA OthersRemain ==
    ASSUME NEW S, NEW s \in Seq(S), NEW k \in DOMAIN s
    PROVE  /\ RemoveAt(s, k) \in Seq(S)
           /\ \A j \in DOMAIN RemoveAt(s, k) :
                \E i \in DOMAIN s : RemoveAt(s, k)[j] = s[i]
<1> DEFINE r == RemoveAt(s, k)
           a == SubSeq(s, 1, k - 1)
           b == SubSeq(s, k + 1, Len(s))
<1>1. Len(s) \in Nat /\ k \in 1 .. Len(s) /\ DOMAIN s = 1 .. Len(s)
  OBVIOUS
<1>2. /\ a \in Seq(S) /\ Len(a) = k - 1
      /\ \A i \in 1 .. k - 1 : a[i] = s[i]
  BY <1>1, SubSeqProperties
<1>3. /\ b \in Seq(S) /\ Len(b) = Len(s) - k
      /\ \A i \in 1 .. Len(s) - k : b[i] = s[k + i]
  BY <1>1, SubSeqProperties
<1>4. r = a \o b
  BY DEF RemoveAt
<1> HIDE DEF a, b, r
<1>5. /\ r \in Seq(S) /\ Len(r) = Len(s) - 1
      /\ \A i \in 1 .. Len(r) : r[i] = IF i < k THEN a[i] ELSE b[i - (k - 1)]
  <2>1. /\ r \in Seq(S) /\ Len(r) = Len(a) + Len(b)
        /\ \A i \in 1 .. Len(a) + Len(b) :
             r[i] = IF i <= Len(a) THEN a[i] ELSE b[i - Len(a)]
    BY ONLY <1>2, <1>3, <1>4, ConcatProperties
  <2>2. Len(a) + Len(b) = Len(s) - 1 /\ Len(a) = k - 1
    BY ONLY <1>1, <1>2, <1>3
  <2>3. ASSUME NEW i \in 1 .. Len(s) - 1
        PROVE  r[i] = IF i < k THEN a[i] ELSE b[i - (k - 1)]
    <3>1. r[i] = IF i <= k - 1 THEN a[i] ELSE b[i - (k - 1)]
      BY ONLY <2>1, <2>2, <2>3
    <3>2. i <= k - 1 <=> i < k
      BY <1>1, <2>3
    <3> QED BY ONLY <3>1, <3>2
  <2> QED BY ONLY <2>1, <2>2, <2>3
<1>6. ASSUME NEW j \in DOMAIN r PROVE \E i \in DOMAIN s : r[j] = s[i]
  <2>1. j \in 1 .. Len(s) - 1
    BY <1>5
  <2>2. CASE j < k
    BY <1>1, <1>2, <1>5, <2>1, <2>2
  <2>3. CASE j >= k
    <3>1. j - (k - 1) \in 1 .. Len(s) - k /\ k + (j - (k - 1)) = j + 1
      BY <1>1, <2>1, <2>3
    <3>2. r[j] = b[j - (k - 1)]
      BY <1>1, <1>5, <2>1, <2>3
    <3>3. r[j] = s[j + 1]
      BY ONLY <1>3, <3>1, <3>2
    <3>4. j + 1 \in DOMAIN s
      BY <1>1, <2>1
    <3> QED BY <3>3, <3>4
  <2> QED BY <1>1, <2>1, <2>2, <2>3
<1> QED BY <1>5, <1>6 DEF r

-----------------------------------------------------------------------------
(* The inductive invariant.                                                 *)

\* What FourKeys says of each variable.
LEMMA FourKeysMeans ==
    /\ FourKeys <=> /\ shown \in Bodies /\ wanted \in Bodies /\ rows \in Bodies
                    /\ requests \in Seq(Requests)
                    /\ shown[Switch] \in {0, 1} /\ wanted[Switch] \in {0, 1}
    /\ FourKeys' <=> /\ shown' \in Bodies /\ wanted' \in Bodies /\ rows' \in Bodies
                     /\ requests' \in Seq(Requests)
                     /\ shown'[Switch] \in {0, 1} /\ wanted'[Switch] \in {0, 1}
  BY DEF FourKeys, Bodies, Texts, Requests

\* The defaults are texts that may be stored.
LEMMA Defaults ==
    /\ Default \in Bodies
    /\ \A k \in Keys : Default[k] \in Allowed(k)
    /\ Default[Switch] \in {0, 1}
<1>1. \A k \in Keys : Default[k] \in IF k = Switch THEN {0, 1} ELSE Values
  BY SettingsAssumption
<1>2. \A k \in Keys : Default[k] \in Texts
  BY <1>1 DEF Texts
<1>3. Default \in [Keys -> Nat]
  BY SettingsAssumption
<1> QED BY <1>1, <1>2, <1>3, FourRows DEF Bodies, Allowed

\* The rows that hold what is wanted on every key are read as that.
LEMMA CurrentIs ==
    ASSUME wanted \in Bodies, \A k \in Keys : rows[k] = wanted[k] /\ rows[k] # Absent
    PROVE  Current = wanted
  BY DEF Current, Bodies

\* The page as it is loaded.
LEMMA SettingsInitial == SettingsInit => SettingsIInv
<1> SUFFICES ASSUME SettingsInit PROVE SettingsIInv
  OBVIOUS
<1>1. rows \in Bodies /\ \A k \in Keys : rows[k] \in Allowed(k) \cup {Absent}
  BY Defaults DEF SettingsInit, Bodies, Texts
<1>2. Current = Default
  BY Defaults DEF SettingsInit, Current, Bodies
<1>3. requests = <<>> /\ DOMAIN requests = {} /\ requests \in Seq(Requests)
  BY DEF SettingsInit
<1>4. error \in BOOLEAN /\ debounce \in BOOLEAN /\ crossed \in BOOLEAN
  BY DEF SettingsInit
<1>5. edits \in 0 .. MaxEdits
  BY SettingsAssumption DEF SettingsInit
<1>6. SettingsTypeOK
  BY <1>1, <1>3, <1>4, <1>5, Defaults DEF SettingsInit, SettingsTypeOK
<1>7. FourKeys
  BY <1>1, <1>3, Defaults, FourKeysMeans DEF SettingsInit
<1>8. SavesAgree /\ EditsStored
  BY <1>2, <1>3 DEF SettingsInit, SavesAgree, EditsStored
<1> QED BY <1>6, <1>7, <1>8 DEF SettingsIInv

\* A save begins, or the page shows an error.
LEMMA SaveBegins ==
    ASSUME NEW text \in Bodies, text[Switch] \in {0, 1},
           \A k \in Keys : text[k] \in Allowed(k) \cup {Refused},
           requests \in Seq(Requests), BeginSave(text)
    PROVE  /\ requests' \in Seq(Requests)
           /\ error' = TRUE \/ \E i \in DOMAIN requests' : requests'[i].open
           /\ error' = error \/ error' = TRUE
           /\ \A i \in DOMAIN requests' :
                \/ i \in DOMAIN requests /\ requests'[i] = requests[i]
                \/ /\ requests'[i].body = text /\ requests'[i].stored = 0
                   /\ requests'[i].open
                   /\ \A k \in Keys : text[k] \in Allowed(k)
<1>1. CASE Valid(text)
  <2> DEFINE r == [body |-> text, stored |-> 0, open |-> TRUE]
  <2>1. requests' = Append(requests, r) /\ error' = error
    BY <1>1 DEF BeginSave
  <2>2. r \in Requests /\ r.body = text /\ r.stored = 0 /\ r.open
    BY DEF Requests
  <2>3. \A k \in Keys : text[k] \in Allowed(k)
    BY <1>1, FourRows DEF Valid, Allowed, Keys
  <2> HIDE DEF r
  <2>4. /\ requests' \in Seq(Requests) /\ Len(requests') = Len(requests) + 1
        /\ \A i \in 1 .. Len(requests) : requests'[i] = requests[i]
        /\ requests'[Len(requests) + 1] = r
    BY <2>1, <2>2, AppendProperties
  <2>5. \A i \in DOMAIN requests' : i \in DOMAIN requests \/ i = Len(requests) + 1
    BY <2>4
  <2>6. Len(requests) + 1 \in DOMAIN requests'
    BY <2>4
  <2> QED BY <2>1, <2>2, <2>3, <2>4, <2>5, <2>6
<1>2. CASE ~Valid(text)
  BY <1>2 DEF BeginSave
<1> QED BY <1>1, <1>2

\* An edit that crosses no save finds none at the server.
LEMMA EditsUncrossed ==
    ASSUME SettingsTypeOK, Edits
    PROVE  /\ crossed' \in BOOLEAN /\ edits' \in 0 .. MaxEdits
           /\ ~crossed' => requests = <<>>
           /\ wanted' = shown' /\ rows' = rows /\ cfg' = cfg
<1>1. edits' \in 0 .. MaxEdits
  BY SettingsAssumption DEF SettingsTypeOK, Edits
<1>2. crossed' = (requests # <<>>) /\ wanted' = shown' /\ rows' = rows /\ cfg' = cfg
  BY DEF Edits
<1> QED BY <1>1, <1>2

\* A number is typed: no save is at the server, or the edit crosses it.
LEMMA EditNumberKeeps == ASSUME SettingsIInv, EditNumber PROVE SettingsIInv'
<1> USE DEF SettingsIInv
<1>1. PICK n \in Numbers, text \in Values \cup {Refused} :
        shown' = [shown EXCEPT ![n] = text]
  BY DEF EditNumber
<1>2. /\ shown \in Bodies /\ shown[Switch] \in {0, 1} /\ rows \in Bodies
      /\ requests \in Seq(Requests)
      /\ wanted' = shown' /\ requests' = requests /\ rows' = rows /\ cfg' = cfg
      /\ error' = FALSE /\ debounce' = TRUE
      /\ crossed' \in BOOLEAN /\ edits' \in 0 .. MaxEdits
      /\ ~crossed' => requests = <<>>
  BY EditsUncrossed, FourKeysMeans DEF EditNumber
<1>3. n \in Keys /\ n # Switch /\ Switch \in Keys
  BY FourRows
<1>4. /\ shown' \in Bodies /\ shown'[Switch] = shown[Switch] /\ shown'[n] = text
      /\ \A k \in Keys : k # n => shown'[k] = shown[k]
  BY <1>1, <1>2, <1>3 DEF Bodies, Texts
<1>5. SettingsTypeOK'
  <2>1. \A k \in Keys : {shown'[k], wanted'[k]} \subseteq Allowed(k) \cup {Refused}
    BY <1>2, <1>3, <1>4 DEF SettingsTypeOK, Allowed
  <2> QED BY <1>2, <2>1 DEF SettingsTypeOK
<1>6. FourKeys'
  BY <1>2, <1>4, FourKeysMeans
<1>7. SavesAgree'
  BY <1>2 DEF SavesAgree
<1>8. EditsStored'
  BY <1>2 DEF EditsStored
<1> QED BY <1>5, <1>6, <1>7, <1>8

\* The saves at the server keep their form when one begins.
LEMMA BegunIsTyped ==
    ASSUME NEW text \in Bodies, text[Switch] \in {0, 1},
           \A k \in Keys : text[k] \in Allowed(k) \cup {Refused},
           SettingsIInv, BeginSave(text)
    PROVE  /\ requests' \in Seq(Requests)
           /\ error' \/ \E i \in DOMAIN requests' : requests'[i].open
           /\ error' \in BOOLEAN
           /\ \A i \in DOMAIN requests' :
                /\ \A k \in Keys : requests'[i].body[k] \in Allowed(k)
                /\ requests'[i].stored \in 0 .. 4 /\ requests'[i].open \in BOOLEAN
<1>1. requests \in Seq(Requests)
  BY FourKeysMeans DEF SettingsIInv
<1>2. /\ requests' \in Seq(Requests)
      /\ error' = TRUE \/ \E i \in DOMAIN requests' : requests'[i].open
      /\ error' = error \/ error' = TRUE
  BY <1>1, SaveBegins
<1>3. \A i \in DOMAIN requests' :
        \/ i \in DOMAIN requests /\ requests'[i] = requests[i]
        \/ /\ requests'[i].body = text /\ requests'[i].stored = 0
           /\ requests'[i].open
           /\ \A k \in Keys : text[k] \in Allowed(k)
  BY <1>1, SaveBegins
<1>4. \A i \in DOMAIN requests' :
        /\ \A k \in Keys : requests'[i].body[k] \in Allowed(k)
        /\ requests'[i].stored \in 0 .. 4
  BY <1>3 DEF SettingsIInv, SettingsTypeOK
<1>5. \A i \in DOMAIN requests' : requests'[i].open \in BOOLEAN
  BY <1>2, OneRequest, Zenon
<1>6. error \in BOOLEAN
  BY DEF SettingsIInv, SettingsTypeOK
<1> QED BY ONLY <1>2, <1>4, <1>5, <1>6, Zenon

\* The switch is set and saved at once with what else is shown.
LEMMA ToggleKeeps == ASSUME SettingsIInv, Toggle PROVE SettingsIInv'
<1> USE DEF SettingsIInv
<1>1. /\ BeginSave(shown')
      /\ shown \in Bodies /\ shown[Switch] \in {0, 1} /\ rows \in Bodies
      /\ requests \in Seq(Requests)
      /\ wanted' = shown' /\ rows' = rows /\ cfg' = cfg /\ debounce' = debounce
      /\ shown' = [shown EXCEPT ![Switch] = 1 - @]
      /\ crossed' \in BOOLEAN /\ edits' \in 0 .. MaxEdits
      /\ ~crossed' => requests = <<>>
  BY EditsUncrossed, FourKeysMeans DEF Toggle
<1>2. Switch \in Keys
  BY FourRows
<1>3. /\ shown' \in Bodies /\ shown'[Switch] \in {0, 1}
      /\ \A k \in Keys : k # Switch => shown'[k] = shown[k]
  BY <1>1, <1>2 DEF Bodies, Texts
<1>4. \A k \in Keys : shown'[k] \in Allowed(k) \cup {Refused}
  BY <1>3 DEF SettingsTypeOK, Allowed
<1>5. /\ requests' \in Seq(Requests)
      /\ error' \/ \E i \in DOMAIN requests' : requests'[i].open
      /\ error' \in BOOLEAN
      /\ \A i \in DOMAIN requests' :
           /\ \A k \in Keys : requests'[i].body[k] \in Allowed(k)
           /\ requests'[i].stored \in 0 .. 4 /\ requests'[i].open \in BOOLEAN
  BY <1>1, <1>3, <1>4, BegunIsTyped
<1>6. SettingsTypeOK'
  BY <1>1, <1>4, <1>5 DEF SettingsTypeOK
<1>7. FourKeys'
  BY <1>1, <1>3, <1>5, FourKeysMeans
<1>8. SavesAgree'
  <2>1. ASSUME ~crossed', NEW i \in DOMAIN requests'
        PROVE  /\ requests'[i].body = wanted' /\ requests'[i].open
               /\ requests'[i].stored = 0
    <3>1. DOMAIN requests = {}
      BY <1>1, <2>1
    <3>2. i \notin DOMAIN requests
      BY <3>1
    <3>3. \A j \in DOMAIN requests' :
            \/ j \in DOMAIN requests /\ requests'[j] = requests[j]
            \/ /\ requests'[j].body = shown' /\ requests'[j].stored = 0
               /\ requests'[j].open
               /\ \A k \in Keys : shown'[k] \in Allowed(k)
      BY <1>1, <1>3, <1>4, SaveBegins
    <3>4. wanted' = shown'
      BY <1>1
    <3> QED BY <2>1, <3>2, <3>3, <3>4, Zenon
  <2>2. ASSUME ~crossed', NEW i \in DOMAIN requests'
        PROVE  requests'[i].body = wanted' /\ (requests'[i].open \/ error')
    BY <2>1, <2>2, Zenon
  <2>3. ASSUME ~crossed', NEW i \in DOMAIN requests', NEW n \in 1 .. requests'[i].stored
        PROVE  rows'[StoreOrder[n]] = wanted'[StoreOrder[n]]
    BY <2>1, <2>3
  <2> QED BY <1>1, <2>2, <2>3 DEF SavesAgree
<1>9. EditsStored'
  BY <1>5 DEF EditsStored
<1> QED BY <1>6, <1>7, <1>8, <1>9

\* The timer of an edit ends: what is shown is saved.
LEMMA DebounceEndsKeeps == ASSUME SettingsIInv, DebounceEnds PROVE SettingsIInv'
<1> USE DEF SettingsIInv
<1>1. /\ BeginSave(shown)
      /\ shown \in Bodies /\ wanted \in Bodies /\ rows \in Bodies
      /\ shown[Switch] \in {0, 1} /\ wanted[Switch] \in {0, 1}
      /\ requests \in Seq(Requests)
      /\ UNCHANGED <<shown, rows, cfg, wanted, edits, crossed>>
      /\ debounce' = FALSE
  BY FourKeysMeans DEF DebounceEnds
<1>2. \A k \in Keys : shown[k] \in Allowed(k) \cup {Refused}
  BY DEF SettingsTypeOK
<1>3. /\ requests' \in Seq(Requests)
      /\ error' \/ \E i \in DOMAIN requests' : requests'[i].open
      /\ error' \in BOOLEAN
      /\ \A i \in DOMAIN requests' :
           /\ \A k \in Keys : requests'[i].body[k] \in Allowed(k)
           /\ requests'[i].stored \in 0 .. 4 /\ requests'[i].open \in BOOLEAN
  BY <1>1, <1>2, BegunIsTyped
<1>4. SettingsTypeOK'
  BY <1>1, <1>3 DEF SettingsTypeOK
<1>5. FourKeys'
  BY <1>1, <1>3, FourKeysMeans
<1>6. SavesAgree'
  <2> SUFFICES ASSUME ~crossed
               PROVE  /\ shown = wanted
                      /\ \A i \in DOMAIN requests' :
                           /\ requests'[i].body = wanted
                           /\ requests'[i].open \/ error'
                           /\ \A n \in 1 .. requests'[i].stored :
                                rows[StoreOrder[n]] = wanted[StoreOrder[n]]
    BY <1>1 DEF SavesAgree
  <2>1. \A i \in DOMAIN requests' :
          \/ i \in DOMAIN requests /\ requests'[i] = requests[i]
          \/ /\ requests'[i].body = shown /\ requests'[i].stored = 0
             /\ requests'[i].open
    BY <1>1, <1>2, SaveBegins
  <2>2. error => error'
    BY <1>1 DEF BeginSave
  <2> QED BY <2>1, <2>2 DEF SavesAgree
<1>7. EditsStored'
  BY <1>3 DEF EditsStored
<1> QED BY <1>4, <1>5, <1>6, <1>7

\* The last save of edits that crossed nothing leaves the rows as they are wanted.
LEMMA SavedAsWanted ==
    ASSUME SettingsIInv, ~crossed, NEW i \in DOMAIN requests, requests[i].stored = 4
    PROVE  Current = wanted
<1>1. \A k \in Keys : requests[i].body[k] \in Allowed(k) /\ requests[i].body = wanted
  BY DEF SettingsIInv, SettingsTypeOK, SavesAgree
<1>2. \A n \in 1 .. 4 : rows[StoreOrder[n]] = wanted[StoreOrder[n]]
  BY DEF SettingsIInv, SavesAgree
<1>3. \A k \in Keys : rows[k] = wanted[k] /\ wanted[k] \in Nat
  <2>1. \A k \in Keys : rows[k] = wanted[k]
    BY <1>2, FourRows
  <2>2. \A k \in Keys : wanted[k] \in Allowed(k)
    BY <1>1
  <2>3. \A k \in Keys : Allowed(k) \subseteq Nat
    BY SettingsAssumption DEF Allowed
  <2> QED BY <2>1, <2>2, <2>3
<1>4. Absent \notin Nat
  BY SettingsAssumption
<1> QED BY <1>3, <1>4, CurrentIs, FourKeysMeans DEF SettingsIInv

\* A save ends: the page and the server are rid of it.
LEMMA EndedIsTyped ==
    ASSUME SettingsIInv, NEW i \in DOMAIN requests, requests' = RemoveAt(requests, i)
    PROVE  /\ requests' \in Seq(Requests)
           /\ \A j \in DOMAIN requests' :
                \E k \in DOMAIN requests : requests'[j] = requests[k]
           /\ \A j \in DOMAIN requests' :
                /\ \A k \in Keys : requests'[j].body[k] \in Allowed(k)
                /\ requests'[j].stored \in 0 .. 4 /\ requests'[j].open \in BOOLEAN
<1>1. requests \in Seq(Requests)
  BY FourKeysMeans DEF SettingsIInv
<1>2. /\ requests' \in Seq(Requests)
      /\ \A j \in DOMAIN requests' :
           \E k \in DOMAIN requests : requests'[j] = requests[k]
  BY <1>1, OthersRemain
<1> QED BY <1>2 DEF SettingsIInv, SettingsTypeOK

\* A save is answered.
LEMMA SaveSucceedsKeeps == ASSUME SettingsIInv, SaveSucceeds PROVE SettingsIInv'
<1> USE DEF SettingsIInv
<1>1. PICK i \in DOMAIN requests :
        /\ requests[i].stored = 4
        /\ shown' = requests[i].body
        /\ requests' = RemoveAt(requests, i)
        /\ UNCHANGED <<error, debounce, rows, cfg, wanted, edits, crossed>>
  BY DEF SaveSucceeds
<1>2. /\ wanted \in Bodies /\ rows \in Bodies /\ wanted[Switch] \in {0, 1}
      /\ requests \in Seq(Requests)
  BY FourKeysMeans
<1>3. /\ requests' \in Seq(Requests)
      /\ \A j \in DOMAIN requests' : \E k \in DOMAIN requests : requests'[j] = requests[k]
      /\ \A j \in DOMAIN requests' :
           /\ \A k \in Keys : requests'[j].body[k] \in Allowed(k)
           /\ requests'[j].stored \in 0 .. 4 /\ requests'[j].open \in BOOLEAN
  BY <1>1, EndedIsTyped
<1>4. /\ shown' \in Bodies /\ shown'[Switch] \in {0, 1}
      /\ \A k \in Keys : shown'[k] \in Allowed(k)
  BY <1>1, <1>2, OneRequest, FourRows DEF SettingsTypeOK, Allowed
<1>5. SettingsTypeOK'
  BY <1>1, <1>3, <1>4 DEF SettingsTypeOK
<1>6. FourKeys'
  BY <1>1, <1>2, <1>3, <1>4, FourKeysMeans
<1>7. SavesAgree'
  BY <1>1, <1>3 DEF SavesAgree
<1>8. EditsStored'
  <2> SUFFICES ASSUME ~crossed PROVE Current' = wanted'
    BY <1>1 DEF EditsStored
  <2>1. Current = wanted
    BY <1>1, SavedAsWanted
  <2>2. Current' = Current
    BY <1>1 DEF Current
  <2> QED BY <1>1, <2>1, <2>2
<1> QED BY <1>5, <1>6, <1>7, <1>8

\* The page gives a save up: its error shows, and the save goes on at the server.
LEMMA SaveFailsKeeps == ASSUME SettingsIInv, SaveFails PROVE SettingsIInv'
<1> USE DEF SettingsIInv
<1>1. PICK i \in DOMAIN requests :
        /\ error' = TRUE
        /\ requests' = [requests EXCEPT ![i].open = FALSE]
        /\ UNCHANGED <<shown, debounce, rows, cfg, wanted, edits, crossed>>
  BY DEF SaveFails
<1>2. /\ shown \in Bodies /\ wanted \in Bodies /\ rows \in Bodies
      /\ shown[Switch] \in {0, 1} /\ wanted[Switch] \in {0, 1}
      /\ requests \in Seq(Requests)
  BY FourKeysMeans
<1>3. /\ requests' \in Seq(Requests) /\ DOMAIN requests' = DOMAIN requests
      /\ \A j \in DOMAIN requests :
           /\ requests'[j].body = requests[j].body
           /\ requests'[j].stored = requests[j].stored
           /\ requests'[j].open \in BOOLEAN
  <2> DEFINE r == [requests[i] EXCEPT !.open = FALSE]
  <2>1. requests[i] \in Requests
    BY <1>2, OneRequest
  <2>2. /\ r \in Requests /\ r.body = requests[i].body
        /\ r.stored = requests[i].stored /\ r.open \in BOOLEAN
    BY <2>1 DEF Requests
  <2>3. requests' = [requests EXCEPT ![i] = r]
    BY <1>1
  <2> HIDE DEF r
  <2>4. /\ requests' \in Seq(Requests) /\ DOMAIN requests' = DOMAIN requests
        /\ requests'[i] = r
        /\ \A j \in DOMAIN requests : j # i => requests'[j] = requests[j]
    BY <1>2, <2>2, <2>3, ExceptSeq
  <2> QED BY <2>2, <2>4 DEF SettingsTypeOK
<1>4. SettingsTypeOK'
  BY <1>1, <1>3 DEF SettingsTypeOK
<1>5. FourKeys'
  BY <1>1, <1>2, <1>3, FourKeysMeans
<1>6. SavesAgree'
  BY <1>1, <1>3 DEF SavesAgree
<1>7. EditsStored'
  BY <1>1 DEF EditsStored
<1> QED BY <1>4, <1>5, <1>6, <1>7

\* The server is done with a save the page has given up: the error is still there, or
\* the last edit has crossed that save.
LEMMA ServerEndsKeeps == ASSUME SettingsIInv, ServerEnds PROVE SettingsIInv'
<1> USE DEF SettingsIInv
<1>1. PICK i \in DOMAIN requests :
        /\ ~requests[i].open
        /\ requests' = RemoveAt(requests, i)
        /\ UNCHANGED <<shown, error, debounce, rows, cfg, wanted, edits, crossed>>
  BY DEF ServerEnds, page
<1>2. /\ requests' \in Seq(Requests)
      /\ \A j \in DOMAIN requests' : \E k \in DOMAIN requests : requests'[j] = requests[k]
      /\ \A j \in DOMAIN requests' :
           /\ \A k \in Keys : requests'[j].body[k] \in Allowed(k)
           /\ requests'[j].stored \in 0 .. 4 /\ requests'[j].open \in BOOLEAN
  BY <1>1, EndedIsTyped
<1>3. SettingsTypeOK'
  BY <1>1, <1>2 DEF SettingsTypeOK
<1>4. FourKeys'
  BY <1>1, <1>2, FourKeysMeans
<1>5. SavesAgree'
  BY <1>1, <1>2 DEF SavesAgree
<1>6. EditsStored'
  <2>1. crossed \/ error
    BY <1>1 DEF SavesAgree
  <2> QED BY <1>1, <2>1 DEF EditsStored
<1> QED BY <1>3, <1>4, <1>5, <1>6

\* One more row of a save is stored, maybe late: it holds what is wanted.
LEMMA StoreRowKeeps == ASSUME SettingsIInv, StoreRow PROVE SettingsIInv'
<1> USE DEF SettingsIInv
<1>1. PICK i \in DOMAIN requests :
        /\ requests[i].stored < 4
        /\ LET key == StoreOrder[requests[i].stored + 1]
           IN  rows' = [rows EXCEPT ![key] = requests[i].body[key]]
        /\ requests' = [requests EXCEPT ![i].stored = @ + 1]
        /\ UNCHANGED <<page, cfg, wanted, edits, crossed>>
  BY DEF StoreRow
<1> DEFINE now == requests[i].stored + 1
           key == StoreOrder[now]
<1>2. /\ shown \in Bodies /\ wanted \in Bodies /\ rows \in Bodies
      /\ shown[Switch] \in {0, 1} /\ wanted[Switch] \in {0, 1}
      /\ requests \in Seq(Requests)
  BY FourKeysMeans
<1>3. now \in 1 .. 4 /\ key \in Keys
  BY <1>1, FourRows DEF SettingsTypeOK
<1>4. requests[i] \in Requests /\ requests[i].body[key] \in Texts
  <2>1. requests[i] \in Requests
    BY <1>2, OneRequest
  <2>2. requests[i].body \in Bodies
    BY <1>2, OneRequest
  <2> QED BY <1>3, <2>1, <2>2 DEF Bodies
<1> HIDE DEF now, key
<1>5. /\ rows' \in Bodies /\ rows'[key] = requests[i].body[key]
      /\ \A k \in Keys : k # key => rows'[k] = rows[k]
  BY <1>1, <1>2, <1>3, <1>4 DEF Bodies, now, key
<1>6. /\ requests' \in Seq(Requests) /\ DOMAIN requests' = DOMAIN requests
      /\ requests'[i].body = requests[i].body /\ requests'[i].stored = now
      /\ requests'[i].open = requests[i].open
      /\ \A j \in DOMAIN requests : j # i => requests'[j] = requests[j]
  <2> DEFINE r == [requests[i] EXCEPT !.stored = @ + 1]
  <2>1. r \in Requests /\ r.body = requests[i].body /\ r.stored = now
        /\ r.open = requests[i].open
    BY <1>3, <1>4 DEF Requests, now
  <2>2. requests' = [requests EXCEPT ![i] = r]
    BY <1>1
  <2> HIDE DEF r
  <2> QED BY <1>2, <2>1, <2>2, ExceptSeq
<1>7. SettingsTypeOK'
  <2>1. \A k \in Keys : rows'[k] \in Allowed(k) \cup {Absent}
    BY <1>3, <1>5 DEF SettingsTypeOK
  <2>2. \A j \in DOMAIN requests' :
          /\ \A k \in Keys : requests'[j].body[k] \in Allowed(k)
          /\ requests'[j].stored \in 0 .. 4 /\ requests'[j].open \in BOOLEAN
    BY <1>3, <1>6 DEF SettingsTypeOK
  <2> QED BY <1>1, <2>1, <2>2 DEF SettingsTypeOK, page
<1>8. FourKeys'
  BY <1>1, <1>2, <1>5, <1>6, FourKeysMeans DEF page
<1>9. SavesAgree'
  <2> SUFFICES ASSUME ~crossed', NEW j \in DOMAIN requests',
                      NEW n \in 1 .. requests'[j].stored
               PROVE  /\ shown' = wanted' /\ requests'[j].body = wanted'
                      /\ rows'[StoreOrder[n]] = wanted'[StoreOrder[n]]
    <3>1. ~crossed' => shown' = wanted'
      BY <1>1 DEF SavesAgree, page
    <3>2. ~crossed' => \A j \in DOMAIN requests' :
                         requests'[j].body = wanted' /\ (requests'[j].open \/ error')
      BY <1>1, <1>6 DEF SavesAgree, page
    <3> QED BY <3>1, <3>2 DEF SavesAgree
  <2>1. ~crossed /\ shown' = shown /\ wanted' = wanted
    BY <1>1 DEF page
  <2>2. requests'[j].body = wanted /\ requests[i].body = wanted /\ shown = wanted
    BY <1>6, <2>1 DEF SavesAgree
  <2>3. rows'[key] = wanted[key]
    BY <1>5, <2>2
  <2>4. n \in 1 .. 4 /\ StoreOrder[n] \in Keys
    BY <1>7, FourRows DEF SettingsTypeOK
  <2>5. StoreOrder[n] = key \/ rows[StoreOrder[n]] = wanted[StoreOrder[n]]
    <3>1. CASE j = i
      <4>1. n = now \/ n \in 1 .. requests[i].stored
        BY <1>6, <3>1, <2>4 DEF now, SettingsTypeOK
      <4> QED BY <4>1, <2>1 DEF SavesAgree, key
    <3>2. CASE j # i
      BY <1>6, <2>1, <3>2 DEF SavesAgree
    <3> QED BY <3>1, <3>2
  <2> QED BY <1>5, <2>1, <2>2, <2>3, <2>4, <2>5
<1>10. EditsStored'
  <2>1. requests'[i].open \/ crossed' \/ error'
    BY <1>1, <1>6 DEF SavesAgree, page
  <2> QED BY <1>6, <2>1 DEF EditsStored
<1> QED BY <1>7, <1>8, <1>9, <1>10

\* The supervisor reads the rows.
LEMMA GetConfigKeeps == ASSUME SettingsIInv, GetConfig PROVE SettingsIInv'
<1> USE DEF SettingsIInv
<1>1. /\ UNCHANGED <<shown, error, debounce, requests, rows, wanted, edits, crossed>>
      /\ cfg' = Current
  BY DEF GetConfig, page
<1>2. \A k \in Keys : cfg'[k] \in Allowed(k)
  BY <1>1, Defaults DEF Current, SettingsTypeOK
<1>3. Current' = Current
  BY <1>1 DEF Current
<1>4. SettingsTypeOK'
  BY <1>1, <1>2 DEF SettingsTypeOK
<1>5. FourKeys' /\ SavesAgree' /\ EditsStored'
  BY <1>1, <1>3, FourKeysMeans DEF SavesAgree, EditsStored
<1> QED BY <1>4, <1>5

\* No step.
LEMMA SettingsStutter == ASSUME SettingsIInv, UNCHANGED settingsVars PROVE SettingsIInv'
<1>1. UNCHANGED <<shown, error, debounce, requests, rows, cfg, wanted, edits, crossed>>
  BY DEF settingsVars, page
<1>2. Current' = Current
  BY <1>1 DEF Current
<1> QED BY <1>1, <1>2 DEF SettingsIInv, SettingsTypeOK, FourKeys, SavesAgree, EditsStored

\* AdminSettings.vue and ConfigController.setConfig with any number of saves that
\* overlap, fail half way, are given up by the page while the server goes on, or are
\* answered in any order: after an edit that met no save at the server, every save sends
\* what the page was left with and nothing else is stored, whatever happened before.
THEOREM SettingsInductive == SettingsSpec => []SettingsIInv
<1>1. SettingsIInv /\ [SettingsNext]_settingsVars => SettingsIInv'
  BY EditNumberKeeps, ToggleKeeps, DebounceEndsKeeps, SaveSucceedsKeeps,
     SaveFailsKeeps, StoreRowKeeps, ServerEndsKeeps, GetConfigKeeps, SettingsStutter DEF SettingsNext
<1> QED BY <1>1, SettingsInitial, PTL DEF SettingsSpec

\* The page, the requests, the rows and the copy of the supervisor keep their types:
\* nothing that validate refuses is ever sent or stored.
THEOREM SettingsTyped == SettingsSpec => []SettingsTypeOK
<1>1. SettingsIInv => SettingsTypeOK
  BY DEF SettingsIInv
<1> QED BY <1>1, SettingsInductive, PTL

\* AdminSettings.vue:150-162: a page at rest that shows no error has stored what it was
\* left with, if the last edit was not made while the server worked on a save.
THEOREM SettingsStored == SettingsSpec => []EditsStored
<1>1. SettingsIInv => EditsStored
  BY DEF SettingsIInv
<1> QED BY <1>1, SettingsInductive, PTL

\* ConfigController.php:95-106: the scaler is switched on in the database only when the
\* numbers that go with it are there, also by a save the page has given up; if the last
\* edit was not made while the server worked on a save.
THEOREM SwitchedOnLast == SettingsSpec => SwitchedOnComplete
<1>1. SettingsIInv /\ [SettingsNext]_settingsVars
        => [Current[Switch] = 0 /\ Current'[Switch] = 1 /\ ~crossed
              => \A n \in Numbers : Current'[n] = wanted[n]]_settingsVars
  <2> SUFFICES ASSUME SettingsIInv, SettingsNext,
                      Current[Switch] = 0, Current'[Switch] = 1, ~crossed, NEW m \in Numbers
               PROVE  Current'[m] = wanted[m]
    BY DEF settingsVars, page
  <2> USE DEF SettingsIInv
  <2>1. rows' # rows
    <3>1. rows' = rows => Current' = Current
      BY DEF Current
    <3> QED BY <3>1
  <2>2. StoreRow
    BY <2>1 DEF SettingsNext, EditNumber, Toggle, Edits, DebounceEnds, SaveSucceeds,
                SaveFails, ServerEnds, GetConfig
  <2>3. PICK i \in DOMAIN requests :
          /\ requests[i].stored < 4
          /\ LET key == StoreOrder[requests[i].stored + 1]
             IN  rows' = [rows EXCEPT ![key] = requests[i].body[key]]
    BY <2>2 DEF StoreRow
  <2>4. rows \in Bodies /\ m \in Keys /\ Switch \in Keys /\ m # Switch
    BY FourKeysMeans, FourRows
  <2>5. requests[i].stored + 1 \in 1 .. 4 /\ requests[i].stored \in 0 .. 3
    BY <2>3 DEF SettingsTypeOK
  <2>6. StoreOrder[requests[i].stored + 1] = Switch
    <3>1. rows'[Switch] # rows[Switch]
      BY <2>4 DEF Current
    <3> QED BY <2>3, <2>4, <3>1 DEF Bodies
  <2>7. requests[i].stored = 3
    <3>1. requests[i].stored + 1 \notin 1 .. 3
      BY <2>6, FourRows
    <3> QED BY <2>5, <3>1
  <2>8. \A n \in 1 .. 3 : rows[StoreOrder[n]] = wanted[StoreOrder[n]]
    BY <2>7 DEF SavesAgree
  <2>9. rows[m] = wanted[m]
    BY <2>8, FourRows
  <2>10. rows'[m] = rows[m]
    BY <2>3, <2>4, <2>6 DEF Bodies
  <2>11. wanted[m] # Absent
    <3>1. requests[i].body = wanted /\ requests[i].body[m] \in Allowed(m)
      BY <2>4 DEF SavesAgree, SettingsTypeOK
    <3> QED BY <3>1, <2>4, SettingsAssumption DEF Allowed
  <2> QED BY <2>4, <2>9, <2>10, <2>11 DEF Current
<1> QED BY <1>1, SettingsInductive, PTL DEF SettingsSpec, SwitchedOnComplete
=============================================================================
