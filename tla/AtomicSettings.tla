---------------------------- MODULE AtomicSettings ----------------------------
(***************************************************************************)
(* What the settings store promises its callers: one record that changes   *)
(* by whole operations, one at a time, and provider keys that stay what    *)
(* the user entered: a generation of a provider names one URL, one driver  *)
(* and one key.  There is no cache, no encryption, no file format, no      *)
(* failure and no crash here: SettingsStore has those and implements this. *)
(***************************************************************************)
EXTENDS Naturals

CONSTANTS Ids,            \* provider ids that may be drawn
          Urls,           \* base URLs
          Drivers,        \* driver ids
          Keys,           \* API keys a user can enter
          Fields,         \* the other settings, each with a default value 0
          MaxGeneration   \* Number.MAX_SAFE_INTEGER

None == "none"
NoRow == [url |-> None, driver |-> None, generation |-> 0, key |-> None]
Row == [url : Urls, driver : Drivers, generation : 1 .. MaxGeneration, key : Keys \cup {None}]
Settings == [providers : [Ids -> Row \cup {NoRow}], active : Ids \cup {None},
             values : [Fields -> {0, 1}]]

VARIABLE settings

Init == settings \in Settings

Exists(p) == settings.providers[p] # NoRow

AddProvider(p) ==
    /\ ~Exists(p)
    /\ \E row \in Row : /\ row.generation = 1
                        /\ settings' = [settings EXCEPT !.providers[p] = row]

(* Whatever is changed about a provider, its generation moves with it.     *)
EditProvider(p) ==
    /\ Exists(p)
    /\ \E row \in Row : /\ row.generation = settings.providers[p].generation + 1
                        /\ settings' = [settings EXCEPT !.providers[p] = row]

RemoveProvider(p) ==
    settings' = [settings EXCEPT !.providers[p] = NoRow,
                                 !.active = IF @ = p THEN None ELSE @]

SaveSettings(active, change) ==
    /\ active # None => Exists(active)
    /\ settings' = [settings EXCEPT !.active = active,
                                    !.values = [f \in Fields |-> IF f \in DOMAIN change
                                                                 THEN change[f] ELSE @[f]]]

SaveField(f, v) == settings' = [settings EXCEPT !.values[f] = v]

Next ==
    \/ \E p \in Ids : AddProvider(p) \/ EditProvider(p) \/ RemoveProvider(p)
    \/ \E active \in Ids \cup {None}, S \in SUBSET Fields :
         \E change \in [S -> {0, 1}] : SaveSettings(active, change)
    \/ \E f \in Fields, v \in {0, 1} : SaveField(f, v)

Spec == Init /\ [][Next]_settings
=============================================================================
