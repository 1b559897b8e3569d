---------------------------- MODULE MCSettingsStore ---------------------------
(* A file of the first version, with a key of the synchronous safe storage, *)
(* and a later one with two providers.                                     *)
EXTENDS SettingsStore

CONSTANTS p1, p2, u, v, d, k, l

Safe == [broker |-> FALSE, keyId |-> 0]
BuildsOfAllKinds == {Safe} \cup [broker : {TRUE}, keyId : {1, 2}]

Stored(format, url, text) ==
    [url |-> url, driver |-> d, generation |-> 1,
     cipher |-> [format |-> format, keyId |-> 0, text |-> text, context |-> NoContext]]
Left(version, rows) ==
    [state |-> "written", version |-> version,
     data |-> [providers |-> rows, active |-> p2, values |-> [f \in Fields |-> 1]]]
FirstAndLater ==
    {Left(1, [i \in Ids |-> IF i = p2 THEN Stored("sync", u, k) ELSE NoRow]),
     Left(3, [i \in Ids |-> IF i = p2 THEN Stored("async", u, k) ELSE Stored("sync", v, l)])}
=============================================================================
