--------------------------- MODULE MCSettingManager ---------------------------
(* Model checking of the settings: setting 1 is a child of the root, 2 a   *)
(* child of 1, and 3, 4 are ids that add can give out.                     *)
EXTENDS SettingManager

CONSTANTS t1, t2, c1, c2, a, b

MCThreads1 == {t1}
MCThreads2 == {t1, t2}
MCConns1   == {c1}
MCConns2   == {c1, c2}
MCValues   == {a, b}
MCFields1  == {"value"}
MCFields2  == {"name", "value"}
MCIds2 == 1 .. 2
MCIds3 == 1 .. 3
MCIds4 == 1 .. 4

Text(v) == [f \in Fields |-> v]
MCInitRows ==
  [i \in Ids |-> CASE i = 1 -> [parent |-> Root, text |-> Text(a)]
                   [] i = 2 -> [parent |-> 1, text |-> Text(a)]
                   [] OTHER -> NoRow]

SetOne(i, v) == [op |-> "setValues", values |-> (i :> v)]
SetTwo(v)    == [op |-> "setValues", values |-> [i \in {1, 2} |-> v]]
SetName(i, v) == [op |-> "setName", id |-> i, name |-> v]
AddUnder(i)  == [op |-> "add", id |-> i, text |-> Text(b)]
RemoveSetting(i)  == [op |-> "remove", id |-> i]
RemoveUnder(i) == [op |-> "removeChildren", id |-> i]

(* One request at a time: every kind of operation, but no request adds a   *)
(* setting below one that it removes (the removal does not see the added   *)
(* one, and the commit breaks the foreign key).                            *)
SerialOperations ==
  {SetOne(2, a), SetOne(2, b), SetTwo(b), SetName(1, b), AddUnder(0), AddUnder(3),
   RemoveSetting(1), RemoveSetting(2), RemoveUnder(1)}
UpdateOperations == {SetOne(1, b), SetOne(2, b), SetTwo(a)}
StructureOperations == {SetOne(2, b), AddUnder(1), RemoveSetting(1)}
ManyOperations == {SetOne(2, b), AddUnder(1), RemoveSetting(2)}
OneStatement == {SetOne(2, b)}
NoFaults == {}
AllFaults == FaultKinds
Symmetry == Permutations(MCThreads2) \cup Permutations(MCConns2)
ServiceFaults == {"service"}
SerialFaults  == {"service", "reconnect"}
===============================================================================
