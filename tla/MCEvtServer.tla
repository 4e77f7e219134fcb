----------------------------- MODULE MCEvtServer -----------------------------
(***************************************************************************)
(* Instances of EvtServer for TLC.                                         *)
(***************************************************************************)
EXTENDS EvtServer

CONSTANTS c1, c2, t1, t2, t3, k

New(t) == [top |-> t, key |-> k, cmd |-> CmdNew]
Mod(t) == [top |-> t, key |-> k, cmd |-> "mod"]

\* Two topics: one event of either, or both in one transaction.
FeedTranss  == {<<Mod(t1)>>, <<Mod(t1), Mod(t2)>>}
FeedBatches == {<< <<Mod(t1)>>, <<Mod(t2)>> >>}

\* One topic with a record that is created and changed.
MonTranss   == {<<New(t1)>>, <<Mod(t1)>>}
KeySig      == [top |-> t1, key |-> k]
AnyNewSig   == [top |-> t1, key |-> CmdNew]
OneWatch    == {{KeySig, AnyNewSig}}
OneTrans    == {<<New(t1)>>}

ThreeTranss == {<<Mod(t1)>>, <<Mod(t2)>>, <<Mod(t3)>>}

\* A host that serves no satellites.
NoSatServices == ServerServices \ {"evt.sat"}

\* A satellite with one offline transaction.
OneBatch == {<< <<Mod(t1)>> >>}

NoBatches == {}
NoWatches == {}

\* The clock stands still, or reads a time between two milliseconds.
Clock     == {0, 5}
StillClock == {0}

AllServices == ServerServices

\* The table Server.Run really takes: the promoted method of Ctrl.
RunServices == CtrlServices
Symmetry == Permutations({c1, c2})
=============================================================================
