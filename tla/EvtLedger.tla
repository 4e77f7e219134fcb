------------------------------ MODULE EvtLedger ------------------------------
(***************************************************************************)
(* The ledger of package evt as the event server sees it: a sequence of    *)
(* events ordered by revision, that grows by whole transactions.  An event *)
(* is its action and the revision it was published at, its id is its       *)
(* position.  Time is counted in clock ticks, Ms of them are one           *)
(* millisecond, and 0 is Go's zero time.  Arguments, users and the audit   *)
(* entry are left out: no subscriber tells two of them apart.              *)
(***************************************************************************)
EXTENDS Integers, Sequences

CONSTANTS Topics,   \* model names events are published to
          Keys,     \* primary keys of the records
          Ms        \* clock ticks per millisecond

ASSUME MsAssumption == Ms \in Nat \ {0}

CmdNew == "new"
Cmds == {CmdNew, "mod", "del"}

\* The signature (Sig) of an event; a watch may also name the pseudo key "new".
Sigs == [top : Topics, key : Keys \cup {CmdNew}]

Actions == [top : Topics, key : Keys, cmd : Cmds]
Events  == [act : Actions, rev : Nat]

Sig(a)    == [top |-> a.top, key |-> a.key]
NewSig(a) == [top |-> a.top, key |-> CmdNew]

\* The last revision, or the zero time.
Rev(log) == IF log = << >> THEN 0 ELSE log[Len(log)].rev

\* Mutants of NextRev: the clock alone decides, or a sign is wrong.
NextRevOfClock(last, rev) == rev - (rev % Ms)

NextRevBack(last, rev) ==
    LET ms == rev - (rev % Ms)
    IN  IF ms > last THEN ms ELSE last - Ms

\* rev truncated to a millisecond, or one millisecond after last.
NextRev(last, rev) ==
    LET ms == rev - (rev % Ms)
    IN  IF ms > last THEN ms ELSE last + Ms

\* The log after publishing the actions acts as one transaction at time now.
Published(log, acts, now) ==
    log \o [i \in 1..Len(acts) |->
               [act |-> acts[i], rev |-> NextRev(Rev(log), now)]]

\* Positions of all events of the topics tops after revision rev.
EventsSince(log, rev, tops) ==
    {e \in 1..Len(log) : log[e].rev > rev /\ log[e].act.top \in tops}
=============================================================================
