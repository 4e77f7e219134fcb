----------------------------- MODULE MCMemLedger -----------------------------
(***************************************************************************)
(* Instances of MemLedger for TLC: transactions of one and two actions.    *)
(***************************************************************************)
EXTENDS MemLedger

CONSTANTS t1, t2, k1, k2

Act(cmd, key, arg) == [top |-> t1, key |-> key, cmd |-> cmd, arg |-> arg]

Acts == {Act(cmd, key, "fits") : cmd \in Cmds, key \in Keys}

Other == [top |-> t2, key |-> k1, cmd |-> CmdNew, arg |-> "fits"]

\* Deletions of records that are missing and arguments that do not fit fail.
FewTranss ==
    {<<a>> : a \in Acts} \cup {<<a, b>> : a \in Acts, b \in Acts}
        \cup {<<Act("mod", k1, "part")>>, <<Act(CmdNew, k1, "bad")>>,
              <<Act("mod", k1, "fits"), Act("mod", k1, "part")>>, <<Other, Act("del", k2, "fits")>>}

\* Two records are created before an action that fails.
LongTranss ==
    {<<a, b, Act("mod", k2, "bad")>> : a \in Acts, b \in Acts}

Clock == {0, 5}
=============================================================================
