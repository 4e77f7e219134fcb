------------------------------ MODULE MemLedger ------------------------------
(***************************************************************************)
(* MemLedger of package evt: a ledger that applies each published action   *)
(* to the records of a memory backend before it keeps the events, and      *)
(* takes the applied ones back when a later one fails.                     *)
(*                                                                         *)
(* Publish runs on one goroutine and is one step.  Requests it refuses     *)
(* before touching anything (a future base, no actions) are left out.  A   *)
(* record is its key, the revision of its last event and whether a failing *)
(* argument left it half written; an argument fits, is bad (an unknown     *)
(* model or key type too) or is bad in part, with fields before the bad    *)
(* one that fit and stay written.                                          *)
(***************************************************************************)
EXTENDS EvtLedger, FiniteSets, SequencesExt

CONSTANTS Transs,     \* lists of actions with an argument
          Nows,       \* readings of the clock
          MaxEvents,  \* bound on the events of a ledger
          MaxOpens    \* bound on how often the backend is opened

Args       == {"fits", "bad", "part"}
ArgActions == [top : Topics, key : Keys, cmd : Cmds, arg : Args]

ASSUME MemAssumption ==
    /\ Transs \subseteq Seq(ArgActions) \ {<< >>}
    /\ Nows \subseteq Nat /\ MaxEvents \in Nat /\ MaxOpens \in Nat \ {0}

VARIABLES evs,     \* MemLedger.evs
          data,    \* the backend's lists of records by topic
          stored,  \* the backend's list of events
          panicked, \* actions applied when Publish panicked, 0 if it did not
          opened,  \* history: the records when the ledger was opened
          pubs,    \* history: transactions published since
          opens    \* history: how often the backend was opened

vars == <<evs, data, stored, panicked, opened, pubs, opens>>

Init ==
    /\ evs = << >> /\ stored = << >> /\ panicked = 0
    /\ data = [t \in Topics |-> << >>]
    /\ opened = data /\ pubs = 0 /\ opens = 1

\* indexKey: the first record with the key, or 0.
IndexKey(list, key) == SelectInSeq(list, LAMBDA r : r.key = key)

\* Mutant of Fails: a record is not looked for before it is changed.
FailsOnArg(d, act) == act.cmd # "del" /\ act.arg # "fits"

Fails(d, act) ==
    \/ act.cmd # CmdNew /\ IndexKey(d[act.top], act.key) = 0
    \/ act.cmd # "del" /\ act.arg # "fits"

\* applyEvent on action act at revision rev, when it does not fail.
ApplyEvent(d, act, rev) ==
    LET idx == IndexKey(d[act.top], act.key)
    IN  [d EXCEPT ![act.top] =
            CASE act.cmd = CmdNew -> Append(@, [key |-> act.key, rev |-> rev, torn |-> FALSE])
              [] act.cmd = "mod"  -> [@ EXCEPT ![idx].rev = rev]
              [] act.cmd = "del"  -> RemoveAt(@, idx)]

\* What a failing action leaves behind.
Torn(d, act) ==
    LET idx == IndexKey(d[act.top], act.key)
    IN  IF act.cmd = "mod" /\ act.arg = "part" /\ idx > 0
        THEN [d EXCEPT ![act.top][idx].torn = TRUE] ELSE d

\* Mutant of Revert: a deleted record comes back at the end.
RevertAtEnd(d, before, act) ==
    LET idx == IndexKey(before[act.top], act.key)
    IN  [d EXCEPT ![act.top] =
            CASE act.cmd = CmdNew -> Front(@)
              [] act.cmd = "mod"  -> [@ EXCEPT ![idx] = before[act.top][idx]]
              [] act.cmd = "del"  -> Append(@, before[act.top][idx])]

\* The function applyEvent returns to take action act, applied to before, back.
Revert(d, before, act) ==
    LET idx == IndexKey(before[act.top], act.key)
    IN  [d EXCEPT ![act.top] =
            CASE act.cmd = CmdNew -> SubSeq(@, 1, Len(before[act.top]))
              [] act.cmd = "mod"  -> [@ EXCEPT ![idx] = before[act.top][idx]]
              [] act.cmd = "del"  -> InsertAt(@, idx, before[act.top][idx])]

\* The records after each of the first actions of acts, as long as none fails.
Stages(acts, rev) ==
    LET stage[n \in 0..Len(acts)] ==
            IF n = 0 THEN data ELSE ApplyEvent(stage[n - 1], acts[n], rev)
    IN  stage

\* The first done actions are applied; the next one fails, or there is none.
Publish(acts, now) ==
    LET rev    == NextRev(Rev(evs), now)
        stages == Stages(acts, rev)
        events == [i \in 1..Len(acts) |->
                      [id |-> Len(evs) + i, act |-> acts[i], rev |-> rev]]
    IN  /\ panicked = 0 /\ Len(evs) + Len(acts) <= MaxEvents
        /\ \E done \in 0..Len(acts) :
              /\ \A n \in 1..done : ~Fails(stages[n - 1], acts[n])
              /\ \/ /\ done = Len(acts)
                    /\ data' = stages[done]
                    /\ evs' = evs \o events /\ stored' = stored \o events
                    /\ pubs' = pubs + 1
                    /\ UNCHANGED panicked
                 \/ /\ done < Len(acts) /\ Fails(stages[done], acts[done + 1])
                    \* The loop that rolls back counts up: it takes the last applied
                    \* action back and then indexes beyond the reverts.
                    /\ LET torn == Torn(stages[done], acts[done + 1])
                       IN  data' = IF done = 0 THEN torn
                                   ELSE Revert(torn, stages[done - 1], acts[done])
                    /\ panicked' = done
                    /\ UNCHANGED <<evs, stored, pubs>>
        /\ UNCHANGED <<opened, opens>>

\* NewMemLedger on the backend of an earlier ledger: it reads the list named
\* evt.Model, which nothing writes, and not the stored events.
Open ==
    /\ panicked = 0 /\ opens < MaxOpens
    /\ evs' = << >> /\ opened' = data /\ pubs' = 0 /\ opens' = opens + 1
    /\ UNCHANGED <<data, stored, panicked>>

Next == Open \/ \E acts \in Transs, now \in Nows : Publish(acts, now)

Spec == Init /\ [][Next]_vars

-----------------------------------------------------------------------------
Records == [key : Keys, rev : Nat, torn : BOOLEAN]
IdEvents == [id : Nat \ {0}, act : ArgActions, rev : Nat]

\* The variables range over these values.
TypeOK ==
    /\ evs \in Seq(IdEvents) /\ stored \in Seq(IdEvents) /\ Len(evs) <= MaxEvents
    /\ data \in [Topics -> Seq(Records)] /\ opened \in [Topics -> Seq(Records)]
    /\ panicked \in Nat /\ pubs \in Nat /\ opens \in 1..MaxOpens

\* Where list has records of key k, and where the first n events are of topic t
\* and key k.
Places(list, k) == {i \in DOMAIN list : list[i].key = k}
EventsOf(t, k, n) == {i \in 1..n : evs[i].act.top = t /\ evs[i].act.key = k}

\* Records of topic t and key k after the first n events, counted from events.
Count(t, k, n) ==
    LET ofCmd(c) == {i \in EventsOf(t, k, n) : evs[i].act.cmd = c}
    IN  Cardinality(Places(opened[t], k)) + Cardinality(ofCmd(CmdNew)) - Cardinality(ofCmd("del"))

\* rev is that of the last event of topic t and key k, or of a record of theirs
\* the ledger was opened with.
LastRev(t, k, rev) ==
    LET of == EventsOf(t, k, Len(evs))
    IN  IF of = {} THEN \E i \in Places(opened[t], k) : opened[t][i].rev = rev
        ELSE \E i \in of : evs[i].rev = rev /\ \A j \in of : j <= i

\* The events since the ledger was opened recreate the model (evt/README.md:5):
\* they tell how many records a key has and, unless the key was used twice at
\* once, of which event its record is.
Recreates ==
    panicked = 0 =>
        \A t \in Topics, k \in Keys :
            /\ Cardinality(Places(data[t], k)) = Count(t, k, Len(evs))
            /\ (\A n \in 0..Len(evs) : Count(t, k, n) <= 1) =>
                   \A i \in Places(data[t], k) : LastRev(t, k, data[t][i].rev)

\* A revision stands for whole transactions, so that a reader who resumes after
\* it misses no event and gets none twice; ids follow the order of events.
WholeTransactions ==
    /\ \A i, j \in DOMAIN evs : i <= j => evs[i].rev <= evs[j].rev /\ evs[i].id <= evs[j].id
    /\ Cardinality({evs[i].rev : i \in DOMAIN evs}) = pubs
    /\ Cardinality({evs[i].id : i \in DOMAIN evs}) = Len(evs)

Whole(d) == [t \in Topics |-> [i \in DOMAIN d[t] |-> [d[t][i] EXCEPT !.torn = FALSE]]]

\* The function kept to take an action back restores the list it changed.
OneTakenBack == [][panicked' <= 1 /\ evs' = evs => Whole(data') = Whole(data)]_vars

\* A failed transaction is rolled back (lit.go:85).
RolledBack == [][evs' = evs => Whole(data') = Whole(data)]_vars
=============================================================================
