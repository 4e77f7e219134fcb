----------------------------- MODULE UnsubTopics -----------------------------
(***************************************************************************)
(* The outcome of the loop in Subscribers.Unsub, on sets of topics.        *)
(***************************************************************************)
EXTENDS Integers, FiniteSets

\* Mutant of UnsubOutcomes: a request without topics gives nothing up.
UnsubOfRequested(subs, tops) == {[keep |-> subs \ tops, drop |-> tops]}

(***************************************************************************)
(* What Unsub keeps of the subscribed topics subs and which topics it      *)
(* drops buffered events of.  Without topics the loop runs over the slice  *)
(* it is shrinking: of n topics every second one but the last stays, and   *)
(* the slice that then filters the buffer holds the kept topics and the    *)
(* last one.  Any order of the n topics is possible.                       *)
(***************************************************************************)
UnsubOutcomes(subs, tops) ==
    IF tops # {} THEN {[keep |-> subs \ tops, drop |-> tops]}
    ELSE IF subs = {} THEN {[keep |-> {}, drop |-> {}]}
    ELSE LET half == {q \in SUBSET subs : Cardinality(q) = (Cardinality(subs) - 1) \div 2}
         IN  UNION {{[keep |-> k, drop |-> k \cup {t}] : t \in subs \ k} : k \in half}
=============================================================================
