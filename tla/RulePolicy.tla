----------------------------- MODULE RulePolicy ------------------------------
(***************************************************************************)
(* RulePolicy of package pol: roles with their groups, permits and denies, *)
(* built by adding rules, and the decision whether a role may execute an   *)
(* action.  An operation is a set of bits.  Groups are acyclic: the code   *)
(* follows a cycle of groups without end.                                  *)
(***************************************************************************)
EXTENDS FiniteSets, SequencesExt, Lists

CONSTANTS RoleNames,  \* roles besides "*"
          PolTopics,  \* topics besides "*"
          PolBits,    \* bits of an operation
          PolRules,   \* the rules a policy is built from
          MaxRules    \* bound on the rules of a policy

PolOps   == SUBSET PolBits \ {{}}
AllRoles == RoleNames \cup {"*"}

\* A rule associates a role with the group top, or permits or denies op on top.
Assoc(r) == r.perm = "@"

ASSUME RulesAssumption ==
    \A r \in PolRules :
        /\ r.role \in AllRoles /\ r.perm \in {"@", "+", "-"} /\ r.op \in SUBSET PolBits
        /\ IF Assoc(r) THEN r.top \in AllRoles ELSE r.top \in PolTopics \cup {"*"}

\* Every role is in the group "*" and no role is in itself by way of its groups.
ASSUME AcyclicAssumption ==
    \E rank \in [AllRoles -> 0..Cardinality(RoleNames)] :
        /\ \A n \in RoleNames : rank[n] > rank["*"]
        /\ \A r \in PolRules : Assoc(r) => rank[r.role] > rank[r.top]

VARIABLE rules    \* the rules added so far

PolInit == rules = << >>

PolNext == Len(rules) < MaxRules /\ \E r \in PolRules : rules' = Append(rules, r)

-----------------------------------------------------------------------------
\* addAct: the bits join the entry of the topic, or a new entry follows.
AddAct(acts, top, op) ==
    LET i == SelectInSeq(acts, LAMBDA a : a.top = top)
    IN  IF i = 0 THEN Append(acts, [top |-> top, op |-> op])
        ELSE [acts EXCEPT ![i].op = @ \cup op]

\* role: a role is made with its first mention, in the group "*".
Role(p, name) ==
    LET new(n) == [roles |-> IF n = "*" THEN {} ELSE {"*"}, permit |-> << >>, deny |-> << >>]
        add    == (IF name = "*" THEN {"*"} ELSE {name, "*"}) \ DOMAIN p
    IN  [n \in DOMAIN p \cup add |-> IF n \in add THEN new(n) ELSE p[n]]

\* Mutant of AddGroup: a role takes over what its group has by now.
CopyGroup(p, name, group) ==
    LET q == Role(Role(p, name), group)
    IN  [q EXCEPT ![name].permit = @ \o q[group].permit, ![name].deny = @ \o q[group].deny]

AddGroup(p, name, group) ==
    [Role(Role(p, name), group) EXCEPT ![name].roles = @ \cup {group}]

Add(p, r) ==
    LET q == Role(p, r.role)
    IN  CASE Assoc(r)     -> AddGroup(p, r.role, r.top)
          [] r.perm = "+" -> [q EXCEPT ![r.role].permit = AddAct(@, r.top, r.op)]
          [] r.perm = "-" -> [q EXCEPT ![r.role].deny = AddAct(@, r.top, r.op)]

Policy(rs) ==
    LET built[n \in 0..Len(rs)] == IF n = 0 THEN << >> ELSE Add(built[n - 1], rs[n])
    IN  built[Len(rs)]

\* The first entry for the topic or any topic decides.
Deciding(acts, top) == SelectInSeq(acts, LAMBDA a : a.top \in {"*", top})

Permitted(p, role, op, top) ==
    LET f[r \in DOMAIN p] ==
            LET i == Deciding(p[r].permit, top)
            IN  IF i > 0 THEN op \subseteq p[r].permit[i].op
                ELSE \E g \in p[r].roles : f[g]
    IN  f[role]

Denied(p, role, op, top) ==
    LET f[r \in DOMAIN p] ==
            LET i == Deciding(p[r].deny, top)
            IN  IF i > 0 THEN op \cap p[r].deny[i].op # {}
                ELSE \E g \in p[r].roles : f[g]
    IN  f[role]

\* An unknown role is policed as "*".
Police(p, role, op, top) ==
    LET r == IF role \in DOMAIN p THEN role ELSE "*"
    IN  r \in DOMAIN p /\ Permitted(p, r, op, top) /\ ~Denied(p, r, op, top)

-----------------------------------------------------------------------------
Decisions(p) ==
    [role \in AllRoles, op \in PolOps, top \in PolTopics |-> Police(p, role, op, top)]

Assocs == {r \in PolRules : Assoc(r)}

\* Role associations may be declared before or after other rules
\* (rules_test.go:36): what a policy decides does not depend on where they stand
\* among the other rules, whose order does matter.
AssociationsAnywhere ==
    LET assocs == Only(rules, Assocs)
        rest   == Only(rules, PolRules \ Assocs)
    IN  /\ Decisions(Policy(assocs \o rest)) = Decisions(Policy(rules))
        /\ Decisions(Policy(rest \o assocs)) = Decisions(Policy(rules))
=============================================================================
