----------------------------- MODULE Relations ------------------------------
(***************************************************************************)
(* The relations between the models of a project (dom/rels.go).  Relate    *)
(* collects one for each field that refers to or embeds a model and then   *)
(* goes through what it collected, in any order, to find the models in     *)
(* between two others, adding to the lists it goes through.                *)
(*                                                                         *)
(* A model is its schema and its name.  A field is how it relates, to what *)
(* and whether it is unique.                                               *)
(***************************************************************************)
EXTENDS FiniteSets, SequencesExt, Lists

CONSTANTS Projects   \* sequences of models, each [id, obj, fields]

\* A model has a name, and a field relates to another model or not.
ASSUME ProjectsAssumption ==
    \A pro \in Projects :
        /\ pro \in Seq(ToSet(pro))
        /\ \A m \in ToSet(pro) :
              /\ m.id # <<"", "">> /\ m.fields \in Seq(ToSet(m.fields))
              /\ \A f \in ToSet(m.fields) : f.how \in {"none", "refers", "embeds", "embeds many"}

VARIABLES project,   \* the project
          rels,      \* what Relate collected: model -> its Out, In and Via
          todo       \* the models it has yet to look at
relVars == <<project, rels, todo>>

NoModel == <<"", "">>
NoRels  == [out |-> << >>, in |-> << >>, via |-> << >>]
Failed  == [failed |-> TRUE]

\* A field's key is its number; "_" stands for the primary key.
PK    == 0
NoKey == -1

ModelIds(pro) == {pro[i].id : i \in DOMAIN pro}

\* domRef: the model itself, one of its schema, or one given with its schema.
DomRef(pro, id, ref) ==
    LET target == IF ref = <<".">> THEN id ELSE IF Len(ref) = 1 THEN <<id[1], ref[1]>> ELSE ref
    IN  IF target \in ModelIds(pro) THEN target ELSE NoModel

\* The relation a field declares; an embedded model has no key.
Declared(pro, id, key, field) ==
    LET b == DomRef(pro, id, field.ref)
        end(key2) == [model |-> b, key |-> key2]
        rel(card, key2, embed) ==
            [card |-> card, embed |-> embed, via |-> NoModel,
             a |-> [model |-> id, key |-> key], b |-> end(key2)]
    IN  CASE field.how = "refers" -> rel(IF field.uniq THEN "11" ELSE "N1", PK, FALSE)
          [] field.how = "embeds" -> rel("11", NoKey, TRUE)
          [] field.how = "embeds many" -> rel("1N", NoKey, TRUE)

\* Where model m is the a, the b or the via of relation r.
Added(rs, r, m) ==
    LET old == IF m \in DOMAIN rs THEN rs[m] ELSE NoRels
    IN  [out |-> IF m = r.a.model THEN Append(old.out, r) ELSE old.out,
         in  |-> IF m = r.b.model THEN Append(old.in, r) ELSE old.in,
         via |-> IF m = r.via THEN Append(old.via, r) ELSE old.via]

\* add, with upsert.
AddRel(rs, r) ==
    [m \in DOMAIN rs \cup ({r.a.model, r.b.model, r.via} \ {NoModel}) |-> Added(rs, r, m)]

\* The relations the fields of models that are objects declare, in their order.
AllDeclared(pro) ==
    FlattenSeq([i \in DOMAIN pro |->
        IF ~pro[i].obj THEN << >>
        ELSE LET fields  == [k \in DOMAIN pro[i].fields |-> <<k, pro[i].fields[k]>>]
                 related == Only(fields, {kf \in ToSet(fields) : kf[2].how # "none"})
             IN  [k \in DOMAIN related |->
                     Declared(pro, pro[i].id, related[k][1], related[k][2])]])

\* What the relations of all add up to.
Collected(all) ==
    LET added[n \in 0..Len(all)] == IF n = 0 THEN << >> ELSE AddRel(added[n - 1], all[n])
    IN  added[Len(all)]

\* relate for every model; a model that is not found ends it.
RelationsInit ==
    /\ project \in Projects
    /\ LET all == AllDeclared(project)
       IN  rels = IF \E k \in DOMAIN all : all[k].b.model = NoModel THEN Failed
                  ELSE Collected(all)
    /\ todo = IF rels = Failed THEN {} ELSE DOMAIN rels

\* Mutant of Between: relations through another model count too.
AnyBetween(m) == Only(rels[m].out, {r \in ToSet(rels[m].out) : r.b.key = PK /\ ~r.embed})

\* The relations that make model m one in between.
Between(m) ==
    Only(rels[m].out,
         {r \in ToSet(rels[m].out) : r.via = NoModel /\ r.b.key = PK /\ ~r.embed})

\* One turn of the second loop of Relate: only the first two are related.
Intermediate ==
    \E m \in todo :
        /\ todo' = todo \ {m}
        /\ rels' = IF Len(Between(m)) < 2 THEN rels
                   ELSE AddRel(rels, [card |-> "", embed |-> FALSE, via |-> m,
                                   a |-> Between(m)[1].b, b |-> Between(m)[2].b])
        /\ UNCHANGED project

RelationsNext == Intermediate

-----------------------------------------------------------------------------
Times(seq, x) == Cardinality({i \in DOMAIN seq : seq[i] = x})

\* Each field that refers to or embeds a model is one relation, out of its model
\* and into the other's; a model whose fields refer to two or more is in between
\* the first two, once, and no other is, in whatever order the models were looked
\* at.  What one model lists as outgoing another lists as incoming, as often.
RelationsMirror ==
    todo = {} /\ rels # Failed =>
        LET all == AllDeclared(project)
            keyed(m) == Only(all, {r \in ToSet(all) : r.a.model = m /\ ~r.embed})
            found == UNION {ToSet(rels[m].out) : m \in DOMAIN rels}
            listed(f) == UNION {ToSet(rels[m][f]) : m \in DOMAIN rels}
            times(m, f, r) == IF m \in DOMAIN rels THEN Times(rels[m][f], r) ELSE 0
        IN  /\ \A r \in found \cup ToSet(all) \cup listed("in") \cup listed("via") :
                  LET n == IF r.via = NoModel THEN Times(all, r)
                           ELSE IF Len(keyed(r.via)) >= 2 /\ r.a = keyed(r.via)[1].b
                                   /\ r.b = keyed(r.via)[2].b THEN 1 ELSE 0
                  IN  /\ n > 0
                      /\ \A m \in DOMAIN rels :
                            /\ times(m, "out", r) = IF m = r.a.model THEN n ELSE 0
                            /\ times(m, "in", r) = IF m = r.b.model THEN n ELSE 0
                            /\ times(m, "via", r) = IF m = r.via THEN n ELSE 0
            /\ \A m \in ModelIds(project) : Len(keyed(m)) >= 2 => Len(rels[m].via) = 1
=============================================================================
