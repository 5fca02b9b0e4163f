------------------------------ MODULE AuthModel ------------------------------
(***************************************************************************)
(* The authorization model: what the YAML compiler accepts and makes of it *)
(* (zanzibar/model/compiler.go) and which tuples it admits                 *)
(* (zanzibar/model/validate.go).                                           *)
(*                                                                         *)
(* A raw model maps a type to its relations and a relation to its YAML     *)
(* fields [types, union, required]; a type reference is <<type, relation>>,*)
(* with "" for no relation.  Compiled, a relation is                       *)
(* [directTypes, rewrites, minHolders].                                    *)
(***************************************************************************)
EXTENDS Naturals, Sequences

Direct == [kind |-> "direct", relation |-> "", lookup |-> ""]

\* A union entry is a relation, or {from, lookup} with both given.
ParsesEntry(e) == e.from # "" \/ e.lookup # "" => e.from # "" /\ e.lookup # ""

compileEntry(e) ==
    IF e.from # "" THEN [kind |-> "from", relation |-> e.from, lookup |-> e.lookup]
                   ELSE [kind |-> "computed", relation |-> e.relation, lookup |-> ""]

\* An entry that is an empty string compiles to nothing.
Meaningful(e) == e.from # "" \/ e.relation # ""

rewritesOf(raw) ==
    IF raw.union # <<>>
      THEN LET entries == SelectSeq(raw.union, Meaningful)
           IN  <<Direct>> \o [i \in 1..Len(entries) |-> compileEntry(entries[i])]
      ELSE IF raw.types # {} THEN <<Direct>> ELSE <<>>

\* A floor needs a relation that people write tuples to and nothing else.
CompilesRelation(raw) ==
    /\ \A i \in 1..Len(raw.union) : ParsesEntry(raw.union[i])
    /\ raw.required => rewritesOf(raw) = <<Direct>>

compileRelation(raw) ==
    [directTypes |-> raw.types, rewrites |-> rewritesOf(raw),
     minHolders |-> IF raw.required THEN 1 ELSE 0]

HasRelation(m, ty, r) == ty \in DOMAIN m /\ r \in DOMAIN m[ty]

validateTypeRef(m, ref) == ref[1] \in DOMAIN m /\ (ref[2] # "" => HasRelation(m, ref[1], ref[2]))

\* The lookup must exist on some type the 'from' relation can lead to.
validateLookup(m, ty, rw) ==
    /\ HasRelation(m, ty, rw.relation)
    /\ LET targets == m[ty][rw.relation].directTypes
       IN  targets # {} => \E ref \in targets : HasRelation(m, ref[1], rw.lookup)

validateRewrite(m, ty, rw) ==
    /\ rw.kind = "computed" => HasRelation(m, ty, rw.relation)
    /\ rw.kind = "from" => validateLookup(m, ty, rw)

validate(m) ==
    \A ty \in DOMAIN m : \A r \in DOMAIN m[ty] :
       /\ \A ref \in m[ty][r].directTypes : validateTypeRef(m, ref)
       /\ \A i \in 1..Len(m[ty][r].rewrites) : validateRewrite(m, ty, m[ty][r].rewrites[i])

Compiled(raw) == [ty \in DOMAIN raw |-> [r \in DOMAIN raw[ty] |-> compileRelation(raw[ty][r])]]

\* Compile returns a model.
Compile(raw) ==
    /\ \A ty \in DOMAIN raw : \A r \in DOMAIN raw[ty] : CompilesRelation(raw[ty][r])
    /\ validate(Compiled(raw))

=============================================================================
