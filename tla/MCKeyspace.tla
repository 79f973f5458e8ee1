---------------------------- MODULE MCKeyspace ----------------------------
(* Symmetry, a view and a bound for the run of Keyspace. *)
EXTENDS Keyspace, TLC

Symmetry == Permutations(Keys) \cup Permutations(Values)

\* No command reads the reply of the one before, or what it was.
WithoutReply == <<now, cur_db, dbs>>

\* Bound: two objects in all databases together.
FewObjects == Cardinality(UNION {{d} \X DOMAIN dbs[d] : d \in Dbs}) <= 2

===========================================================================
