---------------------------- MODULE MCCommands ----------------------------
(* Texts, symmetry, a view and a bound for the runs of Commands. *)
EXTENDS Commands, TLC

Alphabet == {0, 1, Minus, Plus, Blank, Other}

\* All texts of up to two characters, and longer ones in which a number is cut
\* off, saturates, or follows blanks and a sign.
MCInputs ==
  UNION {[1 .. n -> Alphabet] : n \in 0 .. 2}
    \cup {<<1, 0, 0>>, <<Minus, 1, 0, 0>>, <<Minus, 1, 0, 1>>, <<Blank, Minus, 1>>,
          <<1, 1, Other>>, <<Plus, 1, 0>>, <<Minus, Minus, 1>>, <<0, 0, 1>>}

\* Every number, and what is none.
MCIndexes == {ToText(n) : n \in Int64} \cup {<<>>, <<Other, 1>>, <<0, 0>>}

MCPairs == {<<>>, <<0>>, <<1>>, <<0, 1>>}

Symmetry == Permutations(Keys)

\* No command reads the reply of the one before, or what it was.
WithoutReply == <<up, cur_db, dbs>>

\* Bound: one object, or two of one character at most.
FewObjects ==
  LET held == UNION {{<<d, k>> : k \in DOMAIN dbs[d]} : d \in Dbs}
  IN \/ Cardinality(held) <= 1
     \/ Cardinality(held) = 2 /\ \A h \in held : Len(TextOf(dbs[h[1]][h[2]])) <= 1

===========================================================================
