--------------------------- MODULE MCConfigSchema ---------------------------
(***************************************************************************)
(* Two editors, two structures and an enum with two option lists.          *)
(***************************************************************************)
EXTENDS ConfigSchema, TLC

CONSTANTS e1, e2, A, B, X, red, green

MCOptionLists == {<<red>>, <<green, red>>}

Structure(key, fields) == [key |-> key, content |-> [fields |-> fields, options |-> <<>>]]

Enum(options) == [key |-> X, content |-> [fields |-> {}, options |-> options]]

\* Nothing yet; a chain with a date at its end; two structures that share the enum.
MCSeeds ==
    { <<>>,
      <<Enum(<<red>>), Structure(B, {X, "DATE"}), Structure(A, {B})>>,
      <<Structure(A, {X}), Structure(B, {X}), Enum(<<green, red>>)>> }

EditorSymmetry == Permutations({e1, e2})
=============================================================================
