------------------------ MODULE MCContextPreparation ------------------------
(***************************************************************************)
(* Model-checking module for ContextPreparation: two databases, and a      *)
(* claim that does not hold for the second.                                *)
(***************************************************************************)
EXTENDS ContextPreparation

Table(schema, name, columns) == [schema |-> schema, name |-> name, columns |-> columns]

Shop == <<Table("", "users", {}), Table("", "orders", {"total"}), Table("shop", "items", {"total"})>>
ShopNames == {<<"users">>, <<"orders">>, <<"items">>}

\* A table without a schema, and one of the same name in a schema.
Shadowed == <<Table("", "users", {}), Table("shop", "users", {"total"})>>

\* A table left out is named, not omitted in silence (settings.yaml:96-97): every table of the
\* snapshot is shown or named, where the list of names has room for all of them.
NoneOmittedSilently ==
    AfterRendering /\ strategy # "none" =>
        Names \subseteq {Qualified(snapshot[i]) : i \in Elements(shown)} \cup Elements(named)
=============================================================================
