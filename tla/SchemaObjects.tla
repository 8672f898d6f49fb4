---------------------------- MODULE SchemaObjects ----------------------------
(***************************************************************************)
(* What a database schema is made of, as far as the properties tell apart: *)
(* tables, the columns that later revisions add, foreign keys with their   *)
(* ON DELETE rule, CHECK domains, indexes, triggers and their function.    *)
(* Column types and defaults are left out.                                 *)
(***************************************************************************)

Table(t) == <<"table", t>>
Column(t, c) == <<"column", t, c>>
Index(t, name) == <<"index", t, name>>
Trigger(t) == <<"trigger", t>>
Function(name) == <<"function", name>>

\* CHECK (column IN (values))
Domain(t, column, values) == <<"domain", t, column, values>>

\* FOREIGN KEY (column) REFERENCES parent ON DELETE rule
Ref(t, column, parent, rule) == <<"ref", t, column, parent, rule>>

ByNotice(t) == Ref(t, "notice_no", "bid_pipeline", "CASCADE")

Indexes(t, names) == {Index(t, name) : name \in names}
Columns(t, names) == {Column(t, name) : name \in names}

Of(kind, schema) == {o \in schema : o[1] = kind}
=============================================================================
