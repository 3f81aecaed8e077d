---------------------------- MODULE Associations ----------------------------
(* The two association tables, which have one shape and one set of SQL, and *)
(* the store attributes, as functions of a table's contents.  A table is    *)
(* the set of its rows and the AUTOINCREMENT counter its ids come from.     *)
(* left and right stand for component and attribute, or parent and child.   *)
EXTENDS Queries

Table(rows, seq) == [rows |-> rows, seq |-> seq]
Link(id, left, left_type, right, right_type) ==
  [id |-> id, left_id |-> left, left_type |-> left_type, right_id |-> right, right_type |-> right_type]

EndpointFilter ==
  [left_id |-> None, left_types |-> None, right_id |-> None, right_types |-> None]

\* An empty list of types selects nothing.
push_type_list(types, column) == types # None => column \in types[1]

Selects(f, r) ==
  /\ push_eq(f.left_id, Some(r.left_id)) /\ push_eq(f.right_id, Some(r.right_id))
  /\ push_type_list(f.left_types, r.left_type) /\ push_type_list(f.right_types, r.right_type)

\* Read-only opens of a store from before the tables: every read is empty.
assoc_present(table) == "rows" \in DOMAIN table
RowsOfTable(table, f) == IF assoc_present(table) THEN {r \in table.rows : Selects(f, r)} ELSE {}

\* Ordered by id.
assoc_list(table, f) == SetToSortSeq(RowsOfTable(table, f), LAMBDA a, b : a.id < b.id)
assoc_has(table, f)  == RowsOfTable(table, f) # {}
id_column(endpoint)   == IF endpoint = "left" THEN "left_id" ELSE "right_id"
type_column(endpoint) == IF endpoint = "left" THEN "left_type" ELSE "right_type"
assoc_ids(table, f, endpoint) == Values(RowsOfTable(table, f), id_column(endpoint))
assoc_count(table, f) == Cardinality(RowsOfTable(table, f))
count_distinct(table, f, endpoint) == Cardinality(assoc_ids(table, f, endpoint))
assoc_counts_by_type(table, endpoint) ==
  GroupBy(RowsOfTable(table, EndpointFilter), {type_column(endpoint)})
supplemental_attribute_summary(table) ==
  GroupBy(RowsOfTable(table, EndpointFilter), {"left_type", "right_type"})

-----------------------------------------------------------------------------
Unique(rows) ==
  \A a, b \in rows : a.left_id = b.left_id /\ a.right_id = b.right_id => a = b

Done(table, out) == [ok |-> TRUE, table |-> table, out |-> out]
Duplicate(table) == [ok |-> FALSE, table |-> table, out |-> <<>>]

assoc_insert(table, link) ==
  LET row == Link(table.seq + 1, link.left_id, link.left_type, link.right_id, link.right_type) IN
  IF Unique(table.rows \cup {row})
  THEN Done(Table(table.rows \cup {row}, row.id), row.id) ELSE Duplicate(table)

\* One savepoint around the rows: the first duplicate takes all of them back.
add_associations(table, links) ==
  LET Step(done, link) ==
        LET one == assoc_insert(done.table, link) IN
        IF done.ok /\ one.ok THEN Done(one.table, Append(done.out, one.out)) ELSE Duplicate(table)
  IN FoldLeft(Step, Done(table, <<>>), links)

assoc_delete(table, f) ==
  Done([table EXCEPT !.rows = @ \ RowsOfTable(table, f)], assoc_count(table, f))

\* One UPDATE of the rows that have the id: all of them, or none when two would be one edge.
Updated(table, moved(_), Has(_)) ==
  LET rows == {IF Has(r) THEN moved(r) ELSE r : r \in table.rows} IN
  IF Cardinality(rows) = Cardinality(table.rows) /\ Unique(rows)
  THEN Done([table EXCEPT !.rows = rows], Cardinality({r \in table.rows : Has(r)}))
  ELSE Duplicate(table)

\* The labels the destination already has; LIMIT 1 takes any of them.  Some(l) relabels, None keeps.
Relabels(old, new, labels) ==
  IF old = new \/ labels = {} THEN {None} ELSE {Some(l) : l \in labels}

COALESCE(label, own) == IF label = None THEN own ELSE label[1]

\* Every result the call may have.
replace_supplemental_attribute_component_id(table, old, new) ==
  LET labels == Values({r \in table.rows : r.left_id = new}, "left_type") IN
  {Updated(table,
           LAMBDA r : [r EXCEPT !.left_id = new, !.left_type = COALESCE(label, @)],
           LAMBDA r : r.left_id = old) : label \in Relabels(old, new, labels)}

\* Fault: the label is looked for among the parents only.
LabelOfParents(table, old, new) ==
  LET labels == Values({r \in table.rows : r.left_id = new}, "left_type")
      Parent(r, label) == IF r.left_id # old THEN r
                          ELSE [r EXCEPT !.left_id = new, !.left_type = COALESCE(label, @)]
      Child(r, label)  == IF r.right_id # old THEN r
                          ELSE [r EXCEPT !.right_id = new, !.right_type = COALESCE(label, @)]
  IN {Updated(table, LAMBDA r : Child(Parent(r, label), label),
                     LAMBDA r : old \in {r.left_id, r.right_id}) : label \in Relabels(old, new, labels)}

\* A component may stand at either end, and at both.
replace_parent_child_component_id(table, old, new) ==
  LET labels == Values({r \in table.rows : r.left_id = new}, "left_type")
                \cup Values({r \in table.rows : r.right_id = new}, "right_type")
      Parent(r, label) == IF r.left_id # old THEN r
                          ELSE [r EXCEPT !.left_id = new, !.left_type = COALESCE(label, @)]
      Child(r, label)  == IF r.right_id # old THEN r
                          ELSE [r EXCEPT !.right_id = new, !.right_type = COALESCE(label, @)]
  IN {Updated(table, LAMBDA r : Child(Parent(r, label), label),
                     LAMBDA r : old \in {r.left_id, r.right_id}) : label \in Relabels(old, new, labels)}

-----------------------------------------------------------------------------
\* A key is "empty", "reserved" (it starts with "infrastore.") or a name.
validate_store_attribute_key(key) == key \notin {"empty", "reserved"}

set_store_attribute(attributes, key, value) ==
  IF validate_store_attribute_key(key) THEN Done((key :> value) @@ attributes, <<>>)
  ELSE Duplicate(attributes)
get_store_attribute(attributes, key) ==
  IF key \in DOMAIN attributes THEN Some(attributes[key]) ELSE None
remove_store_attribute(attributes, key) ==
  IF validate_store_attribute_key(key)
  THEN Done([k \in DOMAIN attributes \ {key} |-> attributes[k]], key \in DOMAIN attributes)
  ELSE Duplicate(attributes)

\* Nothing of any kind, store attributes included.
is_empty(rows, tables, attributes) ==
  /\ ~exists(rows, MetadataFilter)
  /\ \A t \in tables : ~assoc_has(t, EndpointFilter)
  /\ DOMAIN attributes = {}
=============================================================================
