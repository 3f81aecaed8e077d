---------------------------- MODULE PyMethods ----------------------------
(* The methods of the Python extension's Store, Transaction and readers    *)
(* (crates/infrastore-py/src/lib.rs), each as the steps its body takes.    *)
(*                                                                         *)
(* PyO3 borrows the receiver before anything else, shared for &self and    *)
(* exclusive for &mut self, and keeps the borrow until the method returns. *)
(* Argument conversions and some renderings run Python code (a tzinfo's    *)
(* utcoffset, __index__, numpy, a file's write), which may call the same   *)
(* Store again.  What a body computes is left out; the order of borrow,    *)
(* conversion, use of the store and rendering is all here.                 *)
EXTENDS Naturals, Sequences

-----------------------------------------------------------------------------
(* Steps. *)

Shared == <<[op |-> "borrow", mode |-> "shared"]>>

Exclusive == <<[op |-> "borrow", mode |-> "exclusive"]>>

\* A conversion that may raise, and one that also runs Python code first.
Converts == [op |-> "arg", runs |-> FALSE]
RunsPy   == [op |-> "arg", runs |-> TRUE]

\* store() and store_mut() raise on a closed handle; map_err raises what the
\* core call returns.
store     == <<[op |-> "open"]>>
store_mut == <<[op |-> "open"]>>
map_err(effect) == <<[op |-> "core", effect |-> effect]>>

Query == map_err("none")
Edit  == map_err("edit")

\* A rendering that runs Python code and may raise.  Dicts of plain values,
\* numbers and strings are rendered without either.
Render == <<[op |-> "arg", runs |-> TRUE]>>

\* close: the handle lets go of the store.
Drop == <<[op |-> "close"]>>

\* PyErr::warn after the borrow has been dropped.
Warn == [op |-> "warn"]

-----------------------------------------------------------------------------
(* Conversions. *)

\* Integers go through __index__, instants through utcoffset, lists through
\* iteration: a signature that has one may run Python code.
Signature == <<RunsPy>>
Text      == <<Converts>>

pyany_to_period             == <<Converts>>
pyany_to_time_series_type   == <<Converts>>
pyany_to_requested_type     == pyany_to_time_series_type
pyany_to_requested_type_opt == pyany_to_requested_type
features_from_dict          == <<RunsPy>>
extract_time_series_data    == <<Converts>>
required_item               == <<RunsPy>>
reject_unknown_item_keys    == <<RunsPy>>
hash_from_hex               == <<Converts>>
owner_guard                 == <<Converts>>
range_to_core               == <<Converts>>
check_point_spelling        == <<Converts>>
parse_compression           == <<Converts>>
parse_catalog               == <<Converts>>

\* The type, the two periods and the features, in that order.
build_list_filter ==
  pyany_to_requested_type \o pyany_to_period \o pyany_to_period \o features_from_dict

\* These two cannot fail.
build_supplemental_attribute_filter == <<>>
build_parent_child_filter           == <<>>

\* One item of a bulk add: its keys, its owner, its features, its series.
BulkItem ==
  reject_unknown_item_keys \o required_item \o required_item \o required_item
  \o features_from_dict \o extract_time_series_data

-----------------------------------------------------------------------------
(* filter_pymethods!: the filter first, then the store, then the body. *)

OnList(borrow, body)        == borrow \o Signature \o build_list_filter \o store \o body
OnAttachments(borrow, body) ==
  borrow \o Signature \o build_supplemental_attribute_filter \o store \o body
OnEdges(borrow, body)       == borrow \o Signature \o build_parent_child_filter \o store \o body

list_metadata                           == OnList(Shared, Query)
has_any_time_series                     == OnList(Shared, Query)
list_names                              == OnList(Shared, Query)
list_owner_types                        == OnList(Shared, Query)
remove_by_filter                        == OnList(Exclusive, Edit)
export_time_series_associations_openapi == OnList(Shared, Query)

has_supplemental_attribute_association     == OnAttachments(Shared, Query)
list_supplemental_attribute_associations   == OnAttachments(Shared, Query)
list_supplemental_attribute_ids            == OnAttachments(Shared, Query)
list_components_with_attributes            == OnAttachments(Shared, Query)
remove_supplemental_attribute_associations == OnAttachments(Exclusive, Edit)
count_supplemental_attribute_associations  == OnAttachments(Shared, Query)
count_supplemental_attributes              == OnAttachments(Shared, Query)
count_components_with_attributes           == OnAttachments(Shared, Query)

has_parent_child_association     == OnEdges(Shared, Query)
list_parent_child_associations   == OnEdges(Shared, Query)
list_children                    == OnEdges(Shared, Query)
list_parents                     == OnEdges(Shared, Query)
remove_parent_child_associations == OnEdges(Exclusive, Edit)
count_parent_child_associations  == OnEdges(Shared, Query)

-----------------------------------------------------------------------------
(* The handle itself. *)

catalog                == Shared \o store
write_buffer_bytes     == Shared \o store
set_write_buffer_bytes == Exclusive \o Signature \o store_mut \o Edit
close                  == Exclusive \o Drop
store_exit             == Exclusive \o Drop
repr                   == Shared

\* Several queries for one summary, then print to the caller's file.
summary_text == store \o Query \o Query \o Query
show         == Shared \o summary_text \o Render

-----------------------------------------------------------------------------
(* Edits. *)

add_time_series ==
  Exclusive \o Signature \o features_from_dict \o extract_time_series_data \o store_mut \o Edit

\* Every item is converted before the store is touched.
add_time_series_bulk == Exclusive \o Signature \o BulkItem \o BulkItem \o store_mut \o Edit

transform_single_time_series ==
  Exclusive \o pyany_to_period \o pyany_to_period \o pyany_to_period \o store_mut \o Edit
clear_time_series == Exclusive \o Signature \o owner_guard \o store_mut \o Edit
replace_owner     == Exclusive \o Signature \o store_mut \o Edit
compact           == Exclusive \o store_mut \o Edit
flush             == Exclusive \o store_mut \o Edit
remove_by_ids     == Exclusive \o Signature \o owner_guard \o store_mut \o Edit
copy_time_series  == Exclusive \o Signature \o store_mut \o Edit
persist_to        == Exclusive \o Text \o store_mut \o Edit
persist_arrays_to == Exclusive \o Text \o store_mut \o Edit
persist_catalog   == Exclusive \o store_mut \o Edit
import_sqlite     == Exclusive \o Text \o store_mut \o Edit

add_supplemental_attribute_association      == Exclusive \o Text \o store_mut \o Edit
add_supplemental_attribute_associations     == Exclusive \o Signature \o store_mut \o Edit
replace_supplemental_attribute_component_id == Exclusive \o Signature \o store_mut \o Edit
add_parent_child_association                == Exclusive \o Text \o store_mut \o Edit
add_parent_child_associations               == Exclusive \o Signature \o store_mut \o Edit
replace_parent_child_component_id           == Exclusive \o Signature \o store_mut \o Edit
set_store_attribute                         == Exclusive \o Text \o store_mut \o Edit
remove_store_attribute                      == Exclusive \o Text \o store_mut \o Edit
import_time_series_associations_openapi     == Exclusive \o Text \o store_mut \o Edit
import_supplemental_attribute_associations_openapi == Exclusive \o Text \o store_mut \o Edit

-----------------------------------------------------------------------------
(* Transactions, on the store and as a context manager. *)

begin_transaction    == Exclusive \o store_mut \o map_err("begin")
commit_transaction   == Exclusive \o store_mut \o map_err("commit")
rollback_transaction == Exclusive \o store_mut \o map_err("rollback")
in_transaction       == Shared \o store

\* __enter__ begins; __exit__ commits a clean body and lets a failed commit
\* raise; after an exception it rolls back and turns a failure into a warning.
transaction_enter    == begin_transaction
transaction_exit     == commit_transaction
transaction_unwind   == Exclusive \o <<[op |-> "unwind"]>>

-----------------------------------------------------------------------------
(* Queries. *)

is_empty                   == Shared \o store \o Query
get_resolutions            == Shared \o pyany_to_requested_type_opt \o store \o Query
get_intervals              == Shared \o pyany_to_requested_type_opt \o store \o Query
get_forecast_parameters    == Shared \o pyany_to_period \o pyany_to_period \o store \o Query
get_compression            == Shared \o store
get_time_series_counts     == Shared \o store \o Query
verify_integrity           == Shared \o store \o Query
get_metadata_by_id         == Shared \o Signature \o store \o Query
list_metadata_by_ids       == Shared \o Signature \o store \o Query
association_exists         == Shared \o Signature \o store \o Query
list_owner_ids ==
  Shared \o pyany_to_period \o pyany_to_requested_type_opt \o store \o Query
static_summary              == Shared \o store \o Query
forecast_summary            == Shared \o store \o Query
time_series_count_summary   == Shared \o store \o Query
counts_by_type              == Shared \o store \o Query
num_distinct_arrays         == Shared \o store \o Query
time_series_counts_detailed == Shared \o store \o Query
check_static_consistency    == Shared \o pyany_to_period \o store \o Query
count_array_references      == Shared \o hash_from_hex \o store \o Query
get_array_by_hash           == Shared \o hash_from_hex \o store \o Query \o Render
has_exact_time_series ==
  Shared \o Signature \o pyany_to_time_series_type \o pyany_to_period \o pyany_to_period
  \o features_from_dict \o store \o Query
supplemental_attribute_counts_by_type == Shared \o store \o Query
supplemental_attribute_summary        == Shared \o store \o Query
get_store_attribute                   == Shared \o Text \o store \o Query
list_store_attributes                 == Shared \o store \o Query
export_supplemental_attribute_associations_openapi == Shared \o store \o Query
export_sqlite ==
  Shared \o Signature \o build_list_filter \o range_to_core \o store \o Query

-----------------------------------------------------------------------------
(* Reads. *)

read_by_ids       == Shared \o Signature \o store \o Query
read_by_ids_range == Shared \o Signature \o range_to_core \o store \o Query

\* The store is taken before the owner is checked.
read_by_id == Shared \o Signature \o store \o owner_guard \o Query

build_static_reader   == Shared \o Signature \o build_list_filter \o store \o Query
build_forecast_reader == Shared \o Signature \o build_list_filter \o store \o Query
static_read           == Shared \o Signature \o check_point_spelling \o store \o Query
forecast_read         == Shared \o Signature \o check_point_spelling \o store \o Query

-----------------------------------------------------------------------------
Method == [
  list_metadata |-> list_metadata, has_any_time_series |-> has_any_time_series,
  list_names |-> list_names, list_owner_types |-> list_owner_types,
  remove_by_filter |-> remove_by_filter,
  export_time_series_associations_openapi |-> export_time_series_associations_openapi,
  has_supplemental_attribute_association |-> has_supplemental_attribute_association,
  list_supplemental_attribute_associations |-> list_supplemental_attribute_associations,
  list_supplemental_attribute_ids |-> list_supplemental_attribute_ids,
  list_components_with_attributes |-> list_components_with_attributes,
  remove_supplemental_attribute_associations |-> remove_supplemental_attribute_associations,
  count_supplemental_attribute_associations |-> count_supplemental_attribute_associations,
  count_supplemental_attributes |-> count_supplemental_attributes,
  count_components_with_attributes |-> count_components_with_attributes,
  has_parent_child_association |-> has_parent_child_association,
  list_parent_child_associations |-> list_parent_child_associations,
  list_children |-> list_children, list_parents |-> list_parents,
  remove_parent_child_associations |-> remove_parent_child_associations,
  count_parent_child_associations |-> count_parent_child_associations,
  catalog |-> catalog, write_buffer_bytes |-> write_buffer_bytes,
  set_write_buffer_bytes |-> set_write_buffer_bytes, close |-> close,
  store_exit |-> store_exit, repr |-> repr, show |-> show,
  add_time_series |-> add_time_series, add_time_series_bulk |-> add_time_series_bulk,
  transform_single_time_series |-> transform_single_time_series,
  clear_time_series |-> clear_time_series, replace_owner |-> replace_owner,
  compact |-> compact, flush |-> flush, remove_by_ids |-> remove_by_ids,
  copy_time_series |-> copy_time_series, persist_to |-> persist_to,
  persist_arrays_to |-> persist_arrays_to, persist_catalog |-> persist_catalog,
  import_sqlite |-> import_sqlite,
  add_supplemental_attribute_association |-> add_supplemental_attribute_association,
  add_supplemental_attribute_associations |-> add_supplemental_attribute_associations,
  replace_supplemental_attribute_component_id |-> replace_supplemental_attribute_component_id,
  add_parent_child_association |-> add_parent_child_association,
  add_parent_child_associations |-> add_parent_child_associations,
  replace_parent_child_component_id |-> replace_parent_child_component_id,
  set_store_attribute |-> set_store_attribute,
  remove_store_attribute |-> remove_store_attribute,
  import_time_series_associations_openapi |-> import_time_series_associations_openapi,
  import_supplemental_attribute_associations_openapi
    |-> import_supplemental_attribute_associations_openapi,
  begin_transaction |-> begin_transaction, commit_transaction |-> commit_transaction,
  rollback_transaction |-> rollback_transaction, in_transaction |-> in_transaction,
  is_empty |-> is_empty, get_resolutions |-> get_resolutions, get_intervals |-> get_intervals,
  get_forecast_parameters |-> get_forecast_parameters, get_compression |-> get_compression,
  get_time_series_counts |-> get_time_series_counts, verify_integrity |-> verify_integrity,
  get_metadata_by_id |-> get_metadata_by_id, list_metadata_by_ids |-> list_metadata_by_ids,
  association_exists |-> association_exists, list_owner_ids |-> list_owner_ids,
  static_summary |-> static_summary, forecast_summary |-> forecast_summary,
  time_series_count_summary |-> time_series_count_summary, counts_by_type |-> counts_by_type,
  num_distinct_arrays |-> num_distinct_arrays,
  time_series_counts_detailed |-> time_series_counts_detailed,
  check_static_consistency |-> check_static_consistency,
  count_array_references |-> count_array_references, get_array_by_hash |-> get_array_by_hash,
  has_exact_time_series |-> has_exact_time_series,
  supplemental_attribute_counts_by_type |-> supplemental_attribute_counts_by_type,
  supplemental_attribute_summary |-> supplemental_attribute_summary,
  get_store_attribute |-> get_store_attribute,
  list_store_attributes |-> list_store_attributes,
  export_supplemental_attribute_associations_openapi
    |-> export_supplemental_attribute_associations_openapi,
  export_sqlite |-> export_sqlite, read_by_ids |-> read_by_ids,
  read_by_ids_range |-> read_by_ids_range, read_by_id |-> read_by_id,
  build_static_reader |-> build_static_reader, build_forecast_reader |-> build_forecast_reader,
  static_read |-> static_read, forecast_read |-> forecast_read]
=============================================================================
