-------------------------- MODULE CAbiExports --------------------------
(* The exports of the C ABI (crates/infrastore-ffi/src/lib.rs), each as    *)
(* the sequence of steps its body takes.  What a body computes is left     *)
(* out; the ORDER of what it checks, does to the store, allocates and      *)
(* writes through its out-pointers is all here, because that order is what *)
(* decides who owns an allocation when a call fails half way.              *)
(*                                                                         *)
(* Handle kinds: "store", "batch", "bulk", "static", "forecast".           *)
(* Owned objects, named by the deallocator that releases them: "string",   *)
(* "u8", "i64", "u64", "f64".                                              *)
EXTENDS Naturals, Sequences

HandleKind == {"store", "batch", "bulk", "static", "forecast"}
OwnedKind  == {"string", "u8", "i64", "u64", "f64"}

-----------------------------------------------------------------------------
(* Steps.  A step with a "says" field can fail: TRUE records a message for *)
(* infrastore_last_error_message, FALSE returns the bare status code.      *)

clear_error == [op |-> "clear"]

\* deref_handle! with and without its message argument.
Deref(k)       == [op |-> "deref", of |-> k, says |-> FALSE]
DerefSaying(k) == [op |-> "deref", of |-> k, says |-> TRUE]

\* An argument check or conversion that returns an error code.
Checked(says) == [op |-> "check", says |-> says]

require_nonnull == Checked(TRUE)
Rejects         == Checked(TRUE)

\* ffi_try! on a call into the core library; a failing one changes nothing.
ffi_try(effect) == [op |-> "core", effect |-> effect, says |-> TRUE]
Query  == ffi_try("none")
Mutate == ffi_try("edit")

\* std::mem::take on the batch, and the push of one parsed request.
take_items   == [op |-> "drain"]
push_request == [op |-> "push"]

\* An allocation made as a raw pointer: nothing drops it on an early return.
Raw(k) == [op |-> "raw", of |-> k, opt |-> FALSE]

\* The same, made only when the caller passed an out-pointer for it.
RawIfAsked(k) == [op |-> "raw", of |-> k, opt |-> TRUE]

\* opt_attr_cstring: a CString that a later early return drops; it fails when
\* the consumer's own text holds an interior NUL.
opt_attr_cstring == [op |-> "guard", of |-> "string", says |-> TRUE]

\* Writing every pending allocation through its out-pointer.
WriteOuts == [op |-> "give"]

\* Box::into_raw of a new handle written through the out-pointer.
EmitHandle(k) == [op |-> "open", of |-> k]

\* A destructor; it accepts null.
Release(k) == [op |-> "release", of |-> k]

\* write_str_out, and write_i64_slice_out, which has no terminator.
write_str_out       == [op |-> "text", nul |-> 1]
write_i64_slice_out == [op |-> "text", nul |-> 0]

\* CString::into_raw of a JSON payload.  serde_json escapes a NUL byte, so the
\* error arm of write_owned_str_out is not reachable from these exports.
write_owned_str_out == <<Raw("string"), WriteOuts>>

-----------------------------------------------------------------------------
(* Argument conversions shared by the exports. *)

\* Null or not UTF-8: the status code alone.
cstr_to_str             == <<Checked(FALSE)>>
cstr_to_optional_string == <<Checked(FALSE)>>

\* The caller's message is recorded.
cstr_to_path          == <<Checked(TRUE)>>
cstr_to_optional_path == <<Checked(TRUE)>>

\* A silent UTF-8 failure first, then a spoken parse failure.
cstr_to_period                  == cstr_to_str \o <<Rejects>>
cstr_to_optional_period         == cstr_to_optional_string \o <<Rejects>>
cstr_to_optional_unit_system    == cstr_to_optional_string \o <<Rejects>>
cstr_to_optional_time_reference == cstr_to_optional_string \o <<Rejects>>

cstr_to_element_type  == <<Checked(TRUE), Rejects>>
owner_category        == <<Rejects>>
optional_owner        == owner_category
optional_ts_type      == <<Rejects>>
build_time_range      == <<Rejects, Rejects>>
parse_features_json   == <<Rejects, Rejects, Rejects>>
build_typed_array     == <<Rejects>>
compression_from_code == <<Rejects>>
catalog_from_code     == <<Rejects>>

\* The association exports take their filter and their rows as JSON.
assoc_filter_from_json == cstr_to_optional_string \o <<Rejects>>
assoc_rows_from_json   == cstr_to_str \o <<Rejects>>

\* build_filter: category, type, the three strings, the two periods, features
\* and the initial timestamp, in the order the code converts them.
build_filter ==
  owner_category \o optional_ts_type \o <<Rejects, Rejects, Rejects>>
  \o cstr_to_optional_period \o cstr_to_optional_period
  \o parse_features_json \o <<Rejects>>

reader_filter == <<Rejects>> \o build_filter

\* parse_add_common: every descriptor of a series, before any array is built.
parse_add_common ==
  <<Checked(TRUE), Checked(TRUE)>> \o owner_category
  \o cstr_to_optional_string \o cstr_to_optional_string
  \o cstr_to_optional_unit_system \o cstr_to_optional_time_reference
  \o cstr_to_optional_string \o cstr_to_optional_string
  \o parse_features_json \o cstr_to_element_type \o build_typed_array

-----------------------------------------------------------------------------
(* Output helpers. *)

write_json_out     == <<Rejects, write_str_out>>
write_periods_json == <<write_str_out>>

\* write_assigned_ids allocates only for a caller that asked for the ids.
write_assigned_ids == <<RawIfAsked("i64"), WriteOuts>>

emit_store == <<Mutate, EmitHandle("store")>>

\* emit_descriptors: the four fallible strings are built and held first, the
\* two infallible ones next, and only then is anything written.  Each exists
\* only when the caller passed its out-pointer.
emit_descriptors ==
  <<opt_attr_cstring, opt_attr_cstring, opt_attr_cstring, opt_attr_cstring,
    RawIfAsked("string"), RawIfAsked("string"), WriteOuts>>

\* emit_forecast_data: all allocation follows the only check.
emit_forecast_data ==
  <<Rejects, Raw("u64"), Raw("u8"), RawIfAsked("f64"),
    Raw("string"), Raw("string"), Raw("string"), WriteOuts>>

-----------------------------------------------------------------------------
(* Prefixes most exports share. *)

Reading  == <<clear_error, Deref("store"), require_nonnull>>
Writing  == <<clear_error, Deref("store")>>
OnResult == <<clear_error, DerefSaying("bulk"), require_nonnull>>
OnBatch  == <<clear_error, DerefSaying("batch")>>
OnReader(k) == <<clear_error, DerefSaying(k), require_nonnull>>

-----------------------------------------------------------------------------
(* Stores: create, open, free. *)

\* The one export with no clear_error of its own.
init_logging == cstr_to_optional_string \o <<Rejects>>

create_with_catalog ==
  <<clear_error, require_nonnull>> \o cstr_to_optional_path
  \o compression_from_code \o catalog_from_code \o emit_store
create_replacing ==
  <<clear_error, require_nonnull>> \o cstr_to_path
  \o compression_from_code \o catalog_from_code \o emit_store
open_copy ==
  <<clear_error, require_nonnull>> \o cstr_to_path \o cstr_to_path
  \o catalog_from_code \o emit_store
open_with_catalog ==
  <<clear_error, require_nonnull>> \o cstr_to_path \o catalog_from_code
  \o emit_store
open_without_catalog ==
  <<clear_error, require_nonnull>> \o cstr_to_path \o catalog_from_code
  \o emit_store
catalog_mode == <<clear_error, require_nonnull, DerefSaying("store")>>
store_free   == <<Release("store")>>

-----------------------------------------------------------------------------
(* Store-level queries. *)

counts                   == Reading \o <<Query>>
get_forecast_parameters ==
  Reading \o cstr_to_optional_period \o cstr_to_optional_period
  \o <<Query, Raw("string"), Raw("string"), Raw("string"), WriteOuts>>
check_static_consistency ==
  Reading \o cstr_to_optional_period \o <<Query, write_str_out>>
get_resolutions == Reading \o optional_ts_type \o <<Query>> \o write_periods_json
get_intervals   == Reading \o optional_ts_type \o <<Query>> \o write_periods_json
read_only           == Reading
is_empty            == Reading \o <<Query>>
get_path            == Reading \o <<write_str_out>>
counts_by_type      == Reading \o <<Query, write_str_out>>
num_distinct_arrays == Reading \o <<Query>>
counts_detailed     == Reading \o <<Query>>
list_owner_ids ==
  Reading \o owner_category \o optional_ts_type \o cstr_to_optional_period
  \o <<Query, write_str_out>>
static_summary   == Reading \o <<Query, write_str_out>>
forecast_summary == Reading \o <<Query, write_str_out>>
get_compression  == Reading
verify           == Reading \o <<Query>>
in_transaction     == <<clear_error, require_nonnull, Deref("store")>>
write_buffer_bytes == <<clear_error, require_nonnull, Deref("store")>>
get_metadata_by_id == Reading \o <<Query, write_str_out>>
association_exists == Reading \o <<Query>>
has_any_by_filter  == Reading \o build_filter \o <<Query>>
get_array_by_hash  == Reading \o <<Query, Raw("u8"), WriteOuts>>
count_array_references ==
  <<clear_error, DerefSaying("store"), require_nonnull, Query>>
list_metadata_by_ids ==
  Reading \o <<Rejects, Query>> \o write_owned_str_out
list_metadata    == Reading \o build_filter \o <<Query>> \o write_owned_str_out
list_names       == Reading \o build_filter \o <<Query>> \o write_owned_str_out
list_owner_types == Reading \o build_filter \o <<Query>> \o write_owned_str_out

-----------------------------------------------------------------------------
(* Store-level writes, transactions and persistence. *)

remove_by_ids ==
  Writing \o <<require_nonnull, Rejects>> \o optional_owner \o <<Mutate>>
compact == Writing \o <<require_nonnull, Mutate>> \o write_owned_str_out
begin_transaction      == Writing \o <<Mutate>>
commit_transaction     == Writing \o <<Mutate>>
rollback_transaction   == Writing \o <<Mutate>>
set_write_buffer_bytes == Writing \o <<Mutate>>
flush                  == Writing \o <<Mutate>>
persist                == Writing \o cstr_to_path \o <<Mutate>>
persist_arrays         == Writing \o cstr_to_path \o <<Mutate>>
persist_catalog        == Writing \o <<Mutate>>
transform_single_time_series ==
  Writing \o <<require_nonnull>> \o owner_category \o cstr_to_optional_period
  \o cstr_to_period \o cstr_to_period
  \o <<Mutate, RawIfAsked("i64"), WriteOuts>>
remove_by_filter == Writing \o <<require_nonnull>> \o build_filter \o <<Mutate>>
copy_time_series == Writing \o cstr_to_str \o cstr_to_optional_string \o <<Mutate>>
clear            == Writing \o owner_category \o <<Mutate>>
replace_owner    == Writing \o owner_category \o <<Mutate>>

-----------------------------------------------------------------------------
(* Batches. *)

batch_new  == <<EmitHandle("batch")>>
batch_free == <<Release("batch")>>
batch_add_single ==
  OnBatch \o <<Rejects>> \o parse_add_common \o <<Rejects>> \o cstr_to_period
  \o <<push_request>>
batch_add_irregular ==
  OnBatch \o <<Rejects>> \o parse_add_common \o <<Rejects, Rejects, push_request>>
batch_add_non_sequential == batch_add_irregular
batch_add_persistent     == batch_add_irregular
batch_add_forecast ==
  OnBatch \o <<Rejects, Rejects>> \o parse_add_common \o <<Rejects>>
  \o cstr_to_period \o cstr_to_period \o cstr_to_period
  \o <<Rejects, push_request>>
batch_add_probabilistic ==
  OnBatch \o <<Rejects>> \o parse_add_common \o <<Rejects>>
  \o cstr_to_period \o cstr_to_period \o cstr_to_period
  \o <<Rejects, push_request>>

\* The out-pointers are refused before the batch is drained, the batch is
\* drained before the bulk add, and the ids are allocated after it.
add_batch ==
  <<clear_error, DerefSaying("store"), DerefSaying("batch"), require_nonnull,
    take_items, Mutate, Raw("i64"), WriteOuts>>

-----------------------------------------------------------------------------
(* Reads by id and their result handle. *)

read_by_ids       == Reading \o <<Rejects, Query, EmitHandle("bulk")>>
read_by_ids_range ==
  Reading \o <<Rejects>> \o build_time_range \o <<Query, EmitHandle("bulk")>>
read_by_id ==
  Reading \o <<Rejects, Rejects, Rejects>> \o optional_owner
  \o <<Query, EmitHandle("bulk")>>
bulk_result_item_name == OnResult \o <<Rejects, opt_attr_cstring, WriteOuts>>
bulk_result_item_type == OnResult \o <<Rejects>>
bulk_result_get_single ==
  OnResult \o <<Rejects, Rejects>> \o emit_descriptors
  \o <<Raw("string"), Raw("i64"), Raw("u8"), WriteOuts>>
bulk_result_get_irregular ==
  OnResult \o <<Rejects, Rejects>> \o emit_descriptors
  \o <<Raw("i64"), Raw("i64"), Raw("u8"), WriteOuts>>

\* The item was matched as a forecast above, so the check inside
\* emit_forecast_data cannot fail here: its steps after that check.
bulk_result_get_forecast ==
  OnResult \o <<Rejects>> \o emit_descriptors \o Tail(emit_forecast_data)
bulk_result_free == <<Release("bulk")>>

-----------------------------------------------------------------------------
(* Associations, store attributes, OpenAPI rows and SQLite tables. *)

assoc_add_one    == Writing \o cstr_to_str \o cstr_to_str \o <<Mutate>>
assoc_add_many   == Writing \o assoc_rows_from_json \o <<Mutate>> \o write_assigned_ids
assoc_has        == Reading \o assoc_filter_from_json \o <<Query>>
assoc_remove     == Writing \o assoc_filter_from_json \o <<Mutate>>
assoc_replace_component_id == Writing \o <<Mutate>>

add_supplemental_attribute_association  == assoc_add_one
add_supplemental_attribute_associations == assoc_add_many
has_supplemental_attribute_association  == assoc_has
list_supplemental_attribute_associations ==
  Reading \o assoc_filter_from_json \o <<Query, Rejects>> \o write_owned_str_out
list_supplemental_attribute_ids ==
  Reading \o assoc_filter_from_json \o <<Query>> \o write_json_out
list_components_with_attributes ==
  Reading \o assoc_filter_from_json \o <<Query>> \o write_json_out
remove_supplemental_attribute_associations  == assoc_remove
replace_supplemental_attribute_component_id == assoc_replace_component_id
count_supplemental_attribute_associations ==
  Reading \o assoc_filter_from_json \o <<Rejects, Query>>
supplemental_attribute_counts_by_type == Reading \o <<Query, write_str_out>>
supplemental_attribute_summary        == Reading \o <<Query>> \o write_json_out

add_parent_child_association  == assoc_add_one
add_parent_child_associations == assoc_add_many
has_parent_child_association  == assoc_has
list_parent_child_associations ==
  Reading \o assoc_filter_from_json \o <<Query>> \o write_json_out
list_parent_child_ids ==
  Reading \o assoc_filter_from_json \o <<Rejects, Query>> \o write_json_out
remove_parent_child_associations  == assoc_remove
replace_parent_child_component_id == assoc_replace_component_id
count_parent_child_associations   == Reading \o assoc_filter_from_json \o <<Query>>

set_store_attribute    == Writing \o cstr_to_str \o cstr_to_str \o <<Mutate>>
get_store_attribute ==
  Reading \o cstr_to_str \o <<Query, opt_attr_cstring, WriteOuts>>
list_store_attributes  == Reading \o <<Query, Rejects>> \o write_owned_str_out
remove_store_attribute == Writing \o cstr_to_str \o <<Mutate>>

export_time_series_associations_openapi ==
  Reading \o build_filter \o <<Query>> \o write_owned_str_out
export_supplemental_attribute_associations_openapi ==
  Reading \o <<Query>> \o write_owned_str_out
import_time_series_associations_openapi            == Writing \o cstr_to_str \o <<Mutate>>
import_supplemental_attribute_associations_openapi == Writing \o cstr_to_str \o <<Mutate>>

export_sqlite ==
  Reading \o build_filter \o build_time_range \o cstr_to_path
  \o cstr_to_optional_string \o <<Query>> \o write_owned_str_out

\* ids without a count could be neither read nor released: refused up front.
import_sqlite ==
  Writing \o <<require_nonnull>> \o cstr_to_path \o cstr_to_optional_string
  \o <<Mutate>> \o write_assigned_ids

string_free     == <<Release("string")>>
buffer_free_u64 == <<Release("u64")>>
buffer_free_f64 == <<Release("f64")>>
buffer_free_u8  == <<Release("u8")>>
buffer_free_i64 == <<Release("i64")>>

-----------------------------------------------------------------------------
(* Grid arithmetic and the two readers. *)

grid_timestamps ==
  <<clear_error, require_nonnull>> \o cstr_to_optional_period
  \o <<Rejects, Rejects, Rejects, write_i64_slice_out>>
infer_period ==
  <<clear_error, require_nonnull, Rejects, Rejects, Rejects,
    Raw("string"), WriteOuts>>

build_static_reader ==
  <<clear_error, DerefSaying("store"), require_nonnull>> \o optional_ts_type
  \o reader_filter \o <<Rejects, Query, EmitHandle("static")>>
static_reader_grid           == OnReader("static") \o <<Raw("string"), WriteOuts>>
static_reader_time_reference == OnReader("static") \o <<Raw("string"), WriteOuts>>
static_reader_timestamps     == OnReader("static") \o <<write_i64_slice_out>>
static_reader_num_groups     == OnReader("static")
static_reader_group_info     == OnReader("static") \o <<Rejects, write_i64_slice_out>>
static_reader_group_id ==
  <<clear_error, DerefSaying("static"), Rejects, require_nonnull, Rejects>>
static_reader_invalidate   == <<clear_error, DerefSaying("static")>>
static_reader_read ==
  <<clear_error, DerefSaying("static"), DerefSaying("store"), Rejects, Query>>
static_reader_group_values == OnReader("static") \o <<Rejects>>
static_reader_free         == <<Release("static")>>

build_forecast_reader ==
  <<clear_error, DerefSaying("store"), require_nonnull>> \o optional_ts_type
  \o reader_filter \o <<Query, EmitHandle("forecast")>>
forecast_reader_time_reference == OnReader("forecast") \o <<Raw("string"), WriteOuts>>
forecast_reader_timeline ==
  OnReader("forecast") \o <<Raw("string"), Raw("string"), WriteOuts>>
forecast_reader_num_entries  == OnReader("forecast")
forecast_reader_num_slots    == OnReader("forecast")
forecast_reader_entry_slot   == OnReader("forecast") \o <<Rejects>>
forecast_reader_entry_info   == OnReader("forecast") \o <<Rejects, write_i64_slice_out>>
forecast_reader_entry_id     == OnReader("forecast") \o <<Rejects>>
forecast_reader_invalidate   == <<clear_error, DerefSaying("forecast")>>
forecast_reader_read ==
  <<clear_error, DerefSaying("forecast"), DerefSaying("store"), Rejects, Query>>
forecast_reader_entry_values == OnReader("forecast") \o <<Rejects>>
forecast_reader_free         == <<Release("forecast")>>
-----------------------------------------------------------------------------
(* Every export and its steps. *)
Program ==
  [init_logging |-> init_logging,
   create_with_catalog |-> create_with_catalog,
   create_replacing |-> create_replacing,
   open_copy |-> open_copy,
   open_with_catalog |-> open_with_catalog,
   open_without_catalog |-> open_without_catalog,
   catalog_mode |-> catalog_mode,
   store_free |-> store_free,
   counts |-> counts,
   get_forecast_parameters |-> get_forecast_parameters,
   check_static_consistency |-> check_static_consistency,
   get_resolutions |-> get_resolutions,
   get_intervals |-> get_intervals,
   read_only |-> read_only,
   is_empty |-> is_empty,
   get_path |-> get_path,
   counts_by_type |-> counts_by_type,
   num_distinct_arrays |-> num_distinct_arrays,
   counts_detailed |-> counts_detailed,
   list_owner_ids |-> list_owner_ids,
   static_summary |-> static_summary,
   forecast_summary |-> forecast_summary,
   get_compression |-> get_compression,
   verify |-> verify,
   in_transaction |-> in_transaction,
   write_buffer_bytes |-> write_buffer_bytes,
   get_metadata_by_id |-> get_metadata_by_id,
   association_exists |-> association_exists,
   has_any_by_filter |-> has_any_by_filter,
   get_array_by_hash |-> get_array_by_hash,
   count_array_references |-> count_array_references,
   list_metadata_by_ids |-> list_metadata_by_ids,
   list_metadata |-> list_metadata,
   list_names |-> list_names,
   list_owner_types |-> list_owner_types,
   remove_by_ids |-> remove_by_ids,
   compact |-> compact,
   begin_transaction |-> begin_transaction,
   commit_transaction |-> commit_transaction,
   rollback_transaction |-> rollback_transaction,
   set_write_buffer_bytes |-> set_write_buffer_bytes,
   flush |-> flush,
   persist |-> persist,
   persist_arrays |-> persist_arrays,
   persist_catalog |-> persist_catalog,
   transform_single_time_series |-> transform_single_time_series,
   remove_by_filter |-> remove_by_filter,
   copy_time_series |-> copy_time_series,
   clear |-> clear,
   replace_owner |-> replace_owner,
   batch_new |-> batch_new,
   batch_free |-> batch_free,
   batch_add_single |-> batch_add_single,
   batch_add_non_sequential |-> batch_add_non_sequential,
   batch_add_persistent |-> batch_add_persistent,
   batch_add_forecast |-> batch_add_forecast,
   batch_add_probabilistic |-> batch_add_probabilistic,
   add_batch |-> add_batch,
   read_by_ids |-> read_by_ids,
   read_by_ids_range |-> read_by_ids_range,
   read_by_id |-> read_by_id,
   bulk_result_item_name |-> bulk_result_item_name,
   bulk_result_item_type |-> bulk_result_item_type,
   bulk_result_get_single |-> bulk_result_get_single,
   bulk_result_get_irregular |-> bulk_result_get_irregular,
   bulk_result_get_forecast |-> bulk_result_get_forecast,
   bulk_result_free |-> bulk_result_free,
   add_supplemental_attribute_association |-> add_supplemental_attribute_association,
   add_supplemental_attribute_associations |-> add_supplemental_attribute_associations,
   has_supplemental_attribute_association |-> has_supplemental_attribute_association,
   list_supplemental_attribute_associations |-> list_supplemental_attribute_associations,
   list_supplemental_attribute_ids |-> list_supplemental_attribute_ids,
   list_components_with_attributes |-> list_components_with_attributes,
   remove_supplemental_attribute_associations |-> remove_supplemental_attribute_associations,
   replace_supplemental_attribute_component_id |-> replace_supplemental_attribute_component_id,
   count_supplemental_attribute_associations |-> count_supplemental_attribute_associations,
   supplemental_attribute_counts_by_type |-> supplemental_attribute_counts_by_type,
   supplemental_attribute_summary |-> supplemental_attribute_summary,
   add_parent_child_association |-> add_parent_child_association,
   add_parent_child_associations |-> add_parent_child_associations,
   has_parent_child_association |-> has_parent_child_association,
   list_parent_child_associations |-> list_parent_child_associations,
   list_parent_child_ids |-> list_parent_child_ids,
   remove_parent_child_associations |-> remove_parent_child_associations,
   replace_parent_child_component_id |-> replace_parent_child_component_id,
   count_parent_child_associations |-> count_parent_child_associations,
   set_store_attribute |-> set_store_attribute,
   get_store_attribute |-> get_store_attribute,
   list_store_attributes |-> list_store_attributes,
   remove_store_attribute |-> remove_store_attribute,
   export_time_series_associations_openapi |-> export_time_series_associations_openapi,
   export_supplemental_attribute_associations_openapi |-> export_supplemental_attribute_associations_openapi,
   import_time_series_associations_openapi |-> import_time_series_associations_openapi,
   import_supplemental_attribute_associations_openapi |-> import_supplemental_attribute_associations_openapi,
   export_sqlite |-> export_sqlite,
   import_sqlite |-> import_sqlite,
   string_free |-> string_free,
   buffer_free_u64 |-> buffer_free_u64,
   buffer_free_f64 |-> buffer_free_f64,
   buffer_free_u8 |-> buffer_free_u8,
   buffer_free_i64 |-> buffer_free_i64,
   grid_timestamps |-> grid_timestamps,
   infer_period |-> infer_period,
   build_static_reader |-> build_static_reader,
   static_reader_grid |-> static_reader_grid,
   static_reader_time_reference |-> static_reader_time_reference,
   static_reader_timestamps |-> static_reader_timestamps,
   static_reader_num_groups |-> static_reader_num_groups,
   static_reader_group_info |-> static_reader_group_info,
   static_reader_group_id |-> static_reader_group_id,
   static_reader_invalidate |-> static_reader_invalidate,
   static_reader_read |-> static_reader_read,
   static_reader_group_values |-> static_reader_group_values,
   static_reader_free |-> static_reader_free,
   build_forecast_reader |-> build_forecast_reader,
   forecast_reader_time_reference |-> forecast_reader_time_reference,
   forecast_reader_timeline |-> forecast_reader_timeline,
   forecast_reader_num_entries |-> forecast_reader_num_entries,
   forecast_reader_num_slots |-> forecast_reader_num_slots,
   forecast_reader_entry_slot |-> forecast_reader_entry_slot,
   forecast_reader_entry_info |-> forecast_reader_entry_info,
   forecast_reader_entry_id |-> forecast_reader_entry_id,
   forecast_reader_invalidate |-> forecast_reader_invalidate,
   forecast_reader_read |-> forecast_reader_read,
   forecast_reader_entry_values |-> forecast_reader_entry_values,
   forecast_reader_free |-> forecast_reader_free]
=============================================================================
