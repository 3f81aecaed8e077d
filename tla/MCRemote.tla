------------------------------ MODULE MCRemote ------------------------------
(* Four rows: a grid, an irregular series of wall clocks, an empty irregular *)
(* series and a probabilistic forecast whose array is lost.                  *)
EXTENDS Remote, SequencesExt

CONSTANTS asks, waits, lacksKey   \* the clients

Meta(id, type, initial, resolution, stamps, pct, feats, ref, app) ==
  [id |-> id, type |-> type, initial |-> initial, resolution |-> resolution,
   timestamps |-> stamps, percentiles |-> pct, features |-> feats, basis |-> Absent,
   reference |-> ref, app |-> app]

Data(m, type, count, scen, shape) ==
  [type |-> type, initial |-> m.initial, resolution |-> m.resolution,
   timestamps |-> m.timestamps, count |-> count, percentiles |-> m.percentiles,
   scenarios |-> scen, shape |-> shape, bytes |-> Absent, basis |-> m.basis,
   reference |-> m.reference, app |-> m.app]

NoFeatures == [k \in {} |-> Absent]

M1 == Meta(1, "SingleTimeSeries", 0, 2, Absent, Absent, NoFeatures, Absent, "x")
M2 == Meta(2, "NonSequentialTimeSeries", Absent, Absent, <<3, 5>>, Absent,
           [year |-> 1], "zoneless", Absent)
M3 == Meta(3, "PersistentTimeSeries", Absent, Absent, <<>>, Absent,
           [year |-> 1, case |-> 2], "zoneless", Absent)
M4 == Meta(4, "Probabilistic", 0, 1, Absent, <<10, 90>>, NoFeatures, Absent, Absent)
M5 == Meta(5, "DeterministicSingleTimeSeries", 0, 1, Absent, Absent, NoFeatures, "utc", Absent)

MCCatalog ==
  <<[meta |-> M1, data |-> Data(M1, "SingleTimeSeries", Absent, Absent, <<3>>)],
    [meta |-> M2, data |-> Data(M2, "NonSequentialTimeSeries", Absent, Absent, <<2>>)],
    [meta |-> M3, data |-> Data(M3, "PersistentTimeSeries", Absent, Absent, <<0>>)],
    [meta |-> M4, data |-> Data(M4, "Probabilistic", 3, Absent, <<2, 1, 3>>)],
    [meta |-> M5, data |-> Data(M5, "Deterministic", 2, Absent, <<1, 2>>)]>>

MCAttributes == [origin |-> "text"]

NoFilter == [type |-> Absent, zoneless |-> Absent, resolution |-> Absent,
             features |-> Absent, exact |-> FALSE]

Q(op) == [op |-> op, ids |-> <<>>, filter |-> NoFilter, range |-> Absent, key |-> Absent]

Ranges == {Absent} \cup [start : {3}, end : {3, 5}, zoneless : BOOLEAN]

AllQuestions ==
  {[Q("list_metadata") EXCEPT !.filter = f] :
     f \in {NoFilter, [NoFilter EXCEPT !.type = "Probabilistic"],
            [NoFilter EXCEPT !.zoneless = FALSE, !.resolution = 1],
            [NoFilter EXCEPT !.features = [year |-> 1]]}}
  \cup {[Q("has_any_time_series") EXCEPT !.filter.features = f] :
          f \in {[year |-> 1], [case |-> 2]}}
  \cup {Q(op) : op \in Overviews}
  \cup {[Q(op) EXCEPT !.filter.type = "SingleTimeSeries"] :
          op \in {"get_resolutions", "list_owner_ids"}}
  \cup {[Q("check_static_consistency") EXCEPT !.filter.resolution = 2]}
  \cup {[Q(op) EXCEPT !.ids = ids] : op \in {"list_metadata_by_ids"}, ids \in {<<3, 1, 3>>, <<1, 9>>}}
  \cup {[Q(op) EXCEPT !.ids = <<i>>] : op \in {"get_metadata_by_id", "association_exists"}, i \in {2, 9}}
  \cup {[Q("read_by_id") EXCEPT !.ids = <<i>>, !.range = r] : i \in {1, 2, 9}, r \in Ranges}
  \cup {[Q("read_by_ids") EXCEPT !.ids = ids, !.range = r] :
          ids \in {<<2, 1, 2>>, <<2, 3>>, <<5, 4>>, <<1, 1, 1, 1>>}, r \in Ranges}
  \cup {[Q("get_store_attribute") EXCEPT !.key = k] : k \in {"origin", "other"}}
  \cup {Q("list_store_attributes")}

\* Half a range, a type no build knows, a text that is no instant, an empty arm.
AllMalformed ==
  {[Request([Q("read_by_id") EXCEPT !.ids = <<1>>]) EXCEPT !.range.start = to_rfc3339(3)],
   [Request(Q("list_metadata")) EXCEPT !.filter.type = 7],
   [Request([Q("read_by_ids") EXCEPT !.ids = <<1>>])
      EXCEPT !.range = [start |-> [text |-> ""], end |-> to_rfc3339(5), bounds_zoneless |-> Absent]],
   [Request(Q("has_any_time_series")) EXCEPT !.filter.features = [year |-> [arm |-> Absent]]]}

Listing(S) == FoldSet(LAMBDA x, s : Append(s, x), <<>>, S)

MCRequests == Listing({[asks |-> q] : q \in AllQuestions})
              \o Listing({[raw |-> w] : w \in AllMalformed})

\* One client asks everything; the others are there to be waited for.
MCMayAsk == (asks :> DOMAIN MCRequests) @@ (waits :> {1}) @@ (lacksKey :> {2})
=============================================================================
